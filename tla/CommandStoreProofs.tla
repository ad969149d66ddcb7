------------------------- MODULE CommandStoreProofs -------------------------
(***************************************************************************)
(* The commands table and the buffers of its replicas, for any number of    *)
(* replicas, names and batches of uses: types, receipts that are credited   *)
(* once, exact totals, each replica's buffer as a Batcher, and no edit      *)
(* forgotten.                                                               *)
(***************************************************************************)
EXTENDS CommandStore, FiniteSetTheorems, WellFoundedInduction, TLAPS

\* The parts of TypeOK: the table, what requests leave, and the replicas.
TypeTable ==
    /\ rows \in [Names -> Row \cup {None}]
    /\ receipts \subseteq Batches /\ erased \in BOOLEAN

TypeClock ==
    /\ last \in [Names -> [at : Nat, gone : BOOLEAN]]
    /\ clock \in Nat /\ direct \in Nat

Numbered == [Replicas -> [Names -> Nat]]

TypeBuffers ==
    /\ newest \in Numbered /\ pending \in Numbered /\ taken \in Numbered
    /\ written \in Numbered /\ dropped \in Numbered

TypeFlush ==
    /\ pc \in [Replicas -> FlushStates] /\ cur \in [Replicas -> Names \cup {None}]
    /\ left \in [Replicas -> SUBSET Names] /\ failures \in [Replicas -> Nat]

LEMMA Parts == TypeOK <=> TypeTable /\ TypeClock /\ TypeBuffers /\ TypeFlush
BY DEF TypeOK, TypeTable, TypeClock, TypeBuffers, TypeFlush, Numbered

LEMMA TypeInit == Init => TypeOK
<1> SUFFICES ASSUME Init PROVE TypeOK
  OBVIOUS
<1>1. TypeTable
  BY DEF Init, TypeTable
<1>2. TypeClock
  BY DEF Init, TypeClock
<1>3. TypeBuffers
  BY DEF Init, TypeBuffers, Numbered, Nothing
<1>4. TypeFlush
  BY DEF Init, TypeFlush, FlushStates
<1> QED BY <1>1, <1>2, <1>3, <1>4, Parts

-----------------------------------------------------------------------------
(* The table                                                                *)

LEMMA NewRowType ==
  ASSUME NEW e \in Nat, NEW u \in 0 .. MaxCounter, NEW o \in BOOLEAN
  PROVE  NewRow(e, u, o) \in Row
BY UsesAssumption DEF NewRow, Row

LEMMA ApplyEditType ==
  ASSUME NEW row \in Row, NEW e \in Nat PROVE ApplyEdit(row, e) \in Row
BY DEF ApplyEdit, Row

LEMMA UpsertedType ==
  ASSUME TypeTable, NEW S \in SUBSET Names, NEW m \in [Names -> Nat], NEW o \in BOOLEAN
  PROVE  Upserted(S, m, o) \in [Names -> Row \cup {None}]
<1> SUFFICES ASSUME NEW n \in Names
             PROVE  (IF n \notin S THEN rows[n]
                     ELSE IF rows[n] = None THEN NewRow(m[n], 0, o)
                     ELSE ApplyEdit(rows[n], m[n])) \in Row \cup {None}
  BY Zenon DEF Upserted
<1>1. rows[n] \in Row \cup {None} /\ m[n] \in Nat
  BY DEF TypeTable
<1>2. NewRow(m[n], 0, o) \in Row
  BY <1>1, NewRowType, UsesAssumption
<1>3. rows[n] # None => ApplyEdit(rows[n], m[n]) \in Row
  BY <1>1, ApplyEditType
<1> QED BY <1>1, <1>2, <1>3

LEMMA CreatedAtType == TypeTable => CreatedAt \subseteq BOOLEAN
BY DEF TypeTable, CreatedAt

\* What a step may do to the table.
LEMMA TableMoves ==
  ASSUME TypeOK, [Next]_vars
  PROVE  \/ UNCHANGED table
         \/ \E n \in Names : \/ Delete(n)
                             \/ \E r \in Replicas : \/ Restore(r, n) /\ rows[n] = None
                                                    \/ \E o \in Names : Rename(r, o, n) /\ rows[o] # None
         \/ AccountDeleted \/ DeleteAllForUser
         \/ \E b \in Batches : RecordUse(b)
         \/ /\ UNCHANGED <<receipts, erased>>
            /\ \E r \in Replicas, S \in SUBSET Names, o \in BOOLEAN :
                  rows' = Upserted(S, taken[r], o)
<1> USE DEF table
<1>0. CreatedAt \subseteq BOOLEAN
  BY CreatedAtType, Parts
<1>1. ASSUME NEW r \in Replicas, FlushStep(r)
      PROVE  \/ UNCHANGED table
             \/ /\ UNCHANGED <<receipts, erased>>
                /\ \E S \in SUBSET Names, o \in BOOLEAN : rows' = Upserted(S, taken[r], o)
  <2>1. left[r] \in SUBSET Names
    BY DEF TypeOK
  <2>2. CASE TakePending(r) \/ FlushReturns(r)
    BY <2>2 DEF TakePending, FlushReturns
  <2>3. CASE BulkUpsert(r)
    BY <1>0, <2>1, <2>3, Zenon DEF BulkUpsert
  <2>4. CASE BulkFails(r)
    BY <1>0, <2>1, <2>4, Zenon DEF BulkFails
  <2>5. ASSUME NEW n \in Names, UpdateCommand(r, n) \/ CreateCommand(r, n) \/ UpdateAgain(r, n)
                                 \/ AnswerLost(r, n)
        PROVE  \/ UNCHANGED table
               \/ /\ UNCHANGED <<receipts, erased>>
                  /\ \E o \in BOOLEAN : rows' = Upserted({n}, taken[r], o)
    BY <1>0, <2>5, Zenon DEF UpdateCommand, CreateCommand, UpdateAgain, AnswerLost
  <2>6. ASSUME NEW n \in Names, Requeue(r, n) \/ DropEdit(r, n) PROVE UNCHANGED table
    BY <2>6 DEF Requeue, DropEdit
  <2>7. \A n \in Names : {n} \in SUBSET Names
    OBVIOUS
  <2> QED BY <1>1, <2>2, <2>3, <2>4, <2>5, <2>6, <2>7, Zenon DEF FlushStep
<1>2. ASSUME NEW r \in Replicas, NEW n \in Names, Add(r, n) PROVE UNCHANGED table
  BY <1>2 DEF Add
<1>3. ASSUME NEW r \in Replicas, NEW n \in Names, Upsert(r, n) PROVE UNCHANGED table
  BY <1>2, <1>3 DEF Upsert
<1>4. ASSUME NEW r \in Replicas, NEW n \in Names, Restore(r, n)
      PROVE  UNCHANGED table \/ rows[n] = None
  BY <1>2, <1>4, Zenon DEF Restore
<1>5. ASSUME NEW r \in Replicas, NEW o \in Names, NEW n \in Names, Rename(r, o, n)
      PROVE  UNCHANGED table \/ rows[o] # None
  BY <1>2, <1>5, Zenon DEF Rename
<1>6. CASE UNCHANGED vars
  BY <1>6 DEF vars
<1>7. CASE Request
  BY <1>3, <1>4, <1>5, <1>7, Zenon DEF Request
<1> QED BY <1>1, <1>6, <1>7, Zenon DEF Next

LEMMA TableStep == ASSUME TypeOK, [Next]_vars PROVE TypeTable'
<1> USE DEF TypeTable
<1>0. TypeTable /\ CreatedAt \subseteq BOOLEAN /\ clock \in Nat
  BY CreatedAtType, Parts DEF TypeClock
<1>1. CASE UNCHANGED table
  BY <1>0, <1>1 DEF table
<1>2. ASSUME NEW n \in Names, Delete(n) PROVE TypeTable'
  BY <1>0, <1>2 DEF Delete
<1>3. ASSUME NEW n \in Names, NEW r \in Replicas, Restore(r, n), rows[n] = None PROVE TypeTable'
  <2>1. clock' \in Nat /\ UNCHANGED <<receipts, erased>>
    BY <1>0, <1>3 DEF Restore, Tick
  <2>2. PICK o \in BOOLEAN : rows' = [rows EXCEPT ![n] = NewRow(clock', RestoreUses, o)]
    BY <1>0, <1>3, Zenon DEF Restore
  <2>3. NewRow(clock', RestoreUses, o) \in Row
    BY <2>1, NewRowType, UsesAssumption
  <2> QED BY <1>0, <2>1, <2>2, <2>3
<1>4. ASSUME NEW n \in Names, NEW r \in Replicas, NEW o \in Names, Rename(r, o, n), rows[o] # None
      PROVE  TypeTable'
  <2>1. clock' \in Nat /\ UNCHANGED <<receipts, erased>>
    BY <1>0, <1>4 DEF Rename, Tick
  <2>2. rows' = [rows EXCEPT ![o] = None, ![n] = ApplyEdit(rows[o], clock')]
    BY <1>4 DEF Rename
  <2>3. ApplyEdit(rows[o], clock') \in Row
    BY <1>0, <1>4, <2>1, ApplyEditType
  <2> QED BY <1>0, <2>1, <2>2, <2>3
<1>5. CASE AccountDeleted
  <2>1. \A n \in Names : rows[n] # None => [rows[n] EXCEPT !.old = TRUE] \in Row
    BY <1>0 DEF Row
  <2> QED BY <1>0, <1>5, <2>1 DEF AccountDeleted
<1>6. CASE DeleteAllForUser
  BY <1>0, <1>6 DEF DeleteAllForUser
<1>7. ASSUME NEW b \in Batches, RecordUse(b) PROVE TypeTable'
  <2>1. Target[b] \in Names /\ Count[b] \in 1 .. MaxCounter /\ MaxCounter \in Nat
    BY UsesAssumption
  <2>2. CASE rows' = rows
    BY <1>0, <1>7, <2>2 DEF RecordUse
  <2>3. CASE rows' # rows
    <3> DEFINE row == rows[Target[b]]
               new == [row EXCEPT !.uses = @ + Count[b], !.credited = @ \cup {b}]
    <3>1. row \in Row /\ row.uses <= MaxCounter - Count[b]
      BY <1>0, <1>7, <2>1, <2>3 DEF RecordUse, Room
    <3>2. new \in Row
      <4>1. row.uses \in Nat /\ row.credited \in SUBSET Batches
        BY <2>1, <3>1 DEF Row
      <4>2. row.uses + Count[b] \in 0 .. MaxCounter /\ row.credited \cup {b} \in SUBSET Batches
        BY <2>1, <3>1, <4>1
      <4> HIDE DEF row
      <4> QED BY <3>1, <4>2 DEF Row
    <3>3. rows' = [rows EXCEPT ![Target[b]] = new]
      BY <1>0, <1>7, <2>1, <2>3, <3>1 DEF RecordUse, Row
    <3> QED BY <1>0, <1>7, <2>1, <3>2, <3>3 DEF RecordUse
  <2> QED BY <2>2, <2>3
<1>8. ASSUME UNCHANGED <<receipts, erased>>, NEW r \in Replicas, NEW S \in SUBSET Names,
             NEW o \in BOOLEAN, rows' = Upserted(S, taken[r], o)
      PROVE  TypeTable'
  <2>1. taken[r] \in [Names -> Nat]
    BY DEF TypeOK
  <2> QED BY <1>0, <1>8, <2>1, UpsertedType
<1> QED BY <1>1, <1>2, <1>3, <1>4, <1>5, <1>6, <1>7, <1>8, TableMoves

-----------------------------------------------------------------------------
(* Requests and flushes                                                     *)

LEMMA AddType ==
  ASSUME TypeOK, NEW r \in Replicas, NEW n \in Names, Add(r, n)
  PROVE  TypeBuffers' /\ TypeFlush'
<1>1. clock' \in Nat
  BY DEF Add, Tick, TypeOK
<1>2. newest' \in Numbered /\ pending' \in Numbered
  BY <1>1 DEF Add, TypeOK, Numbered
<1> QED BY <1>2 DEF Add, TypeOK, TypeBuffers, TypeFlush, Numbered, flushing, outcome

Lasts == [Names -> [at : Nat, gone : BOOLEAN]]

LEMMA AcceptType ==
  ASSUME TypeClock, NEW n \in Names, NEW g \in BOOLEAN, Tick, Accept(n, g)
  PROVE  last' \in Lasts /\ clock' \in Nat
BY DEF TypeClock, Tick, Accept, Lasts

LEMMA DirectType == TypeClock /\ (Direct \/ UNCHANGED direct) => direct' \in Nat
BY DEF TypeClock, Direct

LEMMA FlushKeepsClock ==
  ASSUME NEW r \in Replicas, FlushStep(r) PROVE UNCHANGED <<last, clock, direct, newest>>
BY Zenon DEF FlushStep, TakePending, BulkUpsert, BulkFails, FlushReturns, UpdateCommand,
   CreateCommand, UpdateAgain, AnswerLost, Requeue, DropEdit, buffers

LEMMA ClockStep == ASSUME TypeOK, [Next]_vars PROVE TypeClock'
<1>0. TypeClock
  BY Parts
<1>1. CASE UNCHANGED <<last, clock, direct>>
  BY <1>0, <1>1 DEF TypeClock
<1>2. CASE last' \in Lasts /\ clock' \in Nat /\ direct' \in Nat
  BY <1>2 DEF TypeClock, Lasts
<1>3. ASSUME NEW r \in Replicas, NEW n \in Names, Add(r, n), Direct \/ UNCHANGED direct PROVE TypeClock'
  BY <1>0, <1>2, <1>3, AcceptType, DirectType, Zenon DEF Add
<1>4. ASSUME NEW r \in Replicas, NEW n \in Names, Upsert(r, n) \/ Restore(r, n)
      PROVE  TypeClock'
  BY <1>0, <1>2, <1>3, <1>4, AcceptType, DirectType, Zenon DEF Upsert, Restore
<1>4a. ASSUME NEW n \in Names, Delete(n) PROVE TypeClock'
  BY <1>0, <1>2, <1>4a, AcceptType, DirectType, Zenon DEF Delete
<1>5. ASSUME NEW r \in Replicas, NEW o \in Names, NEW n \in Names, Rename(r, o, n) PROVE TypeClock'
  <2>1. CASE Add(r, n)
    BY <1>3, <1>5, <2>1 DEF Rename
  <2>2. CASE /\ Tick
             /\ last' = [last EXCEPT ![o] = [at |-> clock', gone |-> TRUE],
                                     ![n] = [at |-> clock', gone |-> FALSE]]
    <3>1. clock' \in Nat
      BY <1>0, <2>2 DEF TypeClock, Tick
    <3>2. last' \in Lasts
      BY <1>0, <2>2, <3>1 DEF TypeClock, Lasts
    <3> QED BY <1>0, <1>2, <1>5, <3>1, <3>2, DirectType DEF Rename
  <2> QED BY <1>5, <2>1, <2>2 DEF Rename
<1>6. CASE AccountDeleted
  BY <1>0, <1>6, DirectType DEF AccountDeleted, TypeClock
<1>7. CASE DeleteAllForUser
  <2>1. clock' \in Nat /\ UNCHANGED direct
    BY <1>0, <1>7 DEF DeleteAllForUser, Tick, TypeClock
  <2>2. last' \in Lasts
    BY <1>0, <1>7, <2>1 DEF DeleteAllForUser, TypeClock, Lasts
  <2> QED BY <1>0, <1>2, <2>1, <2>2 DEF TypeClock
<1>8. ASSUME NEW b \in Batches, RecordUse(b) PROVE TypeClock'
  BY <1>1, <1>8 DEF RecordUse
<1>9. ASSUME NEW r \in Replicas, FlushStep(r) PROVE TypeClock'
  BY <1>1, <1>9, FlushKeepsClock
<1>10. CASE UNCHANGED vars
  BY <1>1, <1>10 DEF vars
<1>11. CASE Request
  BY <1>4, <1>4a, <1>5, <1>6, <1>11, Zenon DEF Request
<1> QED BY <1>7, <1>8, <1>9, <1>10, <1>11, Zenon DEF Next

\* A step that is no flush leaves the buffers, or adds to one of them.
LEMMA RequestMoves ==
  ASSUME [Next]_vars
  PROVE  \/ \E r \in Replicas : FlushStep(r)
         \/ \E r \in Replicas, n \in Names : Add(r, n)
         \/ UNCHANGED <<buffers, flushing, outcome>>
<1>1. CASE UNCHANGED vars \/ DeleteAllForUser \/ (\E b \in Batches : RecordUse(b))
  BY <1>1, Zenon DEF vars, DeleteAllForUser, RecordUse
<1>2. CASE Request
  BY <1>2, Zenon DEF Request, Upsert, Restore, Delete, Rename, AccountDeleted
<1> QED BY <1>1, <1>2, Zenon DEF Next

LEMMA LandedType ==
  ASSUME TypeBuffers, NEW r \in Replicas, NEW S \in SUBSET Names, Landed(r, S)
  PROVE  written' \in Numbered
BY DEF TypeBuffers, Landed, Numbered

LEMMA ItemLands ==
  ASSUME TypeBuffers, NEW r \in Replicas, NEW n \in Names, Landed(r, {n})
  PROVE  written' \in Numbered
<1>1. {n} \in SUBSET Names
  OBVIOUS
<1> QED BY <1>1, LandedType

Stages == [Replicas -> FlushStates]
Items == [Replicas -> Names \cup {None}]
Windows == [Replicas -> SUBSET Names]
Tallies == [Replicas -> Nat]

LEMMA FlushTypes ==
  TypeFlush <=> pc \in Stages /\ cur \in Items /\ left \in Windows /\ failures \in Tallies
BY DEF TypeFlush, Stages, Items, Windows, Tallies

LEMMA SettledType ==
  ASSUME TypeFlush, NEW r \in Replicas, NEW n \in Names, Settled(r, n)
  PROVE  pc' \in Stages /\ cur' \in Items /\ left' \in Windows
BY DEF TypeFlush, Settled, FlushStates, Stages, Items, Windows

LEMMA GoesType ==
  ASSUME TypeFlush, NEW r \in Replicas, NEW to \in FlushStates, pc' = [pc EXCEPT ![r] = to]
  PROVE  pc' \in Stages
BY DEF TypeFlush, Stages

LEMMA AtType ==
  ASSUME TypeFlush, NEW r \in Replicas, NEW n \in Names, cur' = [cur EXCEPT ![r] = n]
  PROVE  cur' \in Items
BY DEF TypeFlush, Items

LEMMA FailType ==
  ASSUME TypeFlush, NEW r \in Replicas, Fail(r) PROVE failures' \in Tallies
BY DEF TypeFlush, Fail, Tallies

LEMMA ReplicaStep == ASSUME TypeOK, [Next]_vars PROVE TypeBuffers' /\ TypeFlush'
<1>0. TypeBuffers /\ TypeFlush
  BY Parts
<1>a. /\ newest \in Numbered /\ pending \in Numbered /\ taken \in Numbered
      /\ written \in Numbered /\ dropped \in Numbered
      /\ pc \in Stages /\ cur \in Items /\ left \in Windows /\ failures \in Tallies
  BY <1>0, FlushTypes DEF TypeBuffers
<1>b. /\ newest' \in Numbered /\ pending' \in Numbered /\ taken' \in Numbered
      /\ written' \in Numbered /\ dropped' \in Numbered
      /\ pc' \in Stages /\ cur' \in Items /\ left' \in Windows /\ failures' \in Tallies
      => TypeBuffers' /\ TypeFlush'
  BY DEF TypeBuffers, TypeFlush, Stages, Items, Windows, Tallies
<1>1. CASE UNCHANGED <<buffers, flushing, outcome>>
  BY <1>a, <1>b, <1>1 DEF buffers, flushing, outcome
<1>2. ASSUME NEW r \in Replicas, NEW n \in Names, Add(r, n) PROVE TypeBuffers' /\ TypeFlush'
  BY <1>2, AddType
<1>3. ASSUME NEW r \in Replicas, FlushStep(r) PROVE TypeBuffers' /\ TypeFlush'
  <2> USE DEF buffers, outcome
  <2>0. left[r] \in SUBSET Names
    BY <1>0 DEF TypeFlush
  <2>a. \A to \in {"select", "bulk", "each", "create", "again", "lost"} :
           pc' = [pc EXCEPT ![r] = to] => pc' \in Stages
    BY <1>0, GoesType DEF FlushStates
  <2>1. CASE TakePending(r)
    <3>1. pending' \in Numbered /\ taken' \in Numbered /\ left' \in Windows
      BY <1>0, <2>1 DEF TakePending, TypeBuffers, TypeFlush, Held, Nothing, Numbered, Windows
    <3> QED BY <1>a, <1>b, <2>a, <2>1, <3>1 DEF TakePending
  <2>2. CASE BulkUpsert(r)
    <3>1. left' \in Windows /\ written' \in Numbered
      BY <1>0, <2>0, <2>2, LandedType DEF BulkUpsert, TypeFlush, Windows
    <3> QED BY <1>a, <1>b, <2>2, <3>1 DEF BulkUpsert
  <2>3. CASE BulkFails(r)
    <3>1. written' \in Numbered /\ failures' \in Tallies
      BY <1>0, <1>a, <2>0, <2>3, LandedType, FailType, Zenon DEF BulkFails
    <3> QED BY <1>a, <1>b, <2>a, <2>3, <3>1 DEF BulkFails
  <2>4. CASE FlushReturns(r)
    <3>1. taken' \in Numbered
      BY <1>0, <2>4 DEF FlushReturns, TypeBuffers, Nothing, Numbered
    <3> QED BY <1>a, <1>b, <2>a, <2>4, <3>1 DEF FlushReturns
  <2>5. ASSUME NEW n \in Names, UpdateCommand(r, n) PROVE TypeBuffers' /\ TypeFlush'
    <3>1. /\ pc' \in Stages /\ cur' \in Items /\ left' \in Windows /\ written' \in Numbered
      BY <1>0, <1>a, <2>a, <2>5, ItemLands, SettledType, AtType, Zenon DEF UpdateCommand
    <3> QED BY <1>a, <1>b, <2>5, <3>1 DEF UpdateCommand
  <2>6. ASSUME NEW n \in Names, CreateCommand(r, n) PROVE TypeBuffers' /\ TypeFlush'
    <3>1. /\ pc' \in Stages /\ cur' \in Items /\ left' \in Windows /\ written' \in Numbered
      BY <1>0, <1>a, <2>a, <2>6, ItemLands, SettledType, Zenon DEF CreateCommand
    <3> QED BY <1>a, <1>b, <2>6, <3>1 DEF CreateCommand
  <2>7. ASSUME NEW n \in Names, UpdateAgain(r, n) PROVE TypeBuffers' /\ TypeFlush'
    <3>1. /\ pc' \in Stages /\ cur' \in Items /\ left' \in Windows /\ written' \in Numbered
      BY <1>0, <2>7, ItemLands, SettledType, Zenon DEF UpdateAgain
    <3> QED BY <1>a, <1>b, <2>7, <3>1 DEF UpdateAgain
  <2>8. ASSUME NEW n \in Names, AnswerLost(r, n) PROVE TypeBuffers' /\ TypeFlush'
    <3>1. /\ pc' \in Stages /\ cur' \in Items /\ written' \in Numbered /\ failures' \in Tallies
      BY <1>0, <2>a, <2>8, ItemLands, AtType, FailType, Zenon DEF AnswerLost
    <3> QED BY <1>a, <1>b, <2>8, <3>1 DEF AnswerLost
  <2>9. ASSUME NEW n \in Names, Requeue(r, n) PROVE TypeBuffers' /\ TypeFlush'
    <3>1. pending' \in Numbered
      BY <1>0, <2>9 DEF Requeue, Requeued, TypeBuffers, Numbered
    <3>2. pc' \in Stages /\ cur' \in Items /\ left' \in Windows /\ failures' \in Tallies
      BY <1>0, <2>9, SettledType, FailType, Zenon DEF Requeue
    <3> QED BY <1>a, <1>b, <2>9, <3>1, <3>2 DEF Requeue
  <2>10. ASSUME NEW n \in Names, DropEdit(r, n) PROVE TypeBuffers' /\ TypeFlush'
    <3>1. dropped' \in Numbered
      BY <1>0, <2>10 DEF DropEdit, TypeBuffers, Numbered
    <3>2. pc' \in Stages /\ cur' \in Items /\ left' \in Windows /\ failures' \in Tallies
      BY <1>0, <2>10, SettledType, FailType, Zenon DEF DropEdit
    <3> QED BY <1>a, <1>b, <2>10, <3>1, <3>2 DEF DropEdit
  <2> QED BY <1>3, <2>1, <2>2, <2>3, <2>4, <2>5, <2>6, <2>7, <2>8, <2>9, <2>10, Zenon DEF FlushStep
<1> QED BY <1>1, <1>2, <1>3, RequestMoves

LEMMA TypeStep == TypeOK /\ [Next]_vars => TypeOK'
BY Parts, TableStep, ClockStep, ReplicaStep
  DEF TypeOK, TypeTable, TypeClock, TypeBuffers, TypeFlush, Numbered

\* The table, the buffers and the flushes keep their types; in particular no
\* total of uses leaves its column (RecordUse, upsertEach).
THEOREM TypeCorrect == Spec => []TypeOK
BY TypeInit, TypeStep, PTL DEF Spec

-----------------------------------------------------------------------------
(* Receipts                                                                 *)

\* The row m becomes shows what some row has received, or nothing.
Inherits(m) == \/ m = None \/ (m.credited = {} /\ m.uses = m.base)
               \/ \E n \in Names : /\ rows[n] # None /\ m.credited = rows[n].credited
                                   /\ m.uses = rows[n].uses /\ m.base = rows[n].base

LEMMA NewInherits ==
  ASSUME NEW e, NEW u, NEW o PROVE Inherits(NewRow(e, u, o))
BY DEF Inherits, NewRow

LEMMA OldInherits ==
  ASSUME TypeTable, NEW n \in Names
  PROVE  /\ Inherits(rows[n])
         /\ rows[n] # None => /\ \A e : Inherits(ApplyEdit(rows[n], e))
                             /\ Inherits([rows[n] EXCEPT !.old = TRUE])
<1>1. rows[n] # None => rows[n] \in Row
  BY DEF TypeTable
<1> DEFINE Same(m) == /\ m.credited = rows[n].credited /\ m.uses = rows[n].uses
                      /\ m.base = rows[n].base
<1>2. rows[n] # None => /\ \A e : Same(ApplyEdit(rows[n], e))
                        /\ Same([rows[n] EXCEPT !.old = TRUE])
  BY <1>1 DEF ApplyEdit, Row
<1> QED BY <1>2, Zenon DEF Inherits

LEMMA RowsInherit ==
  ASSUME TypeOK, [Next]_vars, ~\E b \in Batches : RecordUse(b), NEW n \in Names
  PROVE  Inherits(rows'[n])
<1>0. TypeTable
  BY Parts
<1> USE DEF TypeTable
<1>1. CASE UNCHANGED table
  BY <1>0, <1>1, OldInherits DEF table
<1>2. ASSUME NEW m \in Names, Delete(m) PROVE Inherits(rows'[n])
  <2>1. rows'[n] = IF n = m THEN None ELSE rows[n]
    BY <1>0, <1>2 DEF Delete
  <2> QED BY <1>0, <2>1, OldInherits, Zenon DEF Inherits
<1>3. ASSUME NEW m \in Names, NEW r \in Replicas, Restore(r, m), rows[m] = None
      PROVE  Inherits(rows'[n])
  <2>1. PICK o \in CreatedAt : rows' = [rows EXCEPT ![m] = NewRow(clock', RestoreUses, o)]
    BY <1>3, Zenon DEF Restore
  <2>2. rows'[n] = IF n = m THEN NewRow(clock', RestoreUses, o) ELSE rows[n]
    BY <1>0, <2>1
  <2>3. Inherits(NewRow(clock', RestoreUses, o))
    BY NewInherits, Zenon
  <2>4. Inherits(rows[n])
    BY <1>0, OldInherits, Zenon
  <2> QED BY <2>2, <2>3, <2>4
<1>4. ASSUME NEW m \in Names, NEW r \in Replicas, NEW o \in Names, Rename(r, o, m), rows[o] # None
      PROVE  Inherits(rows'[n])
  <2>1. rows' = [rows EXCEPT ![o] = None, ![m] = ApplyEdit(rows[o], clock')]
    BY <1>4 DEF Rename
  <2>2. rows'[n] = IF n = m THEN ApplyEdit(rows[o], clock') ELSE IF n = o THEN None ELSE rows[n]
    BY <1>0, <2>1
  <2>3. Inherits(ApplyEdit(rows[o], clock'))
    <3>1. \A e : Inherits(ApplyEdit(rows[o], e))
      BY <1>0, <1>4, OldInherits, Zenon
    <3> QED BY <3>1, Zenon
  <2>4. Inherits(rows[n])
    BY <1>0, OldInherits, Zenon
  <2>5. Inherits(None)
    BY Zenon DEF Inherits
  <2> QED BY <2>2, <2>3, <2>4, <2>5
<1>5. CASE AccountDeleted
  <2>1. rows'[n] = IF rows[n] = None THEN None ELSE [rows[n] EXCEPT !.old = TRUE]
    BY <1>5 DEF AccountDeleted
  <2> QED BY <1>0, <2>1, OldInherits, Zenon
<1>6. CASE DeleteAllForUser
  <2>1. rows'[n] \in {None, rows[n]}
    BY <1>6 DEF DeleteAllForUser
  <2> QED BY <1>0, <2>1, OldInherits, Zenon DEF Inherits
<1>7. ASSUME NEW r \in Replicas, NEW S \in SUBSET Names, NEW o \in BOOLEAN,
             rows' = Upserted(S, taken[r], o)
      PROVE  Inherits(rows'[n])
  <2>1. rows'[n] = IF n \notin S THEN rows[n]
                   ELSE IF rows[n] = None THEN NewRow(taken[r][n], 0, o)
                   ELSE ApplyEdit(rows[n], taken[r][n])
    BY <1>7 DEF Upserted
  <2>2. Inherits(rows[n]) /\ Inherits(NewRow(taken[r][n], 0, o))
    BY <1>0, OldInherits, NewInherits
  <2>3. rows[n] # None => Inherits(ApplyEdit(rows[n], taken[r][n]))
    BY <1>0, OldInherits
  <2> QED BY <2>1, <2>2, <2>3
<1> QED BY <1>1, <1>2, <1>3, <1>4, <1>5, <1>6, <1>7, TableMoves

\* RecordUse adds the batch it records, which has had no receipt, and no other.
LEMMA CreditStep ==
  ASSUME TypeOK, [Next]_vars, NEW n \in Names, NEW b \in receipts, rows'[n] # None,
         b \in rows'[n].credited
  PROVE  \E m \in Names : rows[m] # None /\ b \in rows[m].credited
<1>1. CASE ~\E c \in Batches : RecordUse(c)
  <2>1. Inherits(rows'[n])
    BY <1>1, RowsInherit
  <2> QED BY <2>1, Zenon DEF Inherits
<1>2. ASSUME NEW c \in Batches, RecordUse(c)
      PROVE  \E m \in Names : rows[m] # None /\ b \in rows[m].credited
  <2>1. b # c
    BY <1>2 DEF RecordUse, ReceiptExists
  <2>2. rows[n] # None /\ rows'[n].credited \subseteq rows[n].credited \cup {c}
    <3>1. CASE rows' = rows
      BY <3>1
    <3>2. CASE rows' # rows
      <4> DEFINE t == Target[c]
      <4>1. t \in Names /\ rows[t] # None /\ rows[t] \in Row /\ rows \in [Names -> Row \cup {None}]
        BY <1>2, <3>2, UsesAssumption DEF RecordUse, TypeOK
      <4>2. rows' = [rows EXCEPT ![t].uses = @ + Count[c], ![t].credited = @ \cup {c}]
        BY <1>2, <3>2 DEF RecordUse
      <4>3. n # t => rows'[n] = rows[n]
        BY <4>1, <4>2
      <4>4. rows'[t].credited = rows[t].credited \cup {c}
        BY <4>1, <4>2 DEF Row
      <4> QED BY <4>1, <4>3, <4>4
    <3> QED BY <3>1, <3>2
  <2> QED BY <2>1, <2>2
<1> QED BY <1>1, <1>2

\* A redelivered batch is credited to no row, whatever was deleted, renamed or
\* recreated since it had its receipt (RecordUse).
THEOREM NeverCreditedTwice == Spec => ReplayCreditsNothing
<1>1. TypeOK /\ [Next]_vars =>
        [\A n \in Names, b \in receipts :
            rows'[n] # None /\ b \in rows'[n].credited =>
              \E m \in Names : rows[m] # None /\ b \in rows[m].credited]_vars
  BY CreditStep, Zenon
<1> QED BY <1>1, TypeCorrect, PTL DEF Spec, ReplayCreditsNothing

-----------------------------------------------------------------------------
(* The sum of a finite set of batches                                       *)

\* The element the fold takes first, and the equation it is defined by.
Chosen(s) == CHOOSE x \in s : TRUE
SumEquation(S, f) ==
    f = [s \in SUBSET S |-> IF s = {} THEN 0 ELSE Count[Chosen(s)] + f[s \ {Chosen(s)}]]

\* A sum that does not depend on the order of its elements.
Additive(S, g) == /\ g \in [SUBSET S -> Nat] /\ g[{}] = 0
                  /\ \A s \in SUBSET S : \A x \in s : g[s] = Count[x] + g[s \ {x}]

LEMMA SumUnfolds == ASSUME NEW S PROVE SumOver(S) = (CHOOSE f : SumEquation(S, f))[S]
BY Zenon DEF SumOver, MapThenSumSet, MapThenFoldSet, SumEquation, Chosen

LEMMA ChosenIsIn == ASSUME NEW s, s # {} PROVE Chosen(s) \in s
BY DEF Chosen

\* A set of subsets of a finite set has a least one: the induction used below.
LEMMA LeastSubset ==
  ASSUME NEW S, IsFiniteSet(S), NEW B \in SUBSET (SUBSET S), B # {}
  PROVE  \E t \in B : \A u \in SUBSET t : u # t => u \notin B
<1>1. IsWellFoundedOn(StrictSubsetOrdering(S), SUBSET S)
  BY FS_StrictSubsetOrderingWellFounded, FS_FiniteSubsetsOfFinite
<1>2. PICK t \in B : \A u \in B : ~(<<u, t>> \in StrictSubsetOrdering(S))
  BY <1>1, WFMin
<1>3. \A u \in SUBSET t : u # t => u \notin B
  BY <1>2 DEF StrictSubsetOrdering
<1> QED BY <1>3

LEMMA AdditiveGrows ==
  ASSUME NEW T \in SUBSET Batches, NEW x \in T, NEW h, Additive(T \ {x}, h)
  PROVE  \E g : Additive(T, g)
<1> DEFINE g == [s \in SUBSET T |-> IF x \in s THEN Count[x] + h[s \ {x}] ELSE h[s]]
<1>0. \A y \in T : Count[y] \in Nat
  BY UsesAssumption
<1>1. \A s \in SUBSET T : s \ {x} \in SUBSET (T \ {x}) /\ (x \notin s => s \in SUBSET (T \ {x}))
  OBVIOUS
<1>2. /\ h \in [SUBSET (T \ {x}) -> Nat] /\ h[{}] = 0
      /\ \A s \in SUBSET (T \ {x}) : \A y \in s : h[s] = Count[y] + h[s \ {y}]
  BY DEF Additive
<1>3. g \in [SUBSET T -> Nat]
  BY <1>0, <1>1, <1>2
<1>4. g[{}] = 0
  BY <1>2
<1>5. ASSUME NEW s \in SUBSET T, NEW y \in s PROVE g[s] = Count[y] + g[s \ {y}]
  <2>0. y \in T /\ s \ {y} \in SUBSET T /\ Count[x] \in Nat /\ Count[y] \in Nat
    BY <1>0
  <2>1. CASE x \in s /\ y = x
    <3>1. g[s] = Count[x] + h[s \ {x}] /\ g[s \ {x}] = h[s \ {x}]
      BY <2>0, <2>1
    <3> QED BY <2>1, <3>1
  <2>2. CASE x \in s /\ y # x
    <3> DEFINE a == s \ {x}
    <3>1. a \in SUBSET (T \ {x}) /\ y \in a /\ a \ {y} = (s \ {y}) \ {x} /\ a \ {y} \in SUBSET (T \ {x})
      BY <2>2
    <3>2. h[a] = Count[y] + h[a \ {y}] /\ h[a \ {y}] \in Nat
      BY <1>2, <3>1
    <3>3. g[s] = Count[x] + h[a]
      BY <2>2
    <3>4. g[s \ {y}] = Count[x] + h[a \ {y}]
      BY <2>0, <2>2, <3>1
    <3> HIDE DEF a, g
    <3> QED BY <2>0, <3>2, <3>3, <3>4
  <2>3. CASE x \notin s
    <3>1. s \in SUBSET (T \ {x})
      BY <2>3
    <3>2. h[s] = Count[y] + h[s \ {y}]
      BY <1>2, <3>1
    <3>3. g[s] = h[s] /\ g[s \ {y}] = h[s \ {y}]
      BY <2>0, <2>3
    <3> QED BY <3>2, <3>3
  <2> QED BY <2>1, <2>2, <2>3
<1> HIDE DEF g
<1> QED BY <1>3, <1>4, <1>5 DEF Additive

LEMMA AdditiveExists ==
  ASSUME NEW S \in SUBSET Batches, IsFiniteSet(S) PROVE \E g : Additive(S, g)
<1> DEFINE B == {T \in SUBSET S : ~\E g : Additive(T, g)}
<1>1. CASE B = {}
  BY <1>1
<1>2. CASE B # {}
  <2>0. B \in SUBSET (SUBSET S)
    OBVIOUS
  <2>1. PICK t \in B : \A u \in SUBSET t : u # t => u \notin B
    <3> HIDE DEF B
    <3> QED BY <1>2, <2>0, LeastSubset
  <2>2. CASE t = {}
    <3> DEFINE g == [s \in SUBSET {} |-> 0]
    <3>1. Additive({}, g)
      BY DEF Additive
    <3> QED BY <2>1, <2>2, <3>1
  <2>3. CASE t # {}
    <3>1. PICK x : x \in t
      BY <2>3
    <3>2. t \ {x} \in SUBSET t /\ t \ {x} # t /\ t \ {x} \in SUBSET S /\ t \in SUBSET Batches
      BY <3>1
    <3>3. \E h : Additive(t \ {x}, h)
      BY <2>1, <3>2
    <3> QED BY <2>1, <3>1, <3>2, <3>3, AdditiveGrows
  <2> QED BY <2>2, <2>3
<1> QED BY <1>1, <1>2

LEMMA AdditiveIsSum ==
  ASSUME NEW S \in SUBSET Batches, IsFiniteSet(S), NEW g, Additive(S, g)
  PROVE  SumOver(S) = g[S]
<1>1. SumEquation(S, g)
  <2>1. \A s \in SUBSET S : s # {} => g[s] = Count[Chosen(s)] + g[s \ {Chosen(s)}]
    BY ChosenIsIn DEF Additive
  <2>2. \A s \in SUBSET S :
           g[s] = IF s = {} THEN 0 ELSE Count[Chosen(s)] + g[s \ {Chosen(s)}]
    BY <2>1 DEF Additive
  <2>3. g = [s \in SUBSET S |-> g[s]]
    BY DEF Additive
  <2> QED BY <2>2, <2>3 DEF SumEquation
<1> DEFINE f == CHOOSE f : SumEquation(S, f)
<1>2. SumEquation(S, f)
  BY <1>1, Zenon
<1> HIDE DEF f
<1> DEFINE B == {s \in SUBSET S : f[s] # g[s]}
<1>3. CASE B # {}
  <2>0. B \in SUBSET (SUBSET S)
    OBVIOUS
  <2>1. PICK s \in B : \A u \in SUBSET s : u # s => u \notin B
    <3> HIDE DEF B
    <3> QED BY <1>3, <2>0, LeastSubset
  <2>2. \A r \in SUBSET S : f[r] = IF r = {} THEN 0 ELSE Count[Chosen(r)] + f[r \ {Chosen(r)}]
    <3>1. ASSUME NEW r \in SUBSET S
          PROVE  [s1 \in SUBSET S |-> IF s1 = {} THEN 0 ELSE Count[Chosen(s1)] + f[s1 \ {Chosen(s1)}]][r]
                 = IF r = {} THEN 0 ELSE Count[Chosen(r)] + f[r \ {Chosen(r)}]
      BY Zenon
    <3> QED BY <1>2, <3>1, Zenon DEF SumEquation
  <2>3. \A r \in SUBSET S : g[r] = IF r = {} THEN 0 ELSE Count[Chosen(r)] + g[r \ {Chosen(r)}]
    BY ChosenIsIn DEF Additive
  <2>4. s # {}
    BY <2>1, <2>2, <2>3
  <2> DEFINE u == s \ {Chosen(s)}
  <2>5. u \in SUBSET s /\ u # s /\ u \in SUBSET S
    BY <2>1, <2>4, ChosenIsIn
  <2>6. f[u] = g[u]
    BY <2>1, <2>5
  <2> QED BY <2>1, <2>2, <2>3, <2>4, <2>6
<1>4. CASE B = {}
  <2>1. f[S] = g[S]
    BY <1>4
  <2> QED BY <2>1, SumUnfolds DEF f
<1> QED BY <1>3, <1>4

LEMMA SumOfNothing == SumOver({}) = 0
<1> DEFINE g == [s \in SUBSET {} |-> 0]
<1>1. Additive({}, g) /\ g[{}] = 0
  BY DEF Additive
<1> HIDE DEF g
<1> QED BY <1>1, AdditiveIsSum, FS_EmptySet

\* One more batch adds its count.
LEMMA SumOfOneMore ==
  ASSUME NEW S \in SUBSET Batches, IsFiniteSet(S), NEW b \in Batches, b \notin S
  PROVE  SumOver(S \cup {b}) = SumOver(S) + Count[b] /\ SumOver(S) \in Nat
<1> DEFINE T == S \cup {b}
<1>0. T \in SUBSET Batches /\ IsFiniteSet(T) /\ T \ {b} = S /\ b \in T
  BY FS_AddElement
<1> HIDE DEF T
<1>1. PICK g : Additive(T, g)
  BY <1>0, AdditiveExists
<1> DEFINE h == [s \in SUBSET S |-> g[s]]
<1>2. Additive(S, h)
  <2>1. S \in SUBSET T
    BY <1>0
  <2>2. \A s \in SUBSET S : s \in SUBSET T /\ h[s] = g[s] /\ \A x \in s : s \ {x} \in SUBSET S
    BY <2>1
  <2>3. h \in [SUBSET S -> Nat]
    BY <1>1, <2>2 DEF Additive
  <2> HIDE DEF h
  <2> QED BY <1>1, <2>2, <2>3 DEF Additive
<1>3. SumOver(S) = g[S]
  <2>1. SumOver(S) = h[S]
    BY <1>2, AdditiveIsSum
  <2> QED BY <2>1
<1>4. SumOver(T) = g[T] /\ g[T] = Count[b] + g[T \ {b}] /\ g[S] \in Nat
  BY <1>0, <1>1, AdditiveIsSum DEF Additive
<1>5. Count[b] \in Nat
  BY UsesAssumption
<1>6. SumOver(T) = SumOver(S) + Count[b]
  <2> DEFINE m == g[S]
             k == Count[b]
  <2>1. SumOver(T) = k + m /\ SumOver(S) = m /\ m \in Nat /\ k \in Nat
    BY <1>0, <1>3, <1>4, <1>5
  <2> HIDE DEF m, k
  <2>2. SumOver(T) = m + k
    BY <2>1
  <2> QED BY <2>1, <2>2, Zenon DEF k
<1>7. SumOver(S) \in Nat
  BY <1>3, <1>4
<1> QED BY <1>6, <1>7, Zenon DEF T

-----------------------------------------------------------------------------
(* Totals                                                                   *)

\* A total is exact, over finitely many batches that all have their receipts.
ExactRow(m, done) == /\ m.uses = m.base + SumOver(m.credited)
                     /\ IsFiniteSet(m.credited) /\ m.credited \subseteq done

TotalsInv == TypeOK /\ \A n \in Names : rows[n] # None => ExactRow(rows[n], receipts)

LEMMA ReceiptsGrow == ASSUME TypeOK, [Next]_vars PROVE receipts \subseteq receipts'
<1>1. UNCHANGED table => receipts' = receipts
  BY DEF table
<1>2. \A n \in Names, r \in Replicas : Restore(r, n) /\ rows[n] = None => receipts' = receipts
  BY Zenon DEF Restore
<1>3. \A n, o \in Names, r \in Replicas : Rename(r, o, n) /\ rows[o] # None => receipts' = receipts
  BY Zenon DEF Rename
<1>4. \/ AccountDeleted \/ DeleteAllForUser \/ (\E n \in Names : Delete(n)) => receipts' = receipts
  BY Zenon DEF AccountDeleted, DeleteAllForUser, Delete
<1>5. \A b \in Batches : RecordUse(b) => receipts' = receipts \cup {b}
  BY Zenon DEF RecordUse
<1>6. receipts' = receipts \/ \E b \in Batches : receipts' = receipts \cup {b}
  BY <1>1, <1>2, <1>3, <1>4, <1>5, TableMoves, Zenon
<1> QED BY <1>6

LEMMA TotalsStep == TotalsInv /\ [Next]_vars => TotalsInv'
<1> SUFFICES ASSUME TotalsInv, [Next]_vars PROVE TotalsInv'
  OBVIOUS
<1>0. TypeOK /\ TypeOK' /\ receipts \subseteq receipts'
  BY TypeStep, ReceiptsGrow DEF TotalsInv
<1> SUFFICES ASSUME NEW n \in Names, rows'[n] # None PROVE ExactRow(rows'[n], receipts')
  BY <1>0 DEF TotalsInv
<1>1. CASE ~\E c \in Batches : RecordUse(c)
  <2>1. Inherits(rows'[n]) /\ rows'[n] \in Row
    BY <1>0, <1>1, RowsInherit DEF TypeOK
  <2>2. CASE rows'[n].credited = {} /\ rows'[n].uses = rows'[n].base
    <3>1. rows'[n].uses \in Nat
      BY <2>1, UsesAssumption DEF Row
    <3> QED BY <2>2, <3>1, SumOfNothing, FS_EmptySet DEF ExactRow
  <2>3. ASSUME NEW m \in Names, rows[m] # None, rows'[n].credited = rows[m].credited,
               rows'[n].uses = rows[m].uses, rows'[n].base = rows[m].base
        PROVE  ExactRow(rows'[n], receipts')
    BY <1>0, <2>3 DEF TotalsInv, ExactRow
  <2> QED BY <2>1, <2>2, <2>3, Zenon DEF Inherits
<1>2. ASSUME NEW c \in Batches, RecordUse(c) PROVE ExactRow(rows'[n], receipts')
  <2>0. c \notin receipts /\ receipts' = receipts \cup {c}
    BY <1>2 DEF RecordUse, ReceiptExists
  <2>1. CASE rows' = rows
    BY <1>0, <2>1 DEF TotalsInv, ExactRow
  <2>2. CASE rows' # rows
    <3> DEFINE t == Target[c]
    <3>1. t \in Names /\ rows[t] # None /\ rows[t] \in Row /\ rows \in [Names -> Row \cup {None}]
      BY <1>0, <1>2, <2>2, UsesAssumption DEF RecordUse, TypeOK
    <3>2. rows' = [rows EXCEPT ![t].uses = @ + Count[c], ![t].credited = @ \cup {c}]
      BY <1>2, <2>2 DEF RecordUse
    <3>3. CASE n # t
      <4>1. rows'[n] = rows[n]
        BY <3>1, <3>2, <3>3
      <4> QED BY <1>0, <4>1 DEF TotalsInv, ExactRow
    <3>4. CASE n = t
      <4>1. /\ rows'[n].credited = rows[n].credited \cup {c}
            /\ rows'[n].uses = rows[n].uses + Count[c] /\ rows'[n].base = rows[n].base
        BY <3>1, <3>2, <3>4 DEF Row
      <4>2. rows[n] \in Row /\ ExactRow(rows[n], receipts)
        BY <3>1, <3>4 DEF TotalsInv
      <4> DEFINE S == rows[n].credited
                 total == SumOver(S)
                 u == rows[n].uses
                 b == rows[n].base
      <4>3. /\ S \in SUBSET Batches /\ IsFiniteSet(S) /\ c \notin S /\ S \subseteq receipts
            /\ b \in Nat /\ Count[c] \in Nat
        BY <2>0, <4>2, UsesAssumption DEF ExactRow, Row
      <4>4. u = b + total
        BY <4>2 DEF ExactRow
      <4>5. /\ rows'[n].credited = S \cup {c} /\ rows'[n].uses = u + Count[c] /\ rows'[n].base = b
        BY <4>1
      <4> HIDE DEF S, u, b
      <4>6. SumOver(S \cup {c}) = total + Count[c] /\ total \in Nat
        BY <4>3, SumOfOneMore
      <4>7. IsFiniteSet(S \cup {c}) /\ S \cup {c} \subseteq receipts'
        BY <2>0, <4>3, FS_AddElement
      <4>8. u + Count[c] = b + SumOver(S \cup {c})
        <5> HIDE DEF total
        <5> QED BY <4>3, <4>4, <4>6
      <4> QED BY <4>5, <4>7, <4>8, Zenon DEF ExactRow
    <3> QED BY <3>3, <3>4
  <2> QED BY <2>1, <2>2
<1> QED BY <1>1, <1>2

\* A row's total is what it was created with plus each batch it received, once
\* (RecordUse): no redelivery counts twice, no edit, rename or conflicting insert
\* resets it.
THEOREM TotalsExact == Spec => []UsesExact
<1>1. Init => TotalsInv
  BY TypeInit DEF Init, TotalsInv
<1>2. TotalsInv => UsesExact
  BY Zenon DEF TotalsInv, ExactRow, UsesExact
<1> QED BY <1>1, <1>2, TotalsStep, PTL DEF Spec

-----------------------------------------------------------------------------
(* Each buffer is a Batcher                                                 *)

\* A statement of upsertEach is about an item that is not settled.
ItemOpen == \A r \in Replicas : pc[r] \in {"create", "again", "lost"} => cur[r] \in left[r]

\* Edits have their numbers from the clock.
Dated == \A r \in Replicas, n \in Names : newest[r][n] <= clock

LEMMA DatedStep == ASSUME TypeOK, Dated, [Next]_vars PROVE Dated'
<1>0. clock \in Nat /\ newest \in [Replicas -> [Names -> Nat]]
  BY DEF TypeOK
<1>1. clock' \in {clock, clock + 1}
  BY FlushKeepsClock, Zenon DEF Next, vars, Request, Upsert, Add, Restore, Delete, Rename,
     AccountDeleted, DeleteAllForUser, RecordUse, Tick
<1>2. ASSUME NEW r \in Replicas, NEW n \in Names, Add(r, n) PROVE Dated'
  BY <1>0, <1>2 DEF Add, Tick, Dated
<1>3. CASE UNCHANGED newest
  BY <1>0, <1>1, <1>3 DEF Dated
<1> QED BY <1>2, <1>3, RequestMoves, FlushKeepsClock DEF buffers

LEMMA ItemStep == ASSUME TypeOK, ItemOpen, [Next]_vars PROVE ItemOpen'
<1>0. TypeFlush
  BY Parts
<1>1. ASSUME NEW r \in Replicas, NEW n \in Names, Add(r, n) PROVE ItemOpen'
  BY <1>1 DEF Add, ItemOpen, flushing
<1>2. CASE UNCHANGED <<buffers, flushing, outcome>>
  BY <1>2 DEF ItemOpen, flushing
<1>3. ASSUME NEW r \in Replicas, FlushStep(r) PROVE ItemOpen'
  <2> USE DEF TypeFlush, ItemOpen
  <2>1. CASE TakePending(r)
    BY <1>0, <2>1 DEF TakePending
  <2>2. CASE BulkUpsert(r)
    BY <1>0, <2>2 DEF BulkUpsert
  <2>3. CASE BulkFails(r)
    BY <1>0, <2>3 DEF BulkFails
  <2>4. CASE FlushReturns(r)
    BY <1>0, <2>4 DEF FlushReturns
  <2>5. ASSUME NEW n \in Names, Settled(r, n) PROVE ItemOpen'
    BY <1>0, <2>5 DEF Settled
  <2>6. ASSUME NEW n \in Names, AtItem(r, n) PROVE n \in left[r]
    BY <2>6 DEF AtItem
  <2>7. ASSUME NEW n \in Names, UpdateCommand(r, n) PROVE ItemOpen'
    <3>1. CASE Settled(r, n)
      BY <2>5, <3>1
    <3>2. CASE pc' = [pc EXCEPT ![r] = "create"] /\ cur' = [cur EXCEPT ![r] = n] /\ UNCHANGED left
      BY <1>0, <2>7, <3>2 DEF UpdateCommand
    <3> QED BY <2>7, <3>1, <3>2 DEF UpdateCommand
  <2>8. ASSUME NEW n \in Names, CreateCommand(r, n) PROVE ItemOpen'
    <3>1. CASE Settled(r, n)
      BY <2>5, <3>1
    <3>2. CASE pc' = [pc EXCEPT ![r] = "again"] /\ UNCHANGED <<cur, left>>
      BY <1>0, <2>8, <3>2 DEF CreateCommand
    <3> QED BY <2>8, <3>1, <3>2 DEF CreateCommand
  <2>9. ASSUME NEW n \in Names, UpdateAgain(r, n) \/ Requeue(r, n) \/ DropEdit(r, n) PROVE ItemOpen'
    BY <2>5, <2>9 DEF UpdateAgain, Requeue, DropEdit
  <2>10. ASSUME NEW n \in Names, AnswerLost(r, n) PROVE ItemOpen'
    BY <1>0, <2>6, <2>10 DEF AnswerLost
  <2> QED BY <1>3, <2>1, <2>2, <2>3, <2>4, <2>7, <2>8, <2>9, <2>10, Zenon DEF FlushStep
<1> QED BY <1>1, <1>2, <1>3, RequestMoves

BufferInv == TypeOK /\ ItemOpen /\ Dated

LEMMA BufferAlways == Spec => []BufferInv
<1>1. Init => BufferInv
  BY TypeInit DEF Init, BufferInv, ItemOpen, Dated, Nothing
<1>2. BufferInv /\ [Next]_vars => BufferInv'
  BY TypeStep, DatedStep, ItemStep DEF BufferInv
<1> QED BY <1>1, <1>2, PTL DEF Spec

-----------------------------------------------------------------------------
(* The refinement.  A step of another replica, or of the table alone, does   *)
(* not show in the buffer of q.                                              *)

\* What q's buffer is made of.
Own(q) == <<newest[q], pending[q], pc[q] = "select", taken[q], left[q], written[q],
            dropped[q], failures[q]>>

LEMMA BufferStutter == ASSUME NEW q \in Replicas, UNCHANGED Own(q) PROVE UNCHANGED Buffer(q)!vars
BY DEF Own, Buffer!vars

BufferNext(q) == [Buffer(q)!Next]_(Buffer(q)!vars)

LEMMA OthersStutter ==
  ASSUME TypeOK, NEW q \in Replicas, NEW r \in Replicas, r # q, FlushStep(r)
  PROVE  UNCHANGED Own(q)
<1>0. TypeBuffers /\ TypeFlush
  BY Parts
<1> USE DEF TypeBuffers, TypeFlush, Numbered, Own
<1>1. CASE TakePending(r)
  BY <1>0, <1>1 DEF TakePending, outcome
<1>2. CASE BulkUpsert(r)
  BY <1>0, <1>2 DEF BulkUpsert, Landed, buffers
<1>3. CASE BulkFails(r)
  BY <1>0, <1>3 DEF BulkFails, Landed, buffers, Fail
<1>4. CASE FlushReturns(r)
  BY <1>0, <1>4 DEF FlushReturns, buffers, outcome
<1>5. ASSUME NEW n \in Names, UpdateCommand(r, n) PROVE UNCHANGED Own(q)
  BY <1>0, <1>5 DEF UpdateCommand, Landed, Settled, buffers
<1>6. ASSUME NEW n \in Names, CreateCommand(r, n) PROVE UNCHANGED Own(q)
  BY <1>0, <1>6 DEF CreateCommand, Landed, Settled, buffers
<1>7. ASSUME NEW n \in Names, UpdateAgain(r, n) PROVE UNCHANGED Own(q)
  BY <1>0, <1>7 DEF UpdateAgain, Landed, Settled, buffers
<1>8. ASSUME NEW n \in Names, AnswerLost(r, n) PROVE UNCHANGED Own(q)
  BY <1>0, <1>8 DEF AnswerLost, Landed, Fail, buffers
<1>9. ASSUME NEW n \in Names, Requeue(r, n) PROVE UNCHANGED Own(q)
  BY <1>0, <1>9 DEF Requeue, Settled, Fail
<1>10. ASSUME NEW n \in Names, DropEdit(r, n) PROVE UNCHANGED Own(q)
  BY <1>0, <1>10 DEF DropEdit, Settled, Fail, buffers
<1> QED BY <1>1, <1>2, <1>3, <1>4, <1>5, <1>6, <1>7, <1>8, <1>9, <1>10, Zenon DEF FlushStep

\* The instance has a cardinality of its own.
LEMMA SameCardinality ==
  ASSUME NEW q, NEW S PROVE Buffer(q)!Cardinality(S) = Cardinality(S)
BY DEF Buffer!Cardinality, Cardinality

\* With fewer names than flushMaxSize no buffer fills up: the kick never comes.
FewNames == IsFiniteSet(Names) /\ Cardinality(Names) < 256

LEMMA AddMaps ==
  ASSUME BufferInv, FewNames, NEW q \in Replicas, NEW n \in Names, Add(q, n)
  PROVE  Buffer(q)!Next
<1>0. TypeBuffers /\ clock \in Nat /\ newest[q][n] <= clock /\ MaxClock \in Nat
  BY Parts, BoundAssumption DEF BufferInv, TypeClock, Dated
<1>1. clock' \in 1 .. MaxClock /\ newest[q][n] < clock'
  BY <1>0 DEF Add, Tick, TypeBuffers, Numbered
<1>2. newest'[q] = [newest[q] EXCEPT ![n] = clock'] /\ pending'[q] = [pending[q] EXCEPT ![n] = clock']
  BY <1>0 DEF Add, TypeBuffers, Numbered
<1>3. UNCHANGED <<pc[q], taken[q], left[q], written[q], dropped[q], failures[q]>>
  BY DEF Add, flushing, outcome
<1>4. ~(Buffer(q)!Cardinality(Buffer(q)!Held(pending'[q])) >= 256)
  <2>1. Buffer(q)!Held(pending'[q]) \in SUBSET Names
    BY DEF Buffer!Held
  <2>2. IsFiniteSet(Names) /\ Cardinality(Names) < 256
    BY DEF FewNames
  <2>3. /\ IsFiniteSet(Buffer(q)!Held(pending'[q]))
        /\ Cardinality(Buffer(q)!Held(pending'[q])) <= Cardinality(Names)
    BY <2>1, <2>2, FS_Subset
  <2>4. Cardinality(Names) \in Nat /\ Cardinality(Buffer(q)!Held(pending'[q])) \in Nat
    BY <2>2, <2>3, FS_CardinalityType
  <2>5. ~(Cardinality(Buffer(q)!Held(pending'[q])) >= 256)
    BY <2>2, <2>3, <2>4
  <2> QED BY <2>5, SameCardinality
<1>5. Buffer(q)!Add(n, clock')
  BY <1>1, <1>2, <1>3, <1>4 DEF Buffer!Add
<1> QED BY <1>1, <1>5 DEF Buffer!Next

\* The goroutine's side of a pair changes.
LEMMA PairUpdate ==
  ASSUME NEW a, NEW b, NEW c
  PROVE  [[run |-> a, close |-> c] EXCEPT !["run"] = b] = [run |-> b, close |-> c]
OBVIOUS

\* The window's statements: BulkUpsert, UpdateCommand, CreateCommand and
\* UpdateAgain settle the items S they land.
LEMMA LandsMaps ==
  ASSUME TypeOK, NEW q \in Replicas, NEW S \in SUBSET Names, S # {}, pc[q] # "select", pc'[q] # "select",
         Landed(q, S), left'[q] = left[q] \ S,
         UNCHANGED <<newest[q], pending[q], taken[q], dropped[q], failures[q]>>
  PROVE  Buffer(q)!FlushLands("run", S)
<1>1. written'[q] = [n \in Names |-> IF n \in S THEN taken[q][n] ELSE written[q][n]]
  BY DEF Landed, TypeOK
<1>2. left'[q] = left[q] \ S
  OBVIOUS
<1>3. [run |-> left'[q], close |-> {}] = [[run |-> left[q], close |-> {}] EXCEPT !["run"] = left[q] \ S]
  <2> DEFINE b == left[q] \ S
  <2> HIDE DEF b
  <2>1. [[run |-> left[q], close |-> {}] EXCEPT !["run"] = b] = [run |-> b, close |-> {}]
    BY PairUpdate
  <2> QED BY <1>2, <2>1 DEF b
<1> QED BY <1>1, <1>2, <1>3 DEF Buffer!FlushLands

LEMMA UnsureMaps ==
  ASSUME TypeOK, NEW q \in Replicas, NEW S \in SUBSET Names, S # {}, pc[q] # "select", pc'[q] # "select",
         Landed(q, S), Fail(q),
         UNCHANGED <<newest[q], pending[q], taken[q], left[q], dropped[q]>>
  PROVE  Buffer(q)!FlushUnsure("run", S)
<1>1. written'[q] = [n \in Names |-> IF n \in S THEN taken[q][n] ELSE written[q][n]]
  BY DEF Landed, TypeOK
<1>2. failures[q] < MaxFailures /\ failures'[q] = failures[q] + 1
  BY DEF Fail, TypeOK
<1> QED BY <1>1, <1>2 DEF Buffer!FlushUnsure, Buffer!Fail

LEMMA TakeMaps ==
  ASSUME TypeOK, NEW q \in Replicas, TakePending(q) PROVE Buffer(q)!Tick
<1>1. /\ pc[q] = "select" /\ pc'[q] = "bulk" /\ taken'[q] = pending[q]
      /\ left'[q] = Held(pending[q]) /\ pending'[q] = Nothing
  BY DEF TakePending, TypeOK
<1>2. UNCHANGED <<newest[q], written[q], dropped[q], failures[q]>>
  BY DEF TakePending, outcome
<1>3. Held(pending[q]) # {}
  BY DEF TakePending
<1>4. Buffer(q)!Held(pending[q]) = Held(pending[q]) /\ Buffer(q)!Nothing = Nothing
  BY DEF Buffer!Held, Held, Buffer!Nothing, Nothing
<1>5. [run |-> taken'[q], close |-> Nothing] = [[run |-> taken[q], close |-> Nothing] EXCEPT !["run"] = pending[q]]
  BY <1>1, PairUpdate
<1>6. [run |-> left'[q], close |-> {}] = [[run |-> left[q], close |-> {}] EXCEPT !["run"] = Held(pending[q])]
  BY <1>1, PairUpdate
<1>7. [run |-> "flush", close |-> "open"] = [[run |-> "select", close |-> "open"] EXCEPT !["run"] = "flush"]
  BY PairUpdate
<1> QED BY <1>1, <1>2, <1>3, <1>4, <1>5, <1>6, <1>7 DEF Buffer!Tick, Buffer!TakePending

LEMMA ReturnsMaps ==
  ASSUME TypeOK, NEW q \in Replicas, FlushReturns(q) PROVE Buffer(q)!FlushReturns("run")
<1>1. pc[q] # "select" /\ left[q] = {} /\ pc'[q] = "select" /\ taken'[q] = Nothing
  BY DEF FlushReturns, TypeOK
<1>2. UNCHANGED <<newest[q], pending[q], left[q], written[q], dropped[q], failures[q]>>
  BY DEF FlushReturns, buffers, outcome
<1>3. Buffer(q)!Nothing = Nothing
  BY DEF Buffer!Nothing, Nothing
<1>4. [run |-> taken'[q], close |-> Nothing] = [[run |-> taken[q], close |-> Nothing] EXCEPT !["run"] = Nothing]
  BY <1>1, PairUpdate
<1>5. [run |-> "select", close |-> "open"] = [[run |-> "flush", close |-> "open"] EXCEPT !["run"] = "select"]
  BY PairUpdate
<1> QED BY <1>1, <1>2, <1>3, <1>4, <1>5 DEF Buffer!FlushReturns, Buffer!After

LEMMA RequeueMaps ==
  ASSUME TypeOK, NEW q \in Replicas, NEW n \in left[q], pc[q] # "select", Requeue(q, n)
  PROVE  Buffer(q)!Requeue("run", n)
<1>1. /\ pc'[q] = "each" /\ left'[q] = left[q] \ {n}
      /\ failures[q] < MaxFailures /\ failures'[q] = failures[q] + 1
  BY DEF Requeue, Settled, Fail, TypeOK
<1>2. UNCHANGED <<newest[q], taken[q], written[q], dropped[q]>>
  BY DEF Requeue
<1>3. n \in Names /\ pending[q] \in [Names -> Nat]
  BY DEF TypeOK
<1>4. pending'[q] = [pending[q] EXCEPT ![n] = IF pending[q][n] = 0 THEN taken[q][n] ELSE pending[q][n]]
  BY DEF Requeue, Requeued, TypeOK
<1>5. pending'[q] = Buffer(q)!RestoreUnlessReplaced({n}, taken[q])
  BY <1>3, <1>4 DEF Buffer!RestoreUnlessReplaced
<1>6. [run |-> left'[q], close |-> {}] = [[run |-> left[q], close |-> {}] EXCEPT !["run"] = @ \ {n}]
  BY <1>1, PairUpdate
<1> QED BY <1>1, <1>2, <1>5, <1>6 DEF Buffer!Requeue, Buffer!Fail

LEMMA DropMaps ==
  ASSUME TypeOK, NEW q \in Replicas, NEW n \in left[q], pc[q] # "select", DropEdit(q, n)
  PROVE  Buffer(q)!FlushDrops("run", n)
<1>1. /\ pc'[q] = "each" /\ left'[q] = left[q] \ {n}
      /\ failures[q] < MaxFailures /\ failures'[q] = failures[q] + 1
  BY DEF DropEdit, Settled, Fail, TypeOK
<1>2. dropped'[q] = [dropped[q] EXCEPT ![n] = taken[q][n]]
  BY DEF DropEdit, TypeOK
<1>3. UNCHANGED <<newest[q], pending[q], taken[q], written[q]>>
  BY DEF DropEdit, buffers
<1>4. [run |-> left'[q], close |-> {}] = [[run |-> left[q], close |-> {}] EXCEPT !["run"] = @ \ {n}]
  BY <1>1, PairUpdate
<1> QED BY <1>1, <1>2, <1>3, <1>4 DEF Buffer!FlushDrops, Buffer!Fail

LEMMA FlushMaps ==
  ASSUME BufferInv, NEW q \in Replicas, FlushStep(q) PROVE BufferNext(q)
<1>0. TypeOK /\ TypeBuffers /\ TypeFlush /\ ItemOpen
  BY Parts DEF BufferInv
<1> DEFINE Steps(S) == Buffer(q)!FlushLands("run", S) \/ Buffer(q)!FlushUnsure("run", S)
<1>1. ASSUME \/ Steps(left[q])
             \/ \E n \in left[q] : \/ Steps({n}) \/ Buffer(q)!FlushDrops("run", n)
                                   \/ Buffer(q)!Requeue("run", n)
             \/ Buffer(q)!Tick \/ Buffer(q)!FlushReturns("run")
      PROVE  BufferNext(q)
  BY <1>1 DEF BufferNext, Buffer!Next, Buffer!Goroutine, Buffer!Flush, Buffer!FlushFault,
     Buffer!Flushers
<1>2. ASSUME UNCHANGED Own(q) PROVE BufferNext(q)
  BY <1>2, BufferStutter, Zenon DEF BufferNext
<1> USE DEF TypeBuffers, TypeFlush, Numbered
<1>3. CASE TakePending(q)
  BY <1>0, <1>1, <1>3, TakeMaps, Zenon
<1>4. CASE FlushReturns(q)
  BY <1>0, <1>1, <1>4, ReturnsMaps, Zenon
<1>5. CASE BulkUpsert(q)
  <2>1. /\ left[q] \in SUBSET Names /\ left[q] # {} /\ pc[q] # "select" /\ pc'[q] # "select"
        /\ Landed(q, left[q]) /\ left'[q] = left[q] \ left[q]
        /\ UNCHANGED <<newest[q], pending[q], taken[q], dropped[q], failures[q]>>
    BY <1>0, <1>5 DEF BulkUpsert, buffers
  <2> QED BY <1>0, <1>1, <2>1, LandsMaps, Zenon
<1>6. CASE BulkFails(q)
  <2>1. /\ left[q] \in SUBSET Names /\ left[q] # {} /\ pc[q] # "select" /\ pc'[q] # "select"
        /\ UNCHANGED <<newest[q], pending[q], taken[q], left[q], dropped[q]>>
    BY <1>0, <1>6 DEF BulkFails, buffers
  <2>2. CASE Fail(q) /\ Landed(q, left[q])
    BY <1>0, <1>1, <2>1, <2>2, UnsureMaps, Zenon
  <2>3. CASE UNCHANGED <<written, failures>>
    BY <1>2, <2>1, <2>3 DEF Own
  <2> QED BY <1>6, <2>2, <2>3, Zenon DEF BulkFails
<1>7. ASSUME NEW n \in Names, AtItem(q, n) PROVE n \in left[q] /\ pc[q] # "select"
  BY <1>0, <1>7 DEF AtItem, ItemOpen
<1>8. ASSUME NEW n \in Names, AtItem(q, n), Landed(q, {n}), Settled(q, n),
             UNCHANGED <<buffers, taken, dropped, failures>>
      PROVE  BufferNext(q)
  <2>1. /\ pc'[q] # "select" /\ left'[q] = left[q] \ {n}
        /\ UNCHANGED <<newest[q], pending[q], taken[q], dropped[q], failures[q]>>
    BY <1>0, <1>8 DEF Settled, buffers
  <2>2. n \in left[q] /\ {n} \in SUBSET Names /\ {n} # {} /\ pc[q] # "select"
    BY <1>7, <1>8
  <2>3. Buffer(q)!FlushLands("run", {n})
    BY <1>0, <1>8, <2>1, <2>2, LandsMaps, Zenon
  <2> QED BY <1>1, <2>2, <2>3, Zenon
<1>9. ASSUME NEW n \in Names, pc[q] # "select", pc'[q] # "select",
             UNCHANGED <<buffers, taken, left, written, dropped, failures>>
      PROVE  BufferNext(q)
  BY <1>2, <1>9 DEF Own, buffers
<1>10. ASSUME NEW n \in Names, UpdateCommand(q, n) PROVE BufferNext(q)
  <2>1. AtItem(q, n) /\ pc[q] # "select" /\ UNCHANGED <<buffers, taken, dropped, failures>>
    BY <1>10 DEF UpdateCommand, AtItem
  <2>2. CASE Landed(q, {n}) /\ Settled(q, n)
    BY <1>8, <2>1, <2>2, Zenon
  <2>3. CASE pc' = [pc EXCEPT ![q] = "create"] /\ UNCHANGED <<left, written>>
    BY <1>0, <1>9, <2>1, <2>3
  <2> QED BY <1>10, <2>2, <2>3, Zenon DEF UpdateCommand
<1>11. ASSUME NEW n \in Names, CreateCommand(q, n) PROVE BufferNext(q)
  <2>1. AtItem(q, n) /\ pc[q] # "select" /\ UNCHANGED <<buffers, taken, dropped, failures>>
    BY <1>11 DEF CreateCommand, AtItem
  <2>2. CASE Landed(q, {n}) /\ Settled(q, n)
    BY <1>8, <2>1, <2>2, Zenon
  <2>3. CASE pc' = [pc EXCEPT ![q] = "again"] /\ UNCHANGED <<left, written>>
    BY <1>0, <1>9, <2>1, <2>3
  <2> QED BY <1>11, <2>2, <2>3, Zenon DEF CreateCommand
<1>12. ASSUME NEW n \in Names, UpdateAgain(q, n) PROVE BufferNext(q)
  BY <1>8, <1>12 DEF UpdateAgain, AtItem
<1>13. ASSUME NEW n \in Names, AnswerLost(q, n) PROVE BufferNext(q)
  <2>1. n \in left[q] /\ {n} \in SUBSET Names /\ {n} # {} /\ pc[q] # "select"
    BY <1>7, <1>13 DEF AnswerLost
  <2>2. /\ pc'[q] # "select" /\ Landed(q, {n}) /\ Fail(q)
        /\ UNCHANGED <<newest[q], pending[q], taken[q], left[q], dropped[q]>>
    BY <1>0, <1>13 DEF AnswerLost, buffers
  <2>3. Buffer(q)!FlushUnsure("run", {n})
    BY <1>0, <2>1, <2>2, UnsureMaps, Zenon
  <2> QED BY <1>1, <2>1, <2>3, Zenon
<1>14. ASSUME NEW n \in Names, Requeue(q, n) PROVE BufferNext(q)
  <2>1. n \in left[q] /\ pc[q] # "select"
    BY <1>0, <1>7, <1>14 DEF Requeue, ItemOpen
  <2> QED BY <1>0, <1>1, <1>14, <2>1, RequeueMaps, Zenon
<1>15. ASSUME NEW n \in Names, DropEdit(q, n) PROVE BufferNext(q)
  <2>1. n \in left[q] /\ pc[q] # "select"
    BY <1>7, <1>15 DEF DropEdit
  <2> QED BY <1>0, <1>1, <1>15, <2>1, DropMaps, Zenon
<1> QED BY <1>3, <1>4, <1>5, <1>6, <1>10, <1>11, <1>12, <1>13, <1>14, <1>15, Zenon DEF FlushStep

LEMMA BufferStep ==
  ASSUME BufferInv, FewNames, [Next]_vars, NEW q \in Replicas PROVE BufferNext(q)
<1>0. TypeOK /\ TypeBuffers
  BY Parts DEF BufferInv
<1>1. ASSUME UNCHANGED Own(q) PROVE BufferNext(q)
  BY <1>1, BufferStutter, Zenon DEF BufferNext
<1>2. CASE UNCHANGED <<buffers, flushing, outcome>>
  BY <1>1, <1>2 DEF Own, buffers, flushing, outcome
<1>3. ASSUME NEW r \in Replicas, FlushStep(r) PROVE BufferNext(q)
  <2>1. CASE r = q
    BY <1>3, <2>1, FlushMaps, Zenon
  <2>2. CASE r # q
    BY <1>0, <1>1, <1>3, <2>2, OthersStutter, Zenon
  <2> QED BY <2>1, <2>2
<1>4. ASSUME NEW r \in Replicas, NEW n \in Names, Add(r, n) PROVE BufferNext(q)
  <2>1. CASE r = q
    BY <1>4, <2>1, AddMaps, Zenon DEF BufferNext
  <2>2. CASE r # q
    <3>1. UNCHANGED Own(q)
      BY <1>0, <1>4, <2>2 DEF Add, Own, flushing, outcome, TypeBuffers, Numbered
    <3> QED BY <1>1, <3>1
  <2> QED BY <2>1, <2>2
<1> QED BY <1>2, <1>3, <1>4, RequestMoves, Zenon

LEMMA BufferStarts == ASSUME Init, NEW q \in Replicas PROVE Buffer(q)!Init
<1>1. /\ newest[q] = Nothing /\ pending[q] = Nothing /\ pc[q] = "select" /\ taken[q] = Nothing
      /\ left[q] = {} /\ written[q] = Nothing /\ dropped[q] = Nothing /\ failures[q] = 0
  BY DEF Init
<1>2. Buffer(q)!Nothing = Nothing
  BY DEF Buffer!Nothing, Nothing
<1> DEFINE flushers == {"run", "close"}
<1>3. [run |-> "select", close |-> "open"] = [f \in flushers |-> IF f = "run" THEN "select" ELSE "open"]
  OBVIOUS
<1>4. [run |-> Nothing, close |-> Nothing] = [f \in flushers |-> Nothing]
  OBVIOUS
<1>5. [run |-> {}, close |-> {}] = [f \in flushers |-> {}]
  OBVIOUS
<1> QED BY <1>1, <1>2, <1>3, <1>4, <1>5 DEF Buffer!Init, Buffer!Flushers

\* The buffer and the flush of every replica do what the write-behind batcher
\* assumes of them, whatever the other replicas and the dashboard do meanwhile
\* (upsertEach, requeue).
THEOREM BufferIsBatcher ==
  ASSUME FewNames PROVE Spec => FlushIsCallback
<1>1. Init => \A r \in Replicas : Buffer(r)!Init
  BY BufferStarts, Zenon
<1>2. BufferInv /\ [Next]_vars =>
        [\A r \in Replicas : [Buffer(r)!Next]_(Buffer(r)!vars)]_vars
  BY BufferStep, Zenon DEF BufferNext
<1> QED BY <1>1, <1>2, BufferAlways, PTL DEF Spec, FlushIsCallback

-----------------------------------------------------------------------------
(* No edit is forgotten                                                      *)

\* The numbers a replica holds for the name n: the newest edit it accepted, the
\* pending one, the one of its window (open: unsettled items), the last it landed
\* and the last it dropped.  Settled ones come first, then the window, then the
\* pending one.
EditKept(n, new, pend, win, open, wr, dr) ==
    /\ new = pend \/ new = wr \/ new = dr \/ (n \in open /\ new = win)
    /\ pend <= new /\ win <= new /\ wr <= new /\ dr <= new
    /\ pend # 0 => wr <= pend /\ dr <= pend
    /\ win # 0 => wr <= win /\ dr <= win
    /\ win # 0 /\ pend # 0 => win <= pend
    /\ n \in open => win # 0

KeptAt(q, n) ==
    EditKept(n, newest[q][n], pending[q][n], taken[q][n], left[q], written[q][n],
             dropped[q][n])
KeptBy(q) == /\ pc[q] = "select" => left[q] = {}
             /\ \A n \in Names : KeptAt(q, n)

KeptInv == BufferInv /\ \A q \in Replicas : KeptBy(q)

\* What a replica does with an edit: a newer one arrives; it is taken; the flush
\* returns; it lands (whatever is thought of the answer); it is dropped; requeued.
EditMoves(n, new, pend, win, open, wr, dr) ==
    /\ \A c \in Nat : c > new => EditKept(n, c, c, win, open, wr, dr)
    /\ n \notin open =>
          /\ \A L : (n \in L <=> pend # 0) => EditKept(n, new, 0, pend, L, wr, dr)
          /\ EditKept(n, new, pend, 0, open, wr, dr)
    /\ n \in open => \A L :
          /\ EditKept(n, new, pend, win, L, win, dr)
          /\ n \notin L => /\ EditKept(n, new, pend, win, L, wr, win)
                          /\ EditKept(n, new, IF pend = 0 THEN win ELSE pend, win, L, wr, dr)

LEMMA KeptMoves ==
  ASSUME NEW n, NEW new \in Nat, NEW pend \in Nat, NEW win \in Nat, NEW open,
         NEW wr \in Nat, NEW dr \in Nat, EditKept(n, new, pend, win, open, wr, dr)
  PROVE  EditMoves(n, new, pend, win, open, wr, dr)
BY DEF EditKept, EditMoves

\* The same of the numbers q holds for n.
LEMMA KeptMovesAt ==
  ASSUME TypeOK, NEW q \in Replicas, NEW n \in Names, KeptAt(q, n),
         NEW new, new = newest[q][n], NEW pend, pend = pending[q][n],
         NEW win, win = taken[q][n], NEW open, open = left[q],
         NEW wr, wr = written[q][n], NEW dr, dr = dropped[q][n]
  PROVE  EditMoves(n, new, pend, win, open, wr, dr)
<1>1. new \in Nat /\ pend \in Nat /\ win \in Nat /\ wr \in Nat /\ dr \in Nat
  BY DEF TypeOK
<1>2. EditKept(n, new, pend, win, open, wr, dr)
  BY DEF KeptAt
<1> QED BY <1>1, <1>2, KeptMoves, Zenon

LEMMA OwnKept == ASSUME KeptInv, NEW q \in Replicas, UNCHANGED Own(q) PROVE KeptBy(q)'
BY DEF KeptInv, KeptBy, KeptAt, Own

LEMMA AddKept ==
  ASSUME KeptInv, NEW q \in Replicas, NEW n \in Names, Add(q, n) PROVE KeptBy(q)'
<1>0. TypeOK /\ clock \in Nat /\ newest[q][n] <= clock /\ KeptBy(q)
  BY DEF KeptInv, BufferInv, Dated, TypeOK
<1>1. /\ newest'[q] = [newest[q] EXCEPT ![n] = clock + 1]
      /\ pending'[q] = [pending[q] EXCEPT ![n] = clock + 1]
      /\ UNCHANGED <<pc, taken, left, written, dropped>>
  BY <1>0 DEF Add, Tick, TypeOK, flushing, outcome
<1>2. ASSUME NEW m \in Names PROVE KeptAt(q, m)'
  <2>1. CASE m = n
    <3>1. clock + 1 \in Nat /\ clock + 1 > newest[q][n] /\ KeptAt(q, n)
      BY <1>0 DEF KeptBy, TypeOK
    <3>2. \A c \in Nat : c > newest[q][n] =>
             EditKept(n, c, c, taken[q][n], left[q], written[q][n], dropped[q][n])
      BY <1>0, <3>1, KeptMovesAt, Zenon DEF EditMoves
    <3>3. newest'[q][n] = clock + 1 /\ pending'[q][n] = clock + 1
      BY <1>0, <1>1 DEF TypeOK
    <3> QED BY <1>1, <2>1, <3>1, <3>2, <3>3 DEF KeptAt
  <2>2. CASE m # n
    <3>1. newest'[q][m] = newest[q][m] /\ pending'[q][m] = pending[q][m]
      BY <1>0, <1>1, <2>2 DEF TypeOK
    <3> QED BY <1>0, <1>1, <3>1 DEF KeptAt, KeptBy
  <2> QED BY <2>1, <2>2
<1> QED BY <1>0, <1>1, <1>2 DEF KeptBy

\* Items S of the window land; they leave it, or stay when the answer is lost.
LEMMA LandsKept ==
  ASSUME KeptInv, NEW q \in Replicas, NEW S \in SUBSET left[q], NEW L \in SUBSET left[q],
         left[q] \ S \subseteq L, Landed(q, S), left'[q] = L,
         pc[q] # "select", pc'[q] # "select",
         UNCHANGED <<newest[q], pending[q], taken[q], dropped[q]>>
  PROVE  KeptBy(q)'
<1>0. TypeOK /\ KeptBy(q)
  BY DEF KeptInv, BufferInv
<1>1. ASSUME NEW m \in Names PROVE KeptAt(q, m)'
  <2>0. KeptAt(q, m) /\ written'[q][m] = IF m \in S THEN taken[q][m] ELSE written[q][m]
    BY <1>0 DEF KeptBy, Landed, TypeOK
  <2>1. CASE m \in S
    <3>1. m \in left[q]
      BY <2>1
    <3>2. EditKept(m, newest[q][m], pending[q][m], taken[q][m], L, taken[q][m], dropped[q][m])
      BY <1>0, <2>0, <3>1, KeptMovesAt, Zenon DEF EditMoves
    <3>3. written'[q][m] = taken[q][m]
      BY <2>0, <2>1
    <3> QED BY <3>2, <3>3 DEF KeptAt
  <2>2. CASE m \notin S
    <3>1. m \in L <=> m \in left[q]
      BY <2>2
    <3> QED BY <2>0, <2>2, <3>1 DEF KeptAt, EditKept
  <2> QED BY <2>1, <2>2
<1> QED BY <1>1 DEF KeptBy

LEMMA TakeKept == ASSUME KeptInv, NEW q \in Replicas, TakePending(q) PROVE KeptBy(q)'
<1>0. TypeOK /\ KeptBy(q)
  BY DEF KeptInv, BufferInv
<1>1. /\ pc[q] = "select" /\ pc'[q] = "bulk" /\ taken'[q] = pending[q]
      /\ left'[q] = Held(pending[q]) /\ pending'[q] = Nothing /\ left[q] = {}
  BY <1>0 DEF TakePending, TypeOK, KeptBy
<1>2. UNCHANGED <<newest, written, dropped>>
  BY DEF TakePending, outcome
<1>3. ASSUME NEW m \in Names PROVE KeptAt(q, m)'
  <2>1. KeptAt(q, m) /\ m \notin left[q] /\ (m \in left'[q] <=> pending[q][m] # 0)
    BY <1>0, <1>1 DEF KeptBy, Held
  <2>2. \A L : (m \in L <=> pending[q][m] # 0) =>
          EditKept(m, newest[q][m], 0, pending[q][m], L, written[q][m], dropped[q][m])
    BY <1>0, <2>1, KeptMovesAt, Zenon DEF EditMoves
  <2>3. pending'[q][m] = 0 /\ taken'[q][m] = pending[q][m]
    BY <1>1 DEF Nothing
  <2> QED BY <1>2, <2>1, <2>2, <2>3 DEF KeptAt
<1> QED BY <1>1, <1>3 DEF KeptBy

LEMMA ReturnsKept == ASSUME KeptInv, NEW q \in Replicas, FlushReturns(q) PROVE KeptBy(q)'
<1>0. TypeOK /\ KeptBy(q)
  BY DEF KeptInv, BufferInv
<1>1. left[q] = {} /\ taken'[q] = Nothing
  BY <1>0 DEF FlushReturns, TypeOK
<1>2. UNCHANGED <<newest, pending, left, written, dropped>>
  BY DEF FlushReturns, buffers, outcome
<1>3. ASSUME NEW m \in Names PROVE KeptAt(q, m)'
  <2>1. KeptAt(q, m) /\ m \notin left[q]
    BY <1>0, <1>1 DEF KeptBy
  <2>2. EditKept(m, newest[q][m], pending[q][m], 0, left[q], written[q][m], dropped[q][m])
    BY <1>0, <2>1, KeptMovesAt, Zenon DEF EditMoves
  <2>3. taken'[q][m] = 0
    BY <1>1 DEF Nothing
  <2> QED BY <1>2, <2>2, <2>3 DEF KeptAt
<1> QED BY <1>1, <1>2, <1>3 DEF KeptBy

\* Only the item n is settled: requeued, or dropped.
LEMMA SettlesKept ==
  ASSUME KeptInv, NEW q \in Replicas, NEW n \in left[q], Settled(q, n),
         UNCHANGED <<newest, taken, written>>,
         \/ /\ pending' = [pending EXCEPT ![q][n] = Requeued(q, n)]
            /\ UNCHANGED dropped
         \/ /\ dropped' = [dropped EXCEPT ![q][n] = taken[q][n]]
            /\ UNCHANGED pending
  PROVE  KeptBy(q)'
<1>0. TypeOK /\ KeptBy(q) /\ n \in Names
  BY DEF KeptInv, BufferInv, TypeOK
<1>1. pc'[q] = "each" /\ left'[q] = left[q] \ {n}
  BY <1>0 DEF Settled, TypeOK
<1>2. ASSUME NEW m \in Names PROVE KeptAt(q, m)'
  <2>0. KeptAt(q, m)
    BY <1>0 DEF KeptBy
  <2>1. CASE m # n
    <3>1. pending'[q][m] = pending[q][m] /\ dropped'[q][m] = dropped[q][m]
      BY <1>0, <2>1 DEF TypeOK
    <3>2. m \in left'[q] <=> m \in left[q]
      BY <1>1, <2>1
    <3> QED BY <2>0, <3>1, <3>2 DEF KeptAt, EditKept
  <2>2. CASE m = n
    <3>1. \A L : m \notin L =>
            /\ EditKept(m, newest[q][m], pending[q][m], taken[q][m], L, written[q][m], taken[q][m])
            /\ EditKept(m, newest[q][m],
                        IF pending[q][m] = 0 THEN taken[q][m] ELSE pending[q][m],
                        taken[q][m], L, written[q][m], dropped[q][m])
      BY <1>0, <2>0, <2>2, KeptMovesAt, Zenon DEF EditMoves
    <3>2. m \notin left'[q]
      BY <1>1, <2>2
    <3>3. \/ pending'[q][m] = Requeued(q, m) /\ dropped'[q][m] = dropped[q][m]
          \/ pending'[q][m] = pending[q][m] /\ dropped'[q][m] = taken[q][m]
      BY <1>0, <2>2 DEF TypeOK
    <3> QED BY <3>1, <3>2, <3>3, Zenon DEF KeptAt, Requeued
  <2> QED BY <2>1, <2>2
<1> QED BY <1>1, <1>2 DEF KeptBy

LEMMA FlushKept == ASSUME KeptInv, NEW q \in Replicas, FlushStep(q) PROVE KeptBy(q)'
<1>0. TypeOK /\ TypeBuffers /\ TypeFlush /\ ItemOpen
  BY Parts DEF KeptInv, BufferInv
<1> USE DEF TypeBuffers, TypeFlush, Numbered
<1>1. CASE BulkUpsert(q)
  <2>1. /\ pc[q] # "select" /\ pc'[q] # "select" /\ Landed(q, left[q]) /\ left'[q] = {}
        /\ UNCHANGED <<newest[q], pending[q], taken[q], dropped[q]>>
    BY <1>0, <1>1 DEF BulkUpsert, buffers
  <2> QED BY <2>1, LandsKept
<1>2. CASE BulkFails(q)
  <2>1. /\ pc[q] # "select" /\ pc'[q] # "select" /\ left'[q] = left[q]
        /\ UNCHANGED <<newest[q], pending[q], taken[q], dropped[q]>>
    BY <1>0, <1>2 DEF BulkFails, buffers
  <2>2. CASE Landed(q, left[q])
    BY <2>1, <2>2, LandsKept
  <2>3. CASE UNCHANGED <<written, failures>>
    BY <2>1, <2>3, OwnKept DEF Own
  <2> QED BY <1>2, <2>2, <2>3, Zenon DEF BulkFails
<1>3. ASSUME NEW n \in Names, AtItem(q, n) PROVE n \in left[q] /\ pc[q] # "select"
  BY <1>0, <1>3 DEF AtItem, ItemOpen
<1>4. ASSUME NEW n \in Names, AtItem(q, n), Landed(q, {n}), Settled(q, n),
             UNCHANGED <<buffers, taken, dropped, failures>>
      PROVE  KeptBy(q)'
  <2>1. /\ pc'[q] # "select" /\ left'[q] = left[q] \ {n}
        /\ UNCHANGED <<newest[q], pending[q], taken[q], dropped[q]>>
    BY <1>0, <1>4 DEF Settled, buffers
  <2>2. {n} \in SUBSET left[q] /\ pc[q] # "select"
    BY <1>3, <1>4
  <2> QED BY <1>4, <2>1, <2>2, LandsKept
<1>5. ASSUME NEW n \in Names, pc[q] # "select", pc'[q] # "select",
             UNCHANGED <<buffers, taken, left, written, dropped, failures>>
      PROVE  KeptBy(q)'
  BY <1>5, OwnKept DEF Own, buffers
<1>6. ASSUME NEW n \in Names, UpdateCommand(q, n) PROVE KeptBy(q)'
  <2>1. AtItem(q, n) /\ pc[q] # "select" /\ UNCHANGED <<buffers, taken, dropped, failures>>
    BY <1>6 DEF UpdateCommand, AtItem
  <2>2. CASE Landed(q, {n}) /\ Settled(q, n)
    BY <1>4, <2>1, <2>2, Zenon
  <2>3. CASE pc' = [pc EXCEPT ![q] = "create"] /\ UNCHANGED <<left, written>>
    BY <1>0, <1>5, <2>1, <2>3
  <2> QED BY <1>6, <2>2, <2>3, Zenon DEF UpdateCommand
<1>7. ASSUME NEW n \in Names, CreateCommand(q, n) PROVE KeptBy(q)'
  <2>1. AtItem(q, n) /\ pc[q] # "select" /\ UNCHANGED <<buffers, taken, dropped, failures>>
    BY <1>7 DEF CreateCommand, AtItem
  <2>2. CASE Landed(q, {n}) /\ Settled(q, n)
    BY <1>4, <2>1, <2>2, Zenon
  <2>3. CASE pc' = [pc EXCEPT ![q] = "again"] /\ UNCHANGED <<left, written>>
    BY <1>0, <1>5, <2>1, <2>3
  <2> QED BY <1>7, <2>2, <2>3, Zenon DEF CreateCommand
<1>8. ASSUME NEW n \in Names, UpdateAgain(q, n) PROVE KeptBy(q)'
  BY <1>4, <1>8 DEF UpdateAgain, AtItem
<1>9. ASSUME NEW n \in Names, AnswerLost(q, n) PROVE KeptBy(q)'
  <2>1. {n} \in SUBSET left[q] /\ pc[q] # "select"
    BY <1>3, <1>9 DEF AnswerLost
  <2>2. /\ pc'[q] # "select" /\ Landed(q, {n}) /\ left'[q] = left[q]
        /\ UNCHANGED <<newest[q], pending[q], taken[q], dropped[q]>>
    BY <1>0, <1>9 DEF AnswerLost, buffers
  <2> QED BY <2>1, <2>2, LandsKept
<1>10. ASSUME NEW n \in Names, Requeue(q, n) PROVE KeptBy(q)'
  <2>1. n \in left[q]
    BY <1>0, <1>3, <1>10 DEF Requeue, ItemOpen
  <2> QED BY <1>10, <2>1, SettlesKept DEF Requeue
<1>11. ASSUME NEW n \in Names, DropEdit(q, n) PROVE KeptBy(q)'
  <2>1. n \in left[q]
    BY <1>3, <1>11 DEF DropEdit
  <2> QED BY <1>11, <2>1, SettlesKept DEF DropEdit, buffers
<1> QED BY <1>1, <1>2, <1>6, <1>7, <1>8, <1>9, <1>10, <1>11, TakeKept, ReturnsKept, Zenon
        DEF FlushStep

LEMMA KeptStep == KeptInv /\ [Next]_vars => KeptInv'
<1> SUFFICES ASSUME KeptInv, [Next]_vars PROVE KeptInv'
  OBVIOUS
<1>0. TypeOK /\ TypeBuffers /\ BufferInv
  BY Parts DEF KeptInv, BufferInv
<1>1. BufferInv'
  BY <1>0, TypeStep, DatedStep, ItemStep DEF BufferInv
<1>2. ASSUME NEW q \in Replicas PROVE KeptBy(q)'
  <2>1. CASE UNCHANGED <<buffers, flushing, outcome>>
    BY <2>1, OwnKept DEF Own, buffers, flushing, outcome
  <2>2. ASSUME NEW r \in Replicas, FlushStep(r) PROVE KeptBy(q)'
    BY <1>0, <2>2, FlushKept, OthersStutter, OwnKept, Zenon
  <2>3. ASSUME NEW r \in Replicas, NEW n \in Names, Add(r, n) PROVE KeptBy(q)'
    <3>1. CASE r = q
      BY <2>3, <3>1, AddKept, Zenon
    <3>2. CASE r # q
      <4>1. UNCHANGED Own(q)
        BY <1>0, <2>3, <3>2 DEF Add, Own, flushing, outcome, TypeBuffers, Numbered
      <4> QED BY <4>1, OwnKept
    <3> QED BY <3>1, <3>2
  <2> QED BY <2>1, <2>2, <2>3, RequestMoves, Zenon
<1> QED BY <1>1, <1>2 DEF KeptInv

\* The newest edit a replica has accepted is buffered, in the window being
\* flushed, landed or refused; once the replica is quiet on the name it has been
\* landed or refused.
EditsKept ==
    \A r \in Replicas, n \in Names :
        /\ \/ newest[r][n] \in {pending[r][n], written[r][n], dropped[r][n]}
           \/ n \in left[r] /\ newest[r][n] = taken[r][n]
        /\ pending[r][n] = 0 /\ n \notin left[r] =>
              newest[r][n] \in {written[r][n], dropped[r][n]}

\* No accepted edit is forgotten by the buffer that accepted it, whichever of its
\* statements fail or lose their answers (upsertEach, requeue).
THEOREM EditsNeverForgotten == Spec => []EditsKept
<1>1. Init => KeptInv
  <2> SUFFICES ASSUME Init PROVE KeptInv
    OBVIOUS
  <2>1. BufferInv
    BY TypeInit DEF Init, BufferInv, ItemOpen, Dated, Nothing
  <2>2. ASSUME NEW q \in Replicas PROVE KeptBy(q)
    BY DEF Init, KeptBy, KeptAt, EditKept, Nothing
  <2> QED BY <2>1, <2>2 DEF KeptInv
<1>2. KeptInv => EditsKept
  <2> SUFFICES ASSUME KeptInv, NEW r \in Replicas, NEW n \in Names
               PROVE /\ \/ newest[r][n] \in {pending[r][n], written[r][n], dropped[r][n]}
                        \/ n \in left[r] /\ newest[r][n] = taken[r][n]
                     /\ pending[r][n] = 0 /\ n \notin left[r] =>
                           newest[r][n] \in {written[r][n], dropped[r][n]}
    BY Zenon DEF EditsKept
  <2>1. TypeOK /\ KeptAt(r, n)
    BY DEF KeptInv, BufferInv, KeptBy
  <2> QED BY <2>1 DEF KeptAt, EditKept, TypeOK
<1> QED BY <1>1, <1>2, KeptStep, PTL DEF Spec
==============================================================================
