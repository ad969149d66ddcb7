---------------------------- MODULE CommandStore ----------------------------
(***************************************************************************)
(* Custom chat commands of one channel (app/db/commands): the replicas of  *)
(* the Commands service buffer edits in their own Batcher and flush them   *)
(* into the shared table, while deletions, renames and restores go to the  *)
(* table at once and batches of command uses are credited under receipts.  *)
(* Every accepted edit has a number from one clock; a row holds the number *)
(* of the edit it shows.                                                    *)
(***************************************************************************)
EXTENDS Naturals, FiniteSets, FiniteSetsExt

CONSTANTS Replicas,      \* pods of the service, behind one queue group
          Names,         \* normalized command names
          Batches,       \* producer batches of command uses
          Count,         \* uses in each batch
          Target,        \* command each batch is for
          RestoreUses,   \* total the dashboard sends with a restore
          MaxCounter,    \* largest uses total
          MaxClock,      \* bound: accepted edits, deletions and renames
          MaxDirect,     \* bound: deletions, renames, restores and erasures
          MaxFailures,   \* bound: failed statements per replica
          None

ASSUME UsesAssumption ==
    /\ MaxCounter \in Nat /\ RestoreUses \in 1 .. MaxCounter
    /\ Count \in [Batches -> 1 .. MaxCounter] /\ Target \in [Batches -> Names]
ASSUME BoundAssumption == MaxClock \in Nat /\ MaxDirect \in Nat /\ MaxFailures \in Nat

VARIABLES rows,      \* the commands table: row of each name, None when absent
          receipts,  \* command_use_batches
          erased,    \* the account's deletion event is on the bus
          last,      \* last operation accepted per name (history)
          clock, direct,
          newest,    \* last edit accepted per replica and name (history)
          pending,   \* each replica's batcher: b.pending
          pc,        \* what its goroutine does next (see FlushStates)
          cur,       \* the item upsertEach is at
          taken,     \* the window being flushed
          left,      \* items of it not settled
          written,   \* last edit the replica reported as landed (history)
          dropped,   \* last edit it gave up (history)
          failures

table == <<rows, receipts, erased>>
buffers == <<newest, pending>>
flushing == <<pc, cur, taken, left>>
outcome == <<written, dropped, failures>>
vars == <<table, last, clock, direct, buffers, flushing, outcome>>

Nothing == [n \in Names |-> 0]
Held(m) == {n \in Names : m[n] # 0}

\* credited is history: the batches whose uses this row has received; old is
\* created_at <= cutoff of the account's deletion.
Row == [edit : Nat, uses : 0 .. MaxCounter, base : Nat, credited : SUBSET Batches,
        old : BOOLEAN]

FlushStates == {"select", "bulk", "each", "create", "again", "lost"}

TypeOK ==
    /\ rows \in [Names -> Row \cup {None}]
    /\ receipts \subseteq Batches /\ erased \in BOOLEAN
    /\ last \in [Names -> [at : Nat, gone : BOOLEAN]]
    /\ clock \in Nat /\ direct \in Nat
    /\ newest \in [Replicas -> [Names -> Nat]]
    /\ pending \in [Replicas -> [Names -> Nat]]
    /\ pc \in [Replicas -> FlushStates]
    /\ cur \in [Replicas -> Names \cup {None}]
    /\ taken \in [Replicas -> [Names -> Nat]]
    /\ left \in [Replicas -> SUBSET Names]
    /\ written \in [Replicas -> [Names -> Nat]]
    /\ dropped \in [Replicas -> [Names -> Nat]]
    /\ failures \in [Replicas -> Nat]

Init ==
    /\ rows = [n \in Names |-> None] /\ receipts = {} /\ erased = FALSE
    /\ last = [n \in Names |-> [at |-> 0, gone |-> TRUE]]
    /\ clock = 0 /\ direct = 0
    /\ newest = [r \in Replicas |-> Nothing] /\ pending = newest
    /\ pc = [r \in Replicas |-> "select"] /\ cur = [r \in Replicas |-> None]
    /\ taken = newest /\ left = [r \in Replicas |-> {}]
    /\ written = newest /\ dropped = newest
    /\ failures = [r \in Replicas |-> 0]

-----------------------------------------------------------------------------
(* The table.  An edit touches the columns it owns; a new row starts at      *)
(* uses 0, and may fall within the clock slack of an earlier erasure.        *)

NewRow(edit, uses, old) ==
    [edit |-> edit, uses |-> uses, base |-> uses, credited |-> {}, old |-> old]

\* Variant: an edit resets the counter.
ApplyEditReset(row, edit) == [row EXCEPT !.edit = edit, !.uses = 0]
ApplyEdit(row, edit) == [row EXCEPT !.edit = edit]

SumOver(S) == MapThenSumSet(LAMBDA b : Count[b], S)

CreatedAt == IF erased THEN BOOLEAN ELSE {FALSE}

\* INSERT ... ON DUPLICATE KEY UPDATE of the items S of a window m.
Upserted(S, m, old) ==
    [n \in Names |-> IF n \notin S THEN rows[n]
                     ELSE IF rows[n] = None THEN NewRow(m[n], 0, old)
                     ELSE ApplyEdit(rows[n], m[n])]

-----------------------------------------------------------------------------
(* Requests: the dashboard reaches any replica.                              *)

Tick == clock < MaxClock /\ clock' = clock + 1
Accept(n, isGone) == last' = [last EXCEPT ![n] = [at |-> clock', gone |-> isGone]]
Direct == direct < MaxDirect /\ direct' = direct + 1

Add(r, n) ==
    /\ Tick /\ Accept(n, FALSE)
    /\ newest' = [newest EXCEPT ![r][n] = clock']
    /\ pending' = [pending EXCEPT ![r][n] = clock']
    /\ UNCHANGED <<table, flushing, outcome>>

Upsert(r, n) == Add(r, n) /\ UNCHANGED direct

Delete(n) ==
    /\ Direct /\ Tick /\ Accept(n, TRUE)
    /\ rows' = [rows EXCEPT ![n] = None]
    /\ UNCHANGED <<receipts, erased, buffers, flushing, outcome>>

\* One UPDATE sets the name and the edit; a taken name is a constraint error,
\* and a missing row turns the rename into an edit of the new name.
Rename(r, old, new) ==
    /\ old # new /\ Direct
    /\ \/ /\ rows[old] # None /\ rows[new] = None /\ Tick
          /\ rows' = [rows EXCEPT ![old] = None, ![new] = ApplyEdit(rows[old], clock')]
          /\ last' = [last EXCEPT ![old] = [at |-> clock', gone |-> TRUE],
                                  ![new] = [at |-> clock', gone |-> FALSE]]
          /\ UNCHANGED <<receipts, erased, buffers, flushing, outcome>>
       \/ rows[old] = None /\ Add(r, new)

\* Inserts only when absent; otherwise the dashboard sends an ordinary edit.
Restore(r, n) ==
    /\ Direct
    /\ \/ /\ rows[n] = None /\ Tick /\ Accept(n, FALSE)
          /\ \E old \in CreatedAt :
                rows' = [rows EXCEPT ![n] = NewRow(clock', RestoreUses, old)]
          /\ UNCHANGED <<receipts, erased, buffers, flushing, outcome>>
       \/ rows[n] # None /\ Add(r, n)

\* Users publishes the deletion of the account; the rows of now are older.
AccountDeleted ==
    /\ ~erased /\ Direct /\ erased' = TRUE
    /\ rows' = [n \in Names |-> IF rows[n] = None THEN None
                                ELSE [rows[n] EXCEPT !.old = TRUE]]
    /\ UNCHANGED <<receipts, last, clock, buffers, flushing, outcome>>

\* Its consumer, any number of times.
DeleteAllForUser ==
    LET swept == {n \in Names : rows[n] # None /\ rows[n].old} IN
    /\ erased /\ swept # {} /\ Tick
    /\ rows' = [n \in Names |-> IF n \in swept THEN None ELSE rows[n]]
    /\ last' = [n \in Names |-> IF n \in swept THEN [at |-> clock', gone |-> TRUE]
                                ELSE last[n]]
    /\ UNCHANGED <<receipts, erased, direct, buffers, flushing, outcome>>

-----------------------------------------------------------------------------
(* RecordUse: one transaction per delivery of a batch, delivered at least    *)
(* once, to any replica, before and after its first acknowledgement.         *)

\* Variant: no receipt is looked up.
ReceiptNever(b) == FALSE
ReceiptExists(b) == b \in receipts

\* Variant: the guard forgets the delta.
RoomForRow(b, row) == row.uses <= MaxCounter
Room(b, row) == row.uses <= MaxCounter - Count[b]

\* A full counter rolls the receipt back: the step is then not taken.
RecordUse(b) ==
    LET row == rows[Target[b]] IN
    /\ ~ReceiptExists(b)
    /\ receipts' = receipts \cup {b}
    /\ \/ row = None /\ rows' = rows
       \/ /\ row # None /\ Room(b, row)
          /\ rows' = [rows EXCEPT ![Target[b]].uses = @ + Count[b],
                                  ![Target[b]].credited = @ \cup {b}]
    /\ UNCHANGED <<erased, last, clock, direct, buffers, flushing, outcome>>

-----------------------------------------------------------------------------
(* The flush of a replica's window.                                          *)

TakePending(r) ==
    /\ pc[r] = "select" /\ Held(pending[r]) # {}
    /\ taken' = [taken EXCEPT ![r] = pending[r]]
    /\ left' = [left EXCEPT ![r] = Held(pending[r])]
    /\ pending' = [pending EXCEPT ![r] = Nothing]
    /\ pc' = [pc EXCEPT ![r] = "bulk"]
    /\ UNCHANGED <<table, last, clock, direct, newest, cur, outcome>>

Fail(r) == failures[r] < MaxFailures /\ failures' = [failures EXCEPT ![r] = @ + 1]

Landed(r, S) ==
    written' = [written EXCEPT ![r] =
                   [n \in Names |-> IF n \in S THEN taken[r][n] ELSE written[r][n]]]

\* bulkUpsertCommands: every item in one statement.
BulkUpsert(r) ==
    /\ pc[r] = "bulk" /\ left[r] # {}
    /\ \E old \in CreatedAt : rows' = Upserted(left[r], taken[r], old)
    /\ Landed(r, left[r])
    /\ left' = [left EXCEPT ![r] = {}]
    /\ UNCHANGED <<receipts, erased, last, clock, direct, buffers, pc, cur, taken,
                   dropped, failures>>

\* It fails, or succeeds and the answer is lost: fall back to one at a time.
BulkFails(r) ==
    /\ pc[r] = "bulk" /\ left[r] # {}
    /\ \/ UNCHANGED <<rows, written, failures>>
       \/ /\ Fail(r)
          /\ \E old \in CreatedAt : rows' = Upserted(left[r], taken[r], old)
          /\ Landed(r, left[r])
    /\ pc' = [pc EXCEPT ![r] = "each"]
    /\ UNCHANGED <<receipts, erased, last, clock, direct, buffers, cur, taken, left,
                   dropped>>

\* The item is settled and upsertEach goes on.
Settled(r, n) ==
    /\ left' = [left EXCEPT ![r] = @ \ {n}]
    /\ pc' = [pc EXCEPT ![r] = "each"]
    /\ cur' = [cur EXCEPT ![r] = None]

\* updateCommand: the row is there, or upsertCommand has to create it.
UpdateCommand(r, n) ==
    /\ pc[r] = "each" /\ n \in left[r]
    /\ \/ /\ rows[n] # None
          /\ rows' = Upserted({n}, taken[r], FALSE)
          /\ Landed(r, {n}) /\ Settled(r, n)
       \/ /\ rows[n] = None
          /\ pc' = [pc EXCEPT ![r] = "create"]
          /\ cur' = [cur EXCEPT ![r] = n]
          /\ UNCHANGED <<rows, left, written>>
    /\ UNCHANGED <<receipts, erased, last, clock, direct, buffers, taken, dropped,
                   failures>>

\* The insert; a row created meanwhile is a constraint error.
CreateCommand(r, n) ==
    /\ pc[r] = "create" /\ cur[r] = n
    /\ \/ /\ rows[n] = None
          /\ \E old \in CreatedAt : rows' = Upserted({n}, taken[r], old)
          /\ Landed(r, {n}) /\ Settled(r, n)
       \/ /\ rows[n] # None
          /\ pc' = [pc EXCEPT ![r] = "again"]
          /\ UNCHANGED <<rows, left, written, cur>>
    /\ UNCHANGED <<receipts, erased, last, clock, direct, buffers, taken, dropped,
                   failures>>

\* The second update, whose row count nobody looks at.
UpdateAgain(r, n) ==
    /\ pc[r] = "again" /\ cur[r] = n
    /\ rows' = IF rows[n] = None THEN rows ELSE Upserted({n}, taken[r], FALSE)
    /\ Landed(r, {n}) /\ Settled(r, n)
    /\ UNCHANGED <<receipts, erased, last, clock, direct, buffers, taken, dropped,
                   failures>>

\* The item a statement of upsertEach is about.
AtItem(r, n) == \/ pc[r] = "each" /\ n \in left[r]
                \/ pc[r] \in {"create", "again"} /\ cur[r] = n

\* The statement takes effect and its answer is lost.
AnswerLost(r, n) ==
    /\ AtItem(r, n) /\ Fail(r) /\ (pc[r] = "create") = (rows[n] = None)
    /\ \E old \in CreatedAt : rows' = Upserted({n}, taken[r], old)
    /\ Landed(r, {n})
    /\ pc' = [pc EXCEPT ![r] = "lost"] /\ cur' = [cur EXCEPT ![r] = n]
    /\ UNCHANGED <<receipts, erased, last, clock, direct, buffers, taken, left, dropped>>

\* Variant: the requeued edit wins.
RequeuedOver(r, n) == taken[r][n]
Requeued(r, n) == IF pending[r][n] = 0 THEN taken[r][n] ELSE pending[r][n]

\* A transient error requeues the edit, unless a newer one is pending.
Requeue(r, n) ==
    /\ AtItem(r, n) \/ (pc[r] = "lost" /\ cur[r] = n)
    /\ Fail(r) /\ Settled(r, n)
    /\ pending' = [pending EXCEPT ![r][n] = Requeued(r, n)]
    /\ UNCHANGED <<table, last, clock, direct, newest, taken, written, dropped>>

\* A validation or constraint error drops it.
DropEdit(r, n) ==
    /\ AtItem(r, n) /\ Fail(r) /\ Settled(r, n)
    /\ dropped' = [dropped EXCEPT ![r][n] = taken[r][n]]
    /\ UNCHANGED <<table, last, clock, direct, buffers, taken, written>>

FlushReturns(r) ==
    /\ pc[r] \in {"bulk", "each"} /\ left[r] = {}
    /\ pc' = [pc EXCEPT ![r] = "select"]
    /\ taken' = [taken EXCEPT ![r] = Nothing]
    /\ UNCHANGED <<table, last, clock, direct, buffers, cur, left, outcome>>

-----------------------------------------------------------------------------
Request == \/ \E r \in Replicas, n \in Names : Upsert(r, n) \/ Restore(r, n)
           \/ \E n \in Names : Delete(n)
           \/ \E r \in Replicas, o, n \in Names : Rename(r, o, n)
           \/ AccountDeleted

FlushStep(r) == \/ TakePending(r) \/ BulkUpsert(r) \/ BulkFails(r) \/ FlushReturns(r)
                \/ \E n \in Names : \/ UpdateCommand(r, n) \/ CreateCommand(r, n)
                                    \/ UpdateAgain(r, n) \/ AnswerLost(r, n)
                                    \/ Requeue(r, n) \/ DropEdit(r, n)

Next == \/ Request \/ DeleteAllForUser
        \/ \E b \in Batches : RecordUse(b)
        \/ \E r \in Replicas : FlushStep(r)

Spec == Init /\ [][Next]_vars

-----------------------------------------------------------------------------
(* Properties                                                               *)

\* A row's total is what it was created with plus each batch it received,
\* once, and fits the column: no redelivery counts twice, and no edit, rename
\* or conflicting insert resets it.
UsesExact ==
    \A n \in Names : rows[n] # None =>
        rows[n].uses = rows[n].base + SumOver(rows[n].credited)

\* A batch that has a receipt is never credited again, not even to a command
\* recreated under the name of the one it was consumed for.
ReplayCreditsNothing ==
    [][\A n \in Names, b \in receipts :
          rows'[n] # None /\ b \in rows'[n].credited =>
             \E m \in Names : rows[m] # None /\ b \in rows[m].credited]_vars

\* Each replica's buffer, with the repository's flush as its callback.
Buffer(r) == INSTANCE Batcher WITH
    Keys <- Names, MaxSize <- 256, MaxWrites <- MaxClock,
    newest <- newest[r], pending <- pending[r], kick <- FALSE,
    pc <- [run |-> IF pc[r] = "select" THEN "select" ELSE "flush", close |-> "open"],
    taken <- [run |-> taken[r], close |-> Nothing],
    left <- [run |-> left[r], close |-> {}],
    stored <- written[r], dropped <- dropped[r], expired <- FALSE,
    failures <- failures[r]

\* The flush of the repository is a callback as Batcher assumes it: every item
\* of a window is landed, dropped or requeued before it returns, and what a
\* replica lands per command never goes back.
FlushIsCallback ==
    /\ \A r \in Replicas : Buffer(r)!Init
    /\ [][\A r \in Replicas : [Buffer(r)!Next]_(Buffer(r)!vars)]_vars

\* No replica buffers or flushes an edit of the name.
Quiet(n) == \A r \in Replicas : pending[r][n] = 0 /\ n \notin left[r]

\* A command that was deleted, renamed away or erased last is absent once all
\* edits have settled.
DeleteIsFinal == \A n \in Names : Quiet(n) /\ last[n].gone => rows[n] = None

\* The edit accepted last is the one the table shows once all have settled,
\* unless it was refused.
NewestEditWins ==
    \A n \in Names :
        Quiet(n) /\ ~last[n].gone /\ (\A r \in Replicas : dropped[r][n] # last[n].at) =>
            rows[n] # None /\ rows[n].edit = last[n].at
=============================================================================
