------------------------------- MODULE Batcher -------------------------------
(***************************************************************************)
(* The coalescing write-behind batcher of pkg/batch/batcher.go: callers     *)
(* replace the pending value of a key, a goroutine flushes the window on a  *)
(* tick or when it is full, and Close drains what is left.  Writes of a key *)
(* have increasing numbers, in the order of Add; 0 means no value.          *)
(* The flush callback is what the repositories pass (app/db/*/repository):  *)
(* it writes the whole window, or falls back to one write per item and      *)
(* drops or requeues the ones that fail.                                    *)
(***************************************************************************)
EXTENDS Naturals, FiniteSets

CONSTANTS Keys,         \* map keys
          MaxSize,      \* pending keys that wake the goroutine early
          MaxWrites,    \* bound: number of the last write
          MaxFailures   \* bound: failures of the callback

ASSUME SizeAssumption == MaxSize \in Nat \ {0}
ASSUME BoundAssumption == MaxWrites \in Nat /\ MaxFailures \in Nat

VARIABLES newest,    \* last write added per key (history)
          pending,   \* b.pending
          kick,      \* the one-slot kick channel holds a signal
          pc,        \* where the goroutine ("run") and Close ("close") are
          taken,     \* the window each of them has taken
          left,      \* keys of that window the callback has yet to settle
          stored,    \* what the database holds per key
          dropped,   \* last write the callback gave up per key
          expired,   \* Close returned because its context ended
          failures

vars == <<newest, pending, kick, pc, taken, left, stored, dropped, expired,
          failures>>

Flushers == {"run", "close"}
Nothing == [k \in Keys |-> 0]
Held(m) == {k \in Keys : m[k] # 0}

RunAt == {"select", "flush", "done"}
CloseAt == {"open", "stop", "drain", "flush", "backoff", "closed"}

TypeOK ==
    /\ newest \in [Keys -> Nat] /\ pending \in [Keys -> Nat]
    /\ stored \in [Keys -> Nat] /\ dropped \in [Keys -> Nat]
    /\ kick \in BOOLEAN /\ expired \in BOOLEAN /\ failures \in Nat
    /\ pc \in [Flushers -> RunAt \cup CloseAt]
    /\ pc["run"] \in RunAt /\ pc["close"] \in CloseAt
    /\ taken \in [Flushers -> [Keys -> Nat]]
    /\ left \in [Flushers -> SUBSET Keys]

Init ==
    /\ newest = Nothing /\ pending = Nothing /\ kick = FALSE
    /\ pc = [f \in Flushers |-> IF f = "run" THEN "select" ELSE "open"]
    /\ taken = [f \in Flushers |-> Nothing]
    /\ left = [f \in Flushers |-> {}]
    /\ stored = Nothing /\ dropped = Nothing
    /\ expired = FALSE /\ failures = 0

-----------------------------------------------------------------------------
(* Callers.  The services stop their intake before they close the batcher.  *)

Add(k, v) ==
    /\ pc["close"] = "open" /\ newest[k] < v
    /\ newest' = [newest EXCEPT ![k] = v]
    /\ pending' = [pending EXCEPT ![k] = v]
    /\ kick' = (kick \/ Cardinality(Held(pending')) >= MaxSize)
    /\ UNCHANGED <<pc, taken, left, stored, dropped, expired, failures>>

\* Variant: the failed value wins.
RestoreAlways(K, m) == [k \in Keys |-> IF k \in K THEN m[k] ELSE pending[k]]

\* The pending map after the keys of K are put back with their values in m.
RestoreUnlessReplaced(K, m) ==
    [k \in Keys |-> IF k \in K /\ pending[k] = 0 THEN m[k] ELSE pending[k]]

-----------------------------------------------------------------------------
(* flushPending(): take the window, call back, restore what failed.         *)

TakePending(f) ==
    /\ Held(pending) # {}
    /\ taken' = [taken EXCEPT ![f] = pending]
    /\ left' = [left EXCEPT ![f] = Held(pending)]
    /\ pending' = Nothing
    /\ pc' = [pc EXCEPT ![f] = "flush"]
    /\ UNCHANGED <<newest, stored, dropped, expired, failures>>

\* Variant: the goroutine ends after a window that failed.
AfterOnce(f) == IF f = "run" THEN "done" ELSE "backoff"

\* Variant: both return to the select.
AfterSelect(f) == "select"

\* What follows flushPending() in the goroutine and in Close.
After(f) == IF f = "run" THEN "select" ELSE "backoff"

Fail == failures < MaxFailures /\ failures' = failures + 1

\* One transaction of the callback commits: the whole window, or one item of
\* the fallback.
FlushLands(f, S) ==
    /\ pc[f] = "flush" /\ S # {}
    /\ stored' = [k \in Keys |-> IF k \in S THEN taken[f][k] ELSE stored[k]]
    /\ left' = [left EXCEPT ![f] = @ \ S]
    /\ UNCHANGED <<newest, pending, kick, pc, taken, dropped, expired, failures>>

\* It commits but the answer is lost: the callback goes on as if it had failed.
FlushUnsure(f, S) ==
    /\ pc[f] = "flush" /\ S # {} /\ Fail
    /\ stored' = [k \in Keys |-> IF k \in S THEN taken[f][k] ELSE stored[k]]
    /\ UNCHANGED <<newest, pending, kick, pc, taken, left, dropped, expired>>

FlushDrops(f, k) ==
    /\ pc[f] = "flush" /\ k \in left[f] /\ Fail
    /\ dropped' = [dropped EXCEPT ![k] = taken[f][k]]
    /\ left' = [left EXCEPT ![f] = @ \ {k}]
    /\ UNCHANGED <<newest, pending, kick, pc, taken, stored, expired>>

Requeue(f, k) ==
    /\ pc[f] = "flush" /\ k \in left[f] /\ Fail
    /\ pending' = RestoreUnlessReplaced({k}, taken[f])
    /\ left' = [left EXCEPT ![f] = @ \ {k}]
    /\ UNCHANGED <<newest, kick, pc, taken, stored, dropped, expired>>

FlushReturns(f) ==
    /\ pc[f] = "flush" /\ left[f] = {}
    /\ pc' = [pc EXCEPT ![f] = After(f)]
    /\ taken' = [taken EXCEPT ![f] = Nothing]
    /\ UNCHANGED <<newest, pending, kick, left, stored, dropped, expired, failures>>

\* The callback returns an error: everything it was given is put back, what it
\* had already written included.
FlushFails(f) ==
    /\ pc[f] = "flush" /\ Fail
    /\ pending' = RestoreUnlessReplaced(Held(taken[f]), taken[f])
    /\ left' = [left EXCEPT ![f] = {}]
    /\ pc' = [pc EXCEPT ![f] = After(f)]
    /\ taken' = [taken EXCEPT ![f] = Nothing]
    /\ UNCHANGED <<newest, kick, stored, dropped, expired>>

-----------------------------------------------------------------------------
(* run(): the select picks any ready case; a flush of nothing is a no-op.   *)

Tick == pc["run"] = "select" /\ TakePending("run") /\ UNCHANGED kick

Kicked ==
    /\ pc["run"] = "select" /\ kick /\ kick' = FALSE
    /\ \/ TakePending("run")
       \/ /\ Held(pending) = {}
          /\ UNCHANGED <<newest, pending, pc, taken, left, stored, dropped,
                         expired, failures>>

Go(f, to) ==
    /\ pc' = [pc EXCEPT ![f] = to]
    /\ UNCHANGED <<newest, pending, kick, taken, left, stored, dropped, failures>>

Stopped == /\ pc["run"] = "select" /\ pc["close"] # "open"
           /\ Go("run", "done") /\ UNCHANGED expired

-----------------------------------------------------------------------------
(* Close(ctx)                                                               *)

Close == pc["close"] = "open" /\ Go("close", "stop") /\ UNCHANGED expired

\* Variant: Close does not wait for the goroutine.
CloseHurries == pc["close"] = "stop" /\ Go("close", "drain") /\ UNCHANGED expired

\* <-b.done
CloseWaits == /\ pc["close"] = "stop" /\ pc["run"] = "done"
              /\ Go("close", "drain") /\ UNCHANGED expired

CloseFlushes == pc["close"] = "drain" /\ TakePending("close") /\ UNCHANGED kick

\* Variant: a flush that returned is taken for success.
CloseTrusts == /\ \/ pc["close"] = "backoff"
                  \/ pc["close"] = "drain" /\ Held(pending) = {}
               /\ Go("close", "closed") /\ UNCHANGED expired

\* pendingCount() = 0, at the head of the loop or after a flush.
CloseReturns == /\ pc["close"] \in {"drain", "backoff"} /\ Held(pending) = {}
                /\ Go("close", "closed") /\ UNCHANGED expired

CloseRetries == /\ pc["close"] = "backoff" /\ Held(pending) # {}
                /\ Go("close", "drain") /\ UNCHANGED expired

\* ctx.Done(): the pending writes are lost.
CloseExpires == /\ pc["close"] = "backoff" /\ Held(pending) # {}
                /\ Go("close", "closed") /\ expired' = TRUE

-----------------------------------------------------------------------------
Flush(f) == \/ FlushLands(f, left[f])
            \/ \E k \in left[f] : FlushLands(f, {k})
            \/ FlushReturns(f)

FlushFault(f) == \/ FlushFails(f)
                 \/ FlushUnsure(f, left[f])
                 \/ \E k \in left[f] : \/ FlushUnsure(f, {k})
                                       \/ FlushDrops(f, k) \/ Requeue(f, k)

Goroutine == Tick \/ Kicked \/ Stopped \/ Flush("run")
Closer == CloseWaits \/ CloseFlushes \/ CloseReturns \/ CloseRetries
             \/ Flush("close")

Next == \/ \E k \in Keys, v \in 1 .. MaxWrites : Add(k, v)
        \/ Goroutine \/ Closer \/ Close \/ CloseExpires
        \/ \E f \in Flushers : FlushFault(f)

Spec == Init /\ [][Next]_vars

\* The goroutine and a Close under way keep running.
Fair == WF_vars(Goroutine) /\ WF_vars(Closer)
FairSpec == Spec /\ Fair

-----------------------------------------------------------------------------
(* Properties                                                               *)

\* The newest write of a key is never forgotten: it is pending, in the window
\* being flushed, in the database, or was refused by it.  A failed flush that
\* put its value over a newer one, or a requeue that was lost, breaks this.
NewestKept ==
    \A k \in Keys :
        newest[k] \in {pending[k], stored[k], dropped[k]}
                        \cup {taken[f][k] : f \in {g \in Flushers : k \in left[g]}}

\* Close returns with everything stored or refused unless its context ended.
CloseDrains ==
    pc["close"] = "closed" /\ ~expired =>
        \A k \in Keys : newest[k] \in {stored[k], dropped[k]}

\* Every write is overtaken, stored or refused in the end, whatever fails in
\* between, as long as the failures stop and Close is given the time.
EverythingSettles ==
    \A k \in Keys : \A n \in 1 .. MaxWrites :
        (newest[k] = n) ~> (stored[k] >= n \/ dropped[k] >= n \/ expired)

Promise == INSTANCE WriteBehind WITH abandoned <- expired

\* The batcher implements WriteBehind: the database moves only forward through
\* the writes of a key, and never to or past one that is not the latest to be
\* taken.  This takes one flush at a time: Close has to wait for the goroutine's
\* last window, and a failed window must not come back over a newer write.
KeepsPromise == Promise!Spec
==============================================================================
