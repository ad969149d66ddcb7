---------------------------- MODULE BatcherProofs ----------------------------
(***************************************************************************)
(* Batcher implements WriteBehind, forgets no newest write and drains on   *)
(* Close, for any set of keys and any bounds.                              *)
(***************************************************************************)
EXTENDS Batcher, TLAPS

\* Close and the goroutine never hold a window together.
OneFlush == pc["close"] \in {"drain", "flush", "backoff", "closed"} => pc["run"] = "done"

\* A window has unsettled keys only while its callback runs.
LeftOK == \A f \in Flushers :
             /\ pc[f] # "flush" => left[f] = {}
             /\ pc[f] = "flush" => left[f] \subseteq Held(taken[f])

\* Writes of a key: settled ones first, then the window, then pending, then newest.
Settled(k, n) == stored[k] <= n /\ dropped[k] <= n
Ordered ==
    \A k \in Keys :
        /\ Settled(k, newest[k]) /\ pending[k] <= newest[k]
        /\ pending[k] # 0 => Settled(k, pending[k])
        /\ \A f \in Flushers : pc[f] = "flush" =>
              /\ taken[f][k] <= newest[k]
              /\ taken[f][k] # 0 => Settled(k, taken[f][k])
              /\ taken[f][k] # 0 /\ pending[k] # 0 => taken[f][k] <= pending[k]

\* Close has returned only with nothing pending.
Drained == pc["close"] = "closed" /\ ~expired => pending = Nothing

Inv == TypeOK /\ OneFlush /\ LeftOK /\ Ordered /\ NewestKept /\ Drained

-----------------------------------------------------------------------------
LEMMA InvInit == Init => Inv
<1> SUFFICES ASSUME Init PROVE Inv
  OBVIOUS
<1>1. TypeOK /\ OneFlush /\ LeftOK
  BY DEF Init, TypeOK, OneFlush, LeftOK, Nothing, Flushers, RunAt, CloseAt
<1>2. Ordered
  BY DEF Init, Ordered, Settled, Nothing, Flushers
<1>3. NewestKept
  BY DEF Init, NewestKept, Nothing
<1>4. Drained
  BY DEF Init, Drained
<1> QED BY <1>1, <1>2, <1>3, <1>4 DEF Inv

USE DEF Flushers

LEMMA AddInv == ASSUME Inv, NEW k \in Keys, NEW v \in Nat, Add(k, v) PROVE Inv'
<1> USE DEF Inv, Add
<1>1. TypeOK'
  BY DEF TypeOK
<1>2. OneFlush'
  BY DEF OneFlush
<1>3. LeftOK'
  BY DEF LeftOK, Held
<1>4. Ordered'
  BY DEF Ordered, Settled, TypeOK
<1>5. NewestKept'
  BY DEF NewestKept, TypeOK
<1>6. Drained'
  BY DEF Drained
<1> QED BY <1>1, <1>2, <1>3, <1>4, <1>5, <1>6

LEMMA TakeInv ==
    ASSUME Inv, NEW f \in Flushers, TakePending(f), kick' \in BOOLEAN,
           \/ f = "run" /\ pc[f] = "select"
           \/ f = "close" /\ pc[f] = "drain"
    PROVE  Inv'
<1> USE DEF Inv, TakePending
<1>0. \A g \in Flushers : g # f => pc[g] # "flush"
  BY DEF OneFlush, TypeOK, RunAt, CloseAt
<1>1. TypeOK'
  BY DEF TypeOK, RunAt, CloseAt, Held, Nothing
<1>2. OneFlush'
  BY DEF OneFlush, TypeOK, RunAt, CloseAt
<1>3. LeftOK'
  BY DEF LeftOK, Held, TypeOK
<1>4. Ordered'
  BY <1>0 DEF Ordered, Settled, TypeOK, Nothing
<1>5. NewestKept'
  <2> SUFFICES ASSUME NEW k \in Keys
               PROVE (newest[k] \in {pending[k], stored[k], dropped[k]}
                        \cup {taken[h][k] : h \in {g \in Flushers : k \in left[g]}})'
    BY DEF NewestKept
  <2>1. \A g \in Flushers : left[g] = {}
    BY <1>0 DEF LeftOK
  <2>2. newest[k] \in {pending[k], stored[k], dropped[k]}
    BY <2>1 DEF NewestKept
  <2>3. CASE newest[k] = pending[k] /\ pending[k] # 0
    <3>1. k \in left'[f] /\ taken'[f][k] = newest'[k]
      BY <2>3 DEF Held, TypeOK
    <3> QED BY <3>1
  <2>4. CASE newest[k] = pending[k] /\ pending[k] = 0
    BY <2>4 DEF Nothing
  <2> QED BY <2>2, <2>3, <2>4
<1>6. Drained'
  BY DEF Drained, OneFlush, TypeOK, RunAt, CloseAt
<1> QED BY <1>1, <1>2, <1>3, <1>4, <1>5, <1>6

\* A step of the control flow only: the windows stay as they are.
LEMMA GoInv ==
    ASSUME Inv, NEW f \in Flushers, NEW to, Go(f, to), expired' \in BOOLEAN,
           pc[f] # "flush", to # "flush",
           f = "run" => to = "done" /\ expired' = expired,
           f = "close" => /\ to \in CloseAt
                          /\ to \in {"drain", "backoff", "closed"} => pc["run"] = "done"
                          /\ to = "closed" /\ ~expired' => pending = Nothing
                          /\ to = "closed" \/ expired' = expired
    PROVE  Inv'
<1> USE DEF Inv, Go
<1>1. TypeOK'
  BY DEF TypeOK, RunAt, CloseAt
<1>2. OneFlush'
  BY DEF OneFlush, TypeOK
<1>3. LeftOK'
  BY DEF LeftOK, TypeOK, Held
<1>4. Ordered'
  BY DEF Ordered, Settled, TypeOK
<1>5. NewestKept'
  BY DEF NewestKept
<1>6. Drained'
  BY DEF Drained, TypeOK
<1> QED BY <1>1, <1>2, <1>3, <1>4, <1>5, <1>6

-----------------------------------------------------------------------------
\* While f flushes, nobody else does.
LEMMA Alone ==
    ASSUME Inv, NEW f \in Flushers, pc[f] = "flush", NEW g \in Flushers, g # f
    PROVE  pc[g] # "flush" /\ left[g] = {}
BY DEF Inv, OneFlush, TypeOK, RunAt, CloseAt, LeftOK

\* The callback stores the keys of S; the ones it forgets leave the window.
LEMMA StoreInv ==
    ASSUME Inv, NEW f \in Flushers, pc[f] = "flush", NEW S \in SUBSET left[f],
           NEW L \in SUBSET left[f], left[f] \ S \subseteq L,
           stored' = [k \in Keys |-> IF k \in S THEN taken[f][k] ELSE stored[k]],
           left' = [left EXCEPT ![f] = L], failures' \in Nat,
           UNCHANGED <<newest, pending, kick, pc, taken, dropped, expired>>
    PROVE  Inv'
<1> USE DEF Inv
<1>0. S \subseteq Keys /\ \A k \in S : taken[f][k] # 0
  BY DEF LeftOK, Held, TypeOK
<1>1. TypeOK'
  BY DEF TypeOK
<1>2. OneFlush' /\ Drained'
  BY DEF OneFlush, Drained
<1>3. LeftOK'
  BY DEF LeftOK, Held, TypeOK
<1>4. Ordered'
  BY <1>0, Alone DEF Ordered, Settled, TypeOK
<1>5. NewestKept'
  <2> SUFFICES ASSUME NEW k \in Keys
               PROVE (newest[k] \in {pending[k], stored[k], dropped[k]}
                        \cup {taken[h][k] : h \in {g \in Flushers : k \in left[g]}})'
    BY DEF NewestKept
  <2>1. CASE newest[k] \in {pending[k], dropped[k]}
    BY <2>1
  <2>2. CASE newest[k] = stored[k]
    <3>1. k \in S => taken[f][k] = newest[k]
      BY <1>0, <2>2 DEF Ordered, Settled, TypeOK
    <3>2. stored'[k] = newest'[k]
      BY <2>2, <3>1
    <3> QED BY <3>2
  <2>3. CASE newest[k] \in {taken[h][k] : h \in {g \in Flushers : k \in left[g]}}
    <3>1. newest[k] = taken[f][k] /\ k \in left[f]
      BY <2>3, Alone
    <3>2. CASE k \in S
      BY <3>1, <3>2
    <3>3. CASE k \notin S
      <4>1. k \in left'[f]
        BY <3>1, <3>3 DEF TypeOK
      <4> QED BY <3>1, <4>1
    <3> QED BY <3>2, <3>3
  <2> QED BY <2>1, <2>2, <2>3 DEF NewestKept
<1> QED BY <1>1, <1>2, <1>3, <1>4, <1>5

LEMMA DropsInv ==
    ASSUME Inv, NEW f \in Flushers, NEW k \in left[f], FlushDrops(f, k) PROVE Inv'
<1> USE DEF Inv, FlushDrops, Fail
<1>0. k \in Keys /\ taken[f][k] # 0
  BY DEF LeftOK, Held, TypeOK
<1>1. TypeOK'
  BY <1>0 DEF TypeOK
<1>2. OneFlush' /\ Drained'
  BY DEF OneFlush, Drained
<1>3. LeftOK'
  BY DEF LeftOK, Held, TypeOK
<1>4. Ordered'
  BY <1>0, Alone DEF Ordered, Settled, TypeOK
<1>5. NewestKept'
  <2> SUFFICES ASSUME NEW j \in Keys
               PROVE (newest[j] \in {pending[j], stored[j], dropped[j]}
                        \cup {taken[h][j] : h \in {g \in Flushers : j \in left[g]}})'
    BY DEF NewestKept
  <2>1. CASE newest[j] \in {pending[j], stored[j]}
    BY <2>1
  <2>2. CASE newest[j] = dropped[j]
    <3>1. j = k => taken[f][j] = newest[j]
      BY <1>0, <2>2 DEF Ordered, Settled, TypeOK
    <3>2. dropped'[j] = newest'[j]
      BY <2>2, <3>1 DEF TypeOK
    <3> QED BY <3>2
  <2>3. CASE newest[j] \in {taken[h][j] : h \in {g \in Flushers : j \in left[g]}}
    <3>1. newest[j] = taken[f][j] /\ j \in left[f]
      BY <2>3, Alone
    <3>2. CASE j = k
      BY <3>1, <3>2 DEF TypeOK
    <3>3. CASE j # k
      <4>1. j \in left'[f]
        BY <3>1, <3>3 DEF TypeOK
      <4> QED BY <3>1, <4>1
    <3> QED BY <3>2, <3>3
  <2> QED BY <2>1, <2>2, <2>3 DEF NewestKept
<1> QED BY <1>1, <1>2, <1>3, <1>4, <1>5

\* Keys of the window go back to pending; the callback may return with it.
LEMMA RestoreInv ==
    ASSUME Inv, NEW f \in Flushers, pc[f] = "flush",
           NEW K \in SUBSET Held(taken[f]), NEW L \in SUBSET left[f],
           left[f] \ K \subseteq L,
           pending' = RestoreUnlessReplaced(K, taken[f]),
           left' = [left EXCEPT ![f] = L], failures' \in Nat,
           \/ pc' = pc /\ taken' = taken
           \/ /\ L = {} /\ pc' = [pc EXCEPT ![f] = After(f)]
              /\ taken' = [taken EXCEPT ![f] = Nothing],
           UNCHANGED <<newest, kick, stored, dropped, expired>>
    PROVE  Inv'
<1> USE DEF Inv, RestoreUnlessReplaced
<1>0. K \subseteq Keys /\ \A k \in K : taken[f][k] # 0
  BY DEF Held
<1>1. TypeOK'
  BY <1>0 DEF TypeOK, After, RunAt, CloseAt, Nothing
<1>2. OneFlush' /\ Drained'
  BY DEF OneFlush, Drained, After, TypeOK, RunAt, CloseAt
<1>3. LeftOK'
  BY DEF LeftOK, Held, TypeOK, After
<1>4. Ordered'
  <2>1. \A g \in Flushers : pc'[g] = "flush" => g = f /\ taken' = taken
    BY Alone DEF After, TypeOK
  <2> QED BY <1>0, <2>1 DEF Ordered, Settled, TypeOK
<1>5. NewestKept'
  <2> SUFFICES ASSUME NEW j \in Keys
               PROVE (newest[j] \in {pending[j], stored[j], dropped[j]}
                        \cup {taken[h][j] : h \in {g \in Flushers : j \in left[g]}})'
    BY DEF NewestKept
  <2>1. CASE newest[j] \in {stored[j], dropped[j]}
    BY <2>1
  <2>2. CASE newest[j] = pending[j] /\ pending[j] # 0
    BY <2>2
  <2>3. CASE newest[j] = pending[j] /\ pending[j] = 0
    <3>1. stored'[j] = newest'[j]
      BY <2>3 DEF Ordered, Settled, TypeOK
    <3> QED BY <3>1
  <2>4. CASE newest[j] \in {taken[h][j] : h \in {g \in Flushers : j \in left[g]}}
    <3>1. newest[j] = taken[f][j] /\ j \in left[f] /\ taken[f][j] # 0
      BY <2>4, Alone DEF LeftOK, Held
    <3>2. CASE j \in K
      <4>1. pending'[j] = newest'[j]
        BY <3>1, <3>2 DEF Ordered, TypeOK
      <4> QED BY <4>1
    <3>3. CASE j \notin K
      <4>1. j \in left'[f] /\ j \in L
        BY <3>1, <3>3 DEF TypeOK
      <4>2. taken' = taken
        BY <4>1
      <4> QED BY <3>1, <4>1, <4>2
    <3> QED BY <3>2, <3>3
  <2> QED BY <2>1, <2>2, <2>3, <2>4 DEF NewestKept
<1> QED BY <1>1, <1>2, <1>3, <1>4, <1>5

LEMMA ReturnsInv == ASSUME Inv, NEW f \in Flushers, FlushReturns(f) PROVE Inv'
<1> USE DEF Inv, FlushReturns
<1>1. TypeOK'
  BY DEF TypeOK, After, RunAt, CloseAt, Nothing
<1>2. OneFlush' /\ Drained'
  BY DEF OneFlush, Drained, After, TypeOK, RunAt, CloseAt
<1>3. LeftOK'
  BY DEF LeftOK, Held, TypeOK, After
<1>4. Ordered'
  BY DEF Ordered, Settled, TypeOK, After
<1>5. NewestKept'
  BY DEF NewestKept
<1> QED BY <1>1, <1>2, <1>3, <1>4, <1>5

LEMMA FlushInv ==
    ASSUME Inv, NEW f \in Flushers, Flush(f) \/ FlushFault(f) PROVE Inv'
<1>0. left[f] \in SUBSET Keys /\ failures \in Nat /\ failures + 1 \in Nat
  BY DEF Inv, TypeOK
<1>1. ASSUME NEW S \in SUBSET left[f], FlushLands(f, S) PROVE Inv'
  <2> DEFINE L == left[f] \ S
  <2>1. left' = [left EXCEPT ![f] = L]
    BY <1>1 DEF FlushLands
  <2> QED BY <1>0, <1>1, <2>1, StoreInv DEF FlushLands
<1>2. ASSUME NEW S \in SUBSET left[f], FlushUnsure(f, S) PROVE Inv'
  <2> DEFINE L == left[f]
  <2>1. left' = [left EXCEPT ![f] = L]
    BY <1>2 DEF FlushUnsure, Inv, TypeOK
  <2> QED BY <1>0, <1>2, <2>1, StoreInv DEF FlushUnsure, Fail
<1>3. ASSUME NEW k \in left[f], Requeue(f, k) PROVE Inv'
  <2> DEFINE K == {k}
             L == left[f] \ {k}
  <2>1. K \in SUBSET Held(taken[f])
    BY <1>3 DEF Requeue, Inv, LeftOK
  <2>2. left' = [left EXCEPT ![f] = L] /\ pending' = RestoreUnlessReplaced(K, taken[f])
    BY <1>3 DEF Requeue
  <2> HIDE DEF K
  <2>3. left[f] \ K \subseteq L
    BY DEF K
  <2> QED BY <1>0, <1>3, <2>1, <2>2, <2>3, RestoreInv DEF Requeue, Fail
<1>4. ASSUME FlushFails(f) PROVE Inv'
  <2> DEFINE K == Held(taken[f])
             L == {}
  <2>1. K \in SUBSET Held(taken[f]) /\ left[f] \ K \subseteq L
    BY <1>4 DEF FlushFails, Inv, LeftOK
  <2>2. /\ left' = [left EXCEPT ![f] = L] /\ pending' = RestoreUnlessReplaced(K, taken[f])
        /\ pc' = [pc EXCEPT ![f] = After(f)] /\ pc[f] = "flush"
        /\ taken' = [taken EXCEPT ![f] = Nothing]
    BY <1>4 DEF FlushFails
  <2> HIDE DEF K
  <2> QED BY <1>0, <1>4, <2>1, <2>2, RestoreInv DEF FlushFails, Fail
<1>5. ASSUME NEW k \in left[f] PROVE {k} \in SUBSET left[f]
  BY <1>5
<1> QED
  BY <1>1, <1>2, <1>3, <1>4, <1>5, DropsInv, ReturnsInv DEF Flush, FlushFault

-----------------------------------------------------------------------------
LEMMA NextInv == Inv /\ [Next]_vars => Inv'
<1> SUFFICES ASSUME Inv, [Next]_vars PROVE Inv'
  OBVIOUS
<1>1. CASE \E k \in Keys, v \in 1 .. MaxWrites : Add(k, v)
  <2>1. PICK k \in Keys, v \in Nat : Add(k, v)
    BY <1>1, BoundAssumption
  <2> QED BY <2>1, AddInv
<1>2. CASE \E f \in Flushers : Flush(f) \/ FlushFault(f)
  BY <1>2, FlushInv
<1>3. CASE Tick
  BY <1>3, TakeInv DEF Tick, Inv, TypeOK
<1>4. CASE Kicked
  <2>1. CASE TakePending("run")
    BY <1>4, <2>1, TakeInv DEF Kicked, Inv, TypeOK
  <2>2. CASE ~TakePending("run")
    <3>1. UNCHANGED <<newest, pending, pc, taken, left, stored, dropped, expired, failures>>
          /\ kick' = FALSE
      BY <1>4, <2>2 DEF Kicked
    <3> QED BY <3>1 DEF Inv, TypeOK, OneFlush, LeftOK, Ordered, Settled, NewestKept,
                        Drained, Held
  <2> QED BY <2>1, <2>2
<1>5. CASE Stopped
  BY <1>5, GoInv DEF Stopped, Inv, TypeOK
<1>6. CASE Close
  BY <1>6, GoInv DEF Close, CloseAt, Inv, TypeOK
<1>7. CASE CloseWaits
  BY <1>7, GoInv DEF CloseWaits, CloseAt, Inv, TypeOK
<1>8. CASE CloseFlushes
  BY <1>8, TakeInv DEF CloseFlushes, Inv, TypeOK
<1>9. CASE CloseReturns
  <2>1. pending = Nothing
    BY <1>9 DEF CloseReturns, Held, Nothing, Inv, TypeOK
  <2> QED BY <1>9, <2>1, GoInv DEF CloseReturns, CloseAt, Inv, TypeOK, OneFlush
<1>10. CASE CloseRetries
  BY <1>10, GoInv DEF CloseRetries, CloseAt, Inv, TypeOK, OneFlush
<1>11. CASE CloseExpires
  BY <1>11, GoInv DEF CloseExpires, CloseAt, Inv, TypeOK, OneFlush
<1>12. CASE UNCHANGED vars
  BY <1>12 DEF vars, Inv, TypeOK, OneFlush, LeftOK, Ordered, Settled, NewestKept,
               Drained, Held
<1> QED
  BY <1>1, <1>2, <1>3, <1>4, <1>5, <1>6, <1>7, <1>8, <1>9, <1>10, <1>11, <1>12
  DEF Next, Goroutine, Closer

LEMMA BatcherInvariant == Spec => []Inv
<1> QED BY InvInit, NextInv, PTL DEF Spec

\* The state of the batcher keeps its types.
THEOREM TypeCorrect == Spec => []TypeOK
<1>1. Inv => TypeOK
  BY DEF Inv
<1> QED BY <1>1, BatcherInvariant, PTL

\* No newest write is forgotten, whichever flushes fail or overlap with Add.
THEOREM NothingForgotten == Spec => []NewestKept
<1>1. Inv => NewestKept
  BY DEF Inv
<1> QED BY <1>1, BatcherInvariant, PTL

\* Close returns before its context ends only with every write settled.
THEOREM CloseComplete == Spec => []CloseDrains
<1>1. Inv => CloseDrains
  <2> SUFFICES ASSUME Inv, pc["close"] = "closed", ~expired, NEW k \in Keys
               PROVE  newest[k] \in {stored[k], dropped[k]}
    BY DEF CloseDrains
  <2>1. \A f \in Flushers : left[f] = {}
    BY DEF Inv, LeftOK, OneFlush
  <2>2. newest[k] \in {pending[k], stored[k], dropped[k]}
    BY <2>1 DEF Inv, NewestKept
  <2>3. pending[k] = 0 /\ (newest[k] = 0 => stored[k] = 0)
    BY DEF Inv, Drained, Nothing, Ordered, Settled, TypeOK
  <2> QED BY <2>2, <2>3
<1> QED BY <1>1, BatcherInvariant, PTL

-----------------------------------------------------------------------------
LEMMA StoreForward ==
    ASSUME Inv, NEW f \in Flushers, pc[f] = "flush", NEW S \in SUBSET left[f],
           stored' = [k \in Keys |-> IF k \in S THEN taken[f][k] ELSE stored[k]],
           UNCHANGED <<newest, dropped, expired>>
    PROVE  Promise!Settle
<1>1. \A k \in S : k \in Keys /\ taken[f][k] # 0
  BY DEF Inv, LeftOK, Held, TypeOK
<1> QED BY <1>1 DEF Promise!Settle, Promise!Forward, Inv, TypeOK, Ordered, Settled

LEMMA DropForward ==
    ASSUME Inv, NEW f \in Flushers, NEW k \in left[f], FlushDrops(f, k)
    PROVE  Promise!Settle
<1>1. k \in Keys /\ taken[f][k] # 0 /\ pc[f] = "flush"
  BY DEF FlushDrops, Inv, LeftOK, Held, TypeOK
<1> QED BY <1>1 DEF FlushDrops, Promise!Settle, Promise!Forward, Inv, TypeOK, Ordered,
                    Settled

LEMMA StepPromised == Inv /\ [Next]_vars => [Promise!Next]_(Promise!vars)
<1> SUFFICES ASSUME Inv, [Next]_vars PROVE [Promise!Next]_(Promise!vars)
  OBVIOUS
<1> USE DEF Promise!Next, Promise!vars
<1>1. CASE \E k \in Keys, v \in 1 .. MaxWrites : Add(k, v)
  <2>1. PICK k \in Keys, v \in Nat : Add(k, v)
    BY <1>1, BoundAssumption
  <2>2. newest' \in [Keys -> Nat] /\ newest'[k] = v
    BY <2>1 DEF Add, Inv, TypeOK
  <2> QED BY <2>1, <2>2 DEF Add, Promise!Accept
<1>2. ASSUME NEW f \in Flushers, Flush(f) \/ FlushFault(f)
      PROVE  [Promise!Next]_(Promise!vars)
  <2>1. ASSUME NEW S \in SUBSET left[f], FlushLands(f, S) \/ FlushUnsure(f, S)
        PROVE  Promise!Settle
    BY <2>1, StoreForward DEF FlushLands, FlushUnsure
  <2>2. ASSUME NEW k \in left[f] PROVE {k} \in SUBSET left[f]
    BY <2>2
  <2>3. CASE FlushReturns(f) \/ FlushFails(f) \/ \E k \in left[f] : Requeue(f, k)
    BY <2>3 DEF FlushReturns, FlushFails, Requeue
  <2> QED BY <1>2, <2>1, <2>2, <2>3, DropForward DEF Flush, FlushFault
<1>3. CASE CloseExpires
  BY <1>3 DEF CloseExpires, Go, Promise!Abandon
<1>4. CASE Tick \/ Kicked \/ Stopped \/ Close \/ CloseWaits \/ CloseFlushes
             \/ CloseReturns \/ CloseRetries \/ UNCHANGED vars
  BY <1>4 DEF Tick, Kicked, Stopped, Close, CloseWaits, CloseFlushes, CloseReturns,
              CloseRetries, TakePending, Go, vars
<1> QED BY <1>1, <1>2, <1>3, <1>4 DEF Next, Goroutine, Closer

\* The batcher implements WriteBehind: whatever fails, the store moves only
\* forward, to writes that were accepted, one flush at a time.
THEOREM PromiseKept == Spec => KeepsPromise
<1>1. Init => Promise!Init
  BY DEF Init, Promise!Init, Nothing
<1>2. Inv /\ [Next]_vars => [Promise!Next]_(Promise!vars)
  BY StepPromised
<1> QED BY <1>1, <1>2, BatcherInvariant, PTL DEF Spec, KeepsPromise, Promise!Spec
==============================================================================
