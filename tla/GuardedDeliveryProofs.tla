------------------------ MODULE GuardedDeliveryProofs ------------------------
(***************************************************************************)
(* The handler runs once more only for a named reason, and an acknowledged *)
(* message was handled unless a named fault happened: for any number of    *)
(* pods, deliveries, faults and failing runs.                              *)
(***************************************************************************)
EXTENDS GuardedDelivery, FiniteSetTheorems, TLAPS

\* Runs that count against the claim: under way, or failed and not released yet.
Held == {"handle", "open"} \cup Releasing
Active == {n \in Deliveries : at[n] \in Held}

\* A free claim leaves room for one more run.
ClaimAccounted ==
    /\ succeeded + Cardinality(Active) <= 1 + lapses
    /\ ~claim => succeeded + Cardinality(Active) <= lapses

\* Without a lossy fault one delivery is alive at a time, it is the last one, it
\* holds whatever claim there is before a run succeeded, and is acknowledged after.
OneAtATime ==
    /\ \A n \in Deliveries :
         at[n] \notin {"none", "done"} =>
            n = delivered /\ n \in watched /\ status # "ready"
    /\ claim \/ cached # {} =>
         \/ succeeded > 0
         \/ /\ delivered \in Deliveries /\ at[delivered] \in {"handle"} \cup Releasing
            /\ cached \subseteq {pod[delivered]}
    /\ \A n \in Deliveries : at[n] \in {"ack", "unsure"} => succeeded > 0
    /\ status = "acked" => succeeded > 0

-----------------------------------------------------------------------------
LEMMA ActiveFinite == IsFiniteSet(Active) /\ Cardinality(Active) \in Nat
<1>1. IsFiniteSet(Deliveries)
  BY FS_Interval, LaneAssumption DEF Deliveries
<1>2. Active \in SUBSET Deliveries
  BY DEF Active
<1> QED BY <1>1, <1>2, FS_Subset, FS_CardinalityType

\* One delivery moves: the count moves by at most one.
LEMMA ActiveMoves ==
  ASSUME TypeOK, NEW n \in Deliveries, NEW to \in Stages, Go(n, to)
  PROVE  /\ to \in Held => Active' = Active \cup {n}
         /\ to \notin Held => Active' = Active \ {n}
BY DEF TypeOK, Active, Go, Held, Releasing

LEMMA Counts ==
  ASSUME TypeOK, NEW n \in Deliveries, NEW to \in Stages, Go(n, to)
  PROVE  /\ Cardinality(Active') \in Nat /\ Cardinality(Active) \in Nat
         /\ Cardinality(Active') =
              Cardinality(Active)
              + (IF to \in Held /\ n \notin Active THEN 1 ELSE 0)
              - (IF to \notin Held /\ n \in Active THEN 1 ELSE 0)
<1>1. IsFiniteSet(Active) /\ Cardinality(Active) \in Nat
  BY ActiveFinite
<1>2. CASE to \in Held
  <2>1. Active' = Active \cup {n}
    BY <1>2, ActiveMoves
  <2>2. Cardinality(Active \cup {n}) = IF n \in Active THEN Cardinality(Active)
                                     ELSE Cardinality(Active) + 1
    BY <1>1, FS_AddElement
  <2> QED BY <1>1, <1>2, <2>1, <2>2
<1>3. CASE to \notin Held
  <2>1. Active' = Active \ {n}
    BY <1>3, ActiveMoves
  <2>2. Cardinality(Active') \in Nat
    BY <1>1, <2>1, FS_RemoveElement, FS_CardinalityType
  <2>3. Cardinality(Active \ {n}) = IF n \in Active THEN Cardinality(Active) - 1
                                   ELSE Cardinality(Active)
    BY <1>1, FS_RemoveElement
  <2> QED BY <1>1, <1>3, <2>1, <2>2, <2>3
<1> QED BY <1>2, <1>3

-----------------------------------------------------------------------------
\* A delivery that is anywhere was made, and is on a pod.
OnPods == \A n \in Deliveries : at[n] # "none" => pod[n] \in Pods /\ n <= delivered

TypeInv == TypeOK /\ OnPods

\* TypeInv but for the claim and the dead letter.
ShapeOK ==
    /\ lane \in Lanes /\ status \in {"ready", "out"} \cup Settled
    /\ delivered \in 0 .. MaxDeliver
    /\ at \in [Deliveries -> Stages] /\ pod \in [Deliveries -> Pods \cup {NoPod}]
    /\ watched \subseteq Deliveries /\ cached \subseteq Pods
    /\ status = "ready" => delivered < MaxDeliver
    /\ \A n \in watched : at[n] \notin {"none", "done"}
    /\ succeeded \in Nat /\ failed \in Nat /\ deferred \in Nat /\ unrun \in Nat
    /\ lapses \in Nat /\ faults \in 0 .. MaxFaults
    /\ happened \subseteq Faults /\ OnPods

FlagsOK == claim \in BOOLEAN /\ letter \in BOOLEAN /\ (letter => lane = "data")

LEMMA Shape == TypeInv <=> ShapeOK /\ FlagsOK
BY DEF TypeInv, TypeOK, ShapeOK, FlagsOK

LEMMA TypeInit == Init => TypeInv
<1> SUFFICES ASSUME Init PROVE TypeInv
  OBVIOUS
<1>1. FlagsOK
  BY Zenon DEF Init, FlagsOK
<1>2. ShapeOK
  BY LaneAssumption, PodAssumption, BoundAssumption
     DEF Init, ShapeOK, OnPods, Stages, Refusals, Deliveries, Settled
<1> QED BY <1>1, <1>2, Shape

LEMMA LetterStep == letter \in BOOLEAN /\ [Next]_vars =>
  /\ lane' = lane /\ letter' \in BOOLEAN
  /\ letter' = letter \/ lane = "data"
BY Zenon DEF Next, Broker, Handle, vars, Deliver, AckWaitPasses, AgesOut, ClaimExpires,
   EvictLocal, Crash, Lookup, ClaimOnce, Succeed, Release, Answer, Park, Fail, StoreFails,
   Unwind, GiveUp, AckLost, BrokerUnchanged, LaneUnchanged

LEMMA ClaimStep == claim \in BOOLEAN /\ [Next]_vars => claim' \in BOOLEAN
BY Zenon DEF Next, Broker, Handle, vars, Deliver, AckWaitPasses, AgesOut, ClaimExpires,
   EvictLocal, Crash, Lookup, ClaimOnce, Succeed, Release, Answer, Park, Fail, StoreFails,
   Unwind, GiveUp, AckLost, ClaimUnchanged

LEMMA FlagsStep == TypeOK /\ [Next]_vars => FlagsOK'
<1> SUFFICES ASSUME TypeOK, [Next]_vars PROVE FlagsOK'
  OBVIOUS
<1>1. claim \in BOOLEAN /\ letter \in BOOLEAN /\ (letter => lane = "data")
  BY Zenon DEF TypeOK
<1>2. claim' \in BOOLEAN
  BY <1>1, ClaimStep, Zenon
<1>3. lane' = lane /\ letter' \in BOOLEAN /\ (letter' = letter \/ lane = "data")
  BY <1>1, LetterStep, Zenon
<1> QED BY <1>1, <1>2, <1>3, Zenon DEF FlagsOK

LEMMA ShapeStep == TypeInv /\ [Next]_vars => ShapeOK'
<1> SUFFICES ASSUME TypeInv, [Next]_vars PROVE ShapeOK'
  OBVIOUS
<1> USE LaneAssumption, PodAssumption, BoundAssumption
<1> USE DEF ShapeOK, OnPods, Stages, Refusals, Deliveries, Settled, Go, LaneUnchanged,
        BrokerUnchanged, ClaimUnchanged, FailuresUnchanged, HistoryUnchanged, faultVars, Fault
<1>0. ShapeOK
  BY Shape
<1>1. CASE UNCHANGED vars
  BY <1>0, <1>1 DEF vars
<1>2. ASSUME NEW p \in Pods, Deliver(p) PROVE ShapeOK'
  <2> DEFINE n == delivered + 1
  <2>1. /\ n \in Deliveries /\ status' = "out" /\ delivered' = n
        /\ pod' = [pod EXCEPT ![n] = p] /\ UNCHANGED <<lane, cached, succeeded, failed>>
        /\ UNCHANGED <<deferred, lapses>>
    BY <1>0, <1>2 DEF Deliver
  <2>2. CASE Go(n, "lookup") /\ watched' = watched \cup {n} /\ UNCHANGED <<unrun, faults, happened>>
    BY <1>0, <2>1, <2>2
  <2>3. CASE Go(n, "done") /\ Fault("unrun") /\ unrun' = unrun + 1 /\ UNCHANGED watched
    <3>1. n \notin watched
      BY <1>0, <2>1, <1>2 DEF Deliver
    <3> QED BY <1>0, <2>1, <2>3, <3>1
  <2> QED BY <1>2, <2>2, <2>3 DEF Deliver
<1>3. CASE AckWaitPasses \/ AgesOut
  <2>1. CASE AckWaitPasses
    <3>1. status' \in {"ready", "exhausted"} /\ (status' = "ready" => delivered < MaxDeliver)
      BY <2>1 DEF AckWaitPasses, Redelivered
    <3>2. UNCHANGED <<lane, delivered, at, pod, watched, cached, succeeded, failed, deferred>>
          /\ UNCHANGED <<unrun, lapses, faults, happened>>
      BY <2>1 DEF AckWaitPasses
    <3> QED BY <1>0, <3>1, <3>2
  <2>2. CASE AgesOut
    BY <1>0, <2>2 DEF AgesOut
  <2> QED BY <1>3, <2>1, <2>2
<1>4. CASE ClaimExpires
  BY <1>0, <1>4 DEF ClaimExpires
<1>5. ASSUME NEW p \in Pods, EvictLocal(p) PROVE ShapeOK'
  BY <1>0, <1>5 DEF EvictLocal
<1>6. ASSUME NEW p \in Pods, Crash(p) PROVE ShapeOK'
  <2> DEFINE dead == {n \in Deliveries : pod[n] = p /\ at[n] \notin {"none", "done"}}
  <2>1. /\ at' = [n \in Deliveries |-> IF n \in dead THEN "done" ELSE at[n]]
        /\ watched' = watched \ dead /\ cached' = cached \ {p} /\ lapses' = lapses + 1
        /\ UNCHANGED <<lane, status, delivered, pod, succeeded>> /\ Fault("crash")
        /\ UNCHANGED <<failed, deferred, unrun>>
    BY <1>6 DEF Crash
  <2>2. at' \in [Deliveries -> Stages] /\ \A n \in watched' : at'[n] \notin {"none", "done"}
    BY <1>0, <2>1
  <2>3. watched' \subseteq Deliveries /\ cached' \subseteq Pods
    BY <1>0, <2>1
  <2>4. faults' \in 0 .. MaxFaults /\ happened' \subseteq Faults /\ lapses' \in Nat
    BY <1>0, <2>1
  <2>5. OnPods'
    BY <1>0, <2>1
  <2> HIDE DEF dead
  <2> QED BY <1>0, <2>1, <2>2, <2>3, <2>4, <2>5
<1>7. ASSUME NEW n \in Deliveries, Lookup(n) PROVE ShapeOK'
  BY <1>0, <1>7 DEF Lookup, Duplicate
<1>8. ASSUME NEW n \in Deliveries, ClaimOnce(n) PROVE ShapeOK'
  <2>1. /\ at[n] = "store" /\ cached' = cached \cup {pod[n]}
        /\ UNCHANGED <<lane, status, delivered, pod, watched, succeeded, lapses>>
        /\ UNCHANGED <<failed, deferred, unrun, faults, happened>>
    BY <1>8 DEF ClaimOnce
  <2>2. at' = [at EXCEPT ![n] = "ack"] \/ at' = [at EXCEPT ![n] = "handle"]
    BY <1>8, Zenon DEF ClaimOnce, Duplicate
  <2>3. pod[n] \in Pods
    BY <1>0, <2>1
  <2> QED BY <1>0, <2>1, <2>2, <2>3
<1>9. ASSUME NEW n \in Deliveries, Succeed(n) PROVE ShapeOK'
  BY <1>0, <1>9 DEF Succeed, Running
<1>10. ASSUME NEW n \in Deliveries, Release(n) PROVE ShapeOK'
  BY <1>0, <1>10 DEF Release, Releasing, Forgotten
<1>11. ASSUME NEW n \in Deliveries, NEW word \in {"ack", "term"} \cup Refusals, Answer(n, word)
       PROVE  ShapeOK'
  <2>1. /\ at' = [at EXCEPT ![n] = "done"] /\ watched' = watched \ {n}
        /\ UNCHANGED <<lane, delivered, pod, cached, succeeded, lapses, failed, deferred>>
        /\ UNCHANGED <<unrun, faults, happened>>
    BY <1>11 DEF Answer
  <2>2. at[n] # "none"
    BY <1>11 DEF Answer
  <2>3. \/ status' = status \/ status' \in {"acked", "terminated", "exhausted"}
        \/ status' = "ready" /\ delivered < MaxDeliver
    BY <1>11 DEF Answer, Redelivered
  <2> QED BY <1>0, <2>1, <2>2, <2>3
<1>12. ASSUME NEW n \in Deliveries, Park(n) \/ Unwind(n) PROVE ShapeOK'
  <2>1. CASE Park(n)
    BY <1>0, <2>1 DEF Park
  <2>2. CASE Unwind(n)
    BY <1>0, <2>2 DEF Unwind
  <2> QED BY <1>12, <2>1, <2>2
<1>13. ASSUME NEW n \in Deliveries, Fail(n) PROVE ShapeOK'
  BY <1>0, <1>13 DEF Fail, Running
<1>14. ASSUME NEW n \in Deliveries, StoreFails(n) PROVE ShapeOK'
  BY <1>0, <1>14 DEF StoreFails, FailOpen
<1>15. ASSUME NEW n \in Deliveries, GiveUp(n) PROVE ShapeOK'
  BY <1>0, <1>15 DEF GiveUp
<1>16. ASSUME NEW n \in Deliveries, AckLost(n) PROVE ShapeOK'
  <2>1. \/ at' = [at EXCEPT ![n] = "unsure"] /\ UNCHANGED watched
        \/ at' = [at EXCEPT ![n] = "done"] /\ watched' = watched \ {n}
    BY <1>16 DEF AckLost
  <2>2. /\ UNCHANGED <<lane, status, delivered, pod, cached, succeeded, failed, deferred>>
        /\ UNCHANGED <<unrun, lapses>> /\ at[n] = "ack" /\ Fault("ack")
    BY <1>16 DEF AckLost
  <2>3. CASE at' = [at EXCEPT ![n] = "unsure"] /\ UNCHANGED watched
    BY <1>0, <2>2, <2>3
  <2>4. CASE at' = [at EXCEPT ![n] = "done"] /\ watched' = watched \ {n}
    BY <1>0, <2>2, <2>4
  <2> QED BY <2>1, <2>3, <2>4
<1> QED BY <1>1, <1>2, <1>3, <1>4, <1>5, <1>6, <1>7, <1>8, <1>9, <1>10, <1>11, <1>12,
           <1>13, <1>14, <1>15, <1>16 DEF Next, Broker, Handle

LEMMA TypeStep == TypeInv /\ [Next]_vars => TypeInv'
<1> SUFFICES ASSUME TypeInv, [Next]_vars PROVE TypeInv'
  OBVIOUS
<1>1. ShapeOK' /\ FlagsOK'
  BY ShapeStep, FlagsStep DEF TypeInv
<1> QED BY <1>1 DEF TypeInv, TypeOK, ShapeOK, FlagsOK, OnPods

\* The guard's state is what it is said to be (Seen, runClaimed, the subscriber).
THEOREM TypeCorrect == Spec => []TypeOK
BY TypeInit, TypeStep, PTL DEF Spec, TypeInv

-----------------------------------------------------------------------------
LEMMA AccountedInit == Init => ClaimAccounted
<1> SUFFICES ASSUME Init PROVE ClaimAccounted
  OBVIOUS
<1>1. Active = {}
  BY DEF Init, Active, Held, Releasing
<1>2. Cardinality(Active) = 0
  BY <1>1, FS_EmptySet
<1> QED BY <1>2 DEF Init, ClaimAccounted

LEMMA AccountedStep == TypeOK /\ TypeOK' /\ ClaimAccounted /\ [Next]_vars => ClaimAccounted'
<1> SUFFICES ASSUME TypeOK, TypeOK', ClaimAccounted, [Next]_vars PROVE ClaimAccounted'
  OBVIOUS
<1>0. /\ succeeded \in Nat /\ lapses \in Nat /\ Cardinality(Active) \in Nat
      /\ at \in [Deliveries -> Stages]
  BY ActiveFinite DEF TypeOK
<1>00. \A n \in Deliveries : n \in Active <=> at[n] \in Held
  BY DEF Active
<1> USE DEF ClaimAccounted, LaneUnchanged, BrokerUnchanged, ClaimUnchanged, FailuresUnchanged,
        HistoryUnchanged, faultVars, Held, Releasing
<1>1. CASE UNCHANGED vars
  BY <1>1 DEF vars, Active
<1>2. ASSUME NEW p \in Pods, Deliver(p) PROVE ClaimAccounted'
  <2>1. delivered + 1 \in Deliveries
    BY <1>2, LaneAssumption DEF Deliver, TypeOK, Deliveries
  <2>2. /\ Go(delivered + 1, "lookup") \/ Go(delivered + 1, "done")
        /\ UNCHANGED <<claim, succeeded, lapses>>
    BY <1>2 DEF Deliver
  <2> QED BY <1>0, <2>1, <2>2, Counts DEF Stages
<1>3. CASE AckWaitPasses \/ AgesOut
  BY <1>3 DEF AckWaitPasses, AgesOut, Active
<1>4. CASE ClaimExpires
  <2>1. UNCHANGED <<Active, succeeded>> /\ lapses' = lapses + 1
    BY <1>4 DEF ClaimExpires, Active
  <2> QED BY <1>0, <2>1
<1>5. ASSUME NEW p \in Pods, EvictLocal(p) PROVE ClaimAccounted'
  BY <1>5 DEF EvictLocal, Active
<1>6. ASSUME NEW p \in Pods, Crash(p) PROVE ClaimAccounted'
  <2>1. Active' \in SUBSET Active
    BY <1>0, <1>6 DEF Crash, Active
  <2>2. Cardinality(Active') <= Cardinality(Active) /\ Cardinality(Active') \in Nat
    BY <2>1, ActiveFinite, FS_Subset, FS_CardinalityType
  <2>3. lapses' = lapses + 1 /\ UNCHANGED <<claim, succeeded>>
    BY <1>6 DEF Crash
  <2> QED BY <1>0, <2>2, <2>3
<1>7. ASSUME NEW n \in Deliveries, Lookup(n) PROVE ClaimAccounted'
  <2>1. at[n] = "lookup" /\ UNCHANGED <<claim, succeeded, lapses>>
        /\ (Go(n, "ack") \/ Go(n, "store"))
    BY <1>7 DEF Lookup, Duplicate
  <2> QED BY <1>0, <1>00, <2>1, Counts DEF Stages
<1>8. ASSUME NEW n \in Deliveries, ClaimOnce(n) PROVE ClaimAccounted'
  <2>1. at[n] = "store" /\ claim' /\ UNCHANGED <<succeeded, lapses>>
    BY <1>8 DEF ClaimOnce
  <2>2. CASE claim
    <3>1. Go(n, "ack")
      BY <1>8, <2>2 DEF ClaimOnce, Duplicate
    <3> QED BY <1>0, <1>00, <2>1, <2>2, <3>1, Counts DEF Stages
  <2>3. CASE ~claim
    <3>1. Go(n, "handle")
      BY <1>8, <2>3 DEF ClaimOnce
    <3> QED BY <1>0, <1>00, <2>1, <2>3, <3>1, Counts DEF Stages
  <2> QED BY <2>2, <2>3
<1>9. ASSUME NEW n \in Deliveries, Succeed(n) PROVE ClaimAccounted'
  <2>1. at[n] \in {"handle", "open"} /\ Go(n, "ack") /\ succeeded' = succeeded + 1
        /\ UNCHANGED <<claim, lapses>>
    BY <1>9 DEF Succeed, Running
  <2> QED BY <1>0, <1>00, <2>1, Counts DEF Stages
<1>10. ASSUME NEW n \in Deliveries, Release(n) PROVE ClaimAccounted'
  <2>1. at[n] \in Releasing /\ (Go(n, "nack") \/ Go(n, "defer"))
        /\ UNCHANGED <<succeeded, lapses>>
    BY <1>10 DEF Release
  <2>2. Cardinality(Active') = Cardinality(Active) - 1
    BY <1>0, <1>00, <2>1, Counts DEF Stages, Refusals
  <2> QED BY <1>0, <2>1, <2>2
<1>11. ASSUME NEW n \in Deliveries, NEW word \in {"ack", "term"} \cup Refusals, Answer(n, word)
       PROVE  ClaimAccounted'
  <2>1. at[n] \in {"ack", "term"} \cup Refusals /\ Go(n, "done")
        /\ UNCHANGED <<claim, succeeded, lapses>>
    BY <1>11 DEF Answer
  <2> QED BY <1>0, <1>00, <2>1, Counts DEF Stages, Refusals
<1>12. ASSUME NEW n \in Deliveries, Park(n) \/ Unwind(n) PROVE ClaimAccounted'
  <2>1. at[n] \in {"lookup"} \cup Refusals /\ (Go(n, "done") \/ Go(n, "term"))
        /\ UNCHANGED <<claim, succeeded, lapses>>
    BY <1>12 DEF Park, Unwind
  <2> QED BY <1>0, <1>00, <2>1, Counts DEF Stages, Refusals
<1>13. ASSUME NEW n \in Deliveries, Fail(n) PROVE ClaimAccounted'
  <2>1. at[n] \in {"handle", "open"} /\ UNCHANGED <<claim, succeeded, lapses>>
    BY <1>13 DEF Fail, Running
  <2>2. Go(n, "release") \/ Go(n, "nack") \/ Go(n, "later") \/ Go(n, "defer")
    BY <1>13, Zenon DEF Fail
  <2> QED BY <1>0, <1>00, <2>1, <2>2, Counts DEF Stages, Refusals
<1>14. ASSUME NEW n \in Deliveries, StoreFails(n) PROVE ClaimAccounted'
  <2>1. at[n] = "store" /\ Go(n, "open") /\ lapses' = lapses + 1 /\ UNCHANGED succeeded
        /\ (claim => claim')
    BY <1>14 DEF StoreFails
  <2>2. Cardinality(Active') = Cardinality(Active) + 1
    BY <1>0, <1>00, <2>1, Counts DEF Stages
  <2> QED BY <1>0, <2>1, <2>2
<1>15. ASSUME NEW n \in Deliveries, GiveUp(n) PROVE ClaimAccounted'
  BY <1>15 DEF GiveUp, Active
<1>16. ASSUME NEW n \in Deliveries, AckLost(n) PROVE ClaimAccounted'
  <2>1. at[n] = "ack" /\ (Go(n, "done") \/ Go(n, "unsure"))
        /\ UNCHANGED <<claim, succeeded, lapses>>
    BY <1>16 DEF AckLost
  <2> QED BY <1>0, <1>00, <2>1, Counts DEF Stages, Refusals
<1> QED BY <1>1, <1>2, <1>3, <1>4, <1>5, <1>6, <1>7, <1>8, <1>9, <1>10, <1>11,
           <1>12, <1>13, <1>14, <1>15, <1>16 DEF Next, Broker, Handle

LEMMA RunningActive == TypeOK /\ ClaimAccounted => RunsAccounted
<1> SUFFICES ASSUME TypeOK, ClaimAccounted PROVE RunsAccounted
  OBVIOUS
<1>1. Running \in SUBSET Active
  BY DEF Running, Active, Held
<1>2. Cardinality(Running) <= Cardinality(Active) /\ Cardinality(Running) \in Nat
  BY <1>1, ActiveFinite, FS_Subset, FS_CardinalityType
<1> QED BY <1>2, ActiveFinite DEF TypeOK, ClaimAccounted, RunsAccounted

\* Redeliveries, lost acknowledgements and several pods never run the handler
\* twice: every further run is paid for by a fail-open, a crash or an expired
\* claim (guardOne, runClaimed, Release).
THEOREM RunsPaidFor == Spec => []RunsAccounted
<1>1. Init => TypeInv /\ ClaimAccounted
  BY TypeInit, AccountedInit
<1>2. TypeInv /\ ClaimAccounted /\ [Next]_vars => (TypeInv /\ ClaimAccounted)'
  BY TypeStep, AccountedStep DEF TypeInv
<1> QED BY <1>1, <1>2, RunningActive, PTL DEF Spec, TypeInv

-----------------------------------------------------------------------------
LEMMA AloneInit == Init => OneAtATime
BY DEF Init, OneAtATime

\* Either a lossy fault happened, now or earlier, or one delivery was alive.
LEMMA AloneStep ==
  TypeInv /\ TypeInv' /\ (Lossy \/ OneAtATime) /\ [Next]_vars => (Lossy \/ OneAtATime)'
<1> SUFFICES ASSUME TypeInv, TypeInv', Lossy \/ OneAtATime, [Next]_vars, ~Lossy'
             PROVE  OneAtATime'
  BY DEF Lossy
<1>a. happened \subseteq happened'
  BY Zenon DEF Next, Broker, Handle, vars, Deliver, AckWaitPasses, AgesOut, ClaimExpires,
     EvictLocal, Crash, Lookup, ClaimOnce, Succeed, Release, Answer, Park, Fail, StoreFails,
     Unwind, GiveUp, AckLost, faultVars, Fault
<1>b. OneAtATime
  BY <1>a DEF Lossy
<1>0. /\ at \in [Deliveries -> Stages] /\ pod \in [Deliveries -> Pods \cup {NoPod}]
      /\ succeeded \in Nat /\ delivered \in 0 .. MaxDeliver
  BY DEF TypeInv, TypeOK
<1> USE DEF OneAtATime, Go, LaneUnchanged, BrokerUnchanged, ClaimUnchanged, FailuresUnchanged,
        HistoryUnchanged, faultVars, Refusals
<1>1. CASE UNCHANGED vars
  BY <1>b, <1>1 DEF vars
<1>2. ASSUME NEW p \in Pods, Deliver(p) PROVE OneAtATime'
  <2> DEFINE n == delivered + 1
  <2>1. n \in Deliveries /\ status = "ready" /\ status' = "out" /\ delivered' = n
    BY <1>0, <1>2, LaneAssumption DEF Deliver, Deliveries
  <2>2. /\ (Go(n, "lookup") /\ watched' = watched \cup {n}) \/ Go(n, "done")
        /\ UNCHANGED <<claim, cached, succeeded>>
    BY <1>2 DEF Deliver
  <2>3. \A m \in Deliveries : at[m] \in {"none", "done"}
    BY <1>b, <2>1
  <2>4. claim \/ cached # {} => succeeded > 0
    BY <1>b, <2>1, <2>3, <1>0 DEF Releasing
  <2> QED BY <1>b, <1>0, <2>1, <2>2, <2>3, <2>4
<1>3. CASE AckWaitPasses \/ AgesOut
  BY <1>b, <1>0, <1>3 DEF AckWaitPasses, AgesOut, Redelivered
<1>4. CASE ClaimExpires
  BY <1>b, <1>4 DEF ClaimExpires
<1>5. ASSUME NEW p \in Pods, EvictLocal(p) PROVE OneAtATime'
  BY <1>b, <1>5 DEF EvictLocal
<1>6. ASSUME NEW p \in Pods, Crash(p) PROVE OneAtATime'
  BY <1>6 DEF Crash, Fault, Lossy
<1>7. ASSUME NEW n \in Deliveries, Lookup(n) PROVE OneAtATime'
  BY <1>b, <1>0, <1>7 DEF Lookup, Duplicate, Releasing, Stages
<1>8. ASSUME NEW n \in Deliveries, ClaimOnce(n) PROVE OneAtATime'
  BY <1>b, <1>0, <1>8 DEF ClaimOnce, Duplicate, Releasing, Stages
<1>9. ASSUME NEW n \in Deliveries, Succeed(n) PROVE OneAtATime'
  BY <1>b, <1>0, <1>9 DEF Succeed, Running, Releasing, Stages
<1>10. ASSUME NEW n \in Deliveries, Release(n) PROVE OneAtATime'
  <2>1. UNCHANGED faultVars /\ claim' = FALSE
    BY <1>10 DEF Release, Fault, Lossy
  <2> QED BY <1>b, <1>0, <1>10, <2>1 DEF Release, Releasing, Forgotten, Stages
<1>11. ASSUME NEW n \in Deliveries, NEW word \in {"ack", "term"} \cup Refusals, Answer(n, word)
       PROVE  OneAtATime'
  BY <1>b, <1>0, <1>11 DEF Answer, Redelivered, Releasing, Stages
<1>12. ASSUME NEW n \in Deliveries, Park(n) \/ Unwind(n) PROVE OneAtATime'
  BY <1>b, <1>0, <1>12 DEF Park, Unwind, Releasing, Stages
<1>13. ASSUME NEW n \in Deliveries, Fail(n) PROVE OneAtATime'
  BY <1>b, <1>0, <1>13 DEF Fail, Running, Releasing, Stages
<1>14. ASSUME NEW n \in Deliveries, StoreFails(n) PROVE OneAtATime'
  <2>1. UNCHANGED claim
    BY <1>14 DEF StoreFails, Fault, Lossy
  <2> QED BY <1>b, <1>0, <1>14, <2>1 DEF StoreFails, FailOpen, Releasing, Stages
<1>15. ASSUME NEW n \in Deliveries, GiveUp(n) PROVE OneAtATime'
  BY <1>15 DEF GiveUp, Fault, Lossy
<1>16. ASSUME NEW n \in Deliveries, AckLost(n) PROVE OneAtATime'
  BY <1>b, <1>0, <1>16 DEF AckLost, Releasing, Stages
<1> QED BY <1>1, <1>2, <1>3, <1>4, <1>5, <1>6, <1>7, <1>8, <1>9, <1>10, <1>11, <1>12,
           <1>13, <1>14, <1>15, <1>16 DEF Next, Broker, Handle

\* An acknowledged message was handled: a duplicate is dropped only in favour of
\* a run that counts, unless a watch gave up, a pod died, a release failed or
\* Valkey took a claim and did not say so (guardOne, resolve).
THEOREM AckedHandled == Spec => []AckedWasHandled
<1>1. Init => TypeInv /\ (Lossy \/ OneAtATime)
  BY TypeInit, AloneInit
<1>2. TypeInv /\ (Lossy \/ OneAtATime) /\ [Next]_vars => (TypeInv /\ (Lossy \/ OneAtATime))'
  BY TypeStep, AloneStep
<1>3. TypeInv /\ (Lossy \/ OneAtATime) => AckedWasHandled
  BY DEF OneAtATime, AckedWasHandled
<1> QED BY <1>1, <1>2, <1>3, PTL DEF Spec
=============================================================================
