----------------------- MODULE GiveawayDeliveryProofs -----------------------
(***************************************************************************)
(* Theorems about GiveawayFulfillment that need more than Core: the lease  *)
(* of a winner admits one replica at a time, nothing is shown as delivered *)
(* before Users committed it, no unprotected prize is committed, no pause  *)
(* is shortened, and the whole implements PrizePromise.                    *)
(***************************************************************************)
EXTENDS GiveawayFulfillmentProofs

(***************************************************************************)
(* The user lease.  A replica inside its work context owns the live lease  *)
(* of its award's winner; a lease has one owner.                           *)
(***************************************************************************)
InWork(w) == wk[w].pc \in WorkPCs /\ ~wk[w].dead
LeaseHeld == \A w \in Workers :
                InWork(w) => /\ lease[UserOf[wk[w].award]].owner = w
                             /\ lease[UserOf[wk[w].award]].live

LEMMA WorkFrame ==
    ASSUME LeaseHeld, lease' = lease,
           \A v \in Workers : InWork(v)' => InWork(v) /\ wk'[v].award = wk[v].award
    PROVE  LeaseHeld'
BY DEF LeaseHeld

\* A replica moves on inside its work, or leaves it.
LEMMA WorkMoves ==
    ASSUME LeaseHeld, lease' = lease, NEW w \in Workers, Others(w),
           \/ wk'[w].pc \notin WorkPCs
           \/ /\ wk[w].pc \in WorkPCs /\ wk'[w].award = wk[w].award
              /\ wk'[w].dead = wk[w].dead \/ wk'[w].dead
    PROVE  LeaseHeld'
BY WorkFrame DEF InWork, Others

LEMMA WorkGoto ==
    ASSUME LeaseHeld, lease' = lease, wk \in [Workers -> Local], NEW w \in Workers,
           wk[w].pc \in WorkPCs, NEW pc \in PCs, Goto(w, pc)
    PROVE  LeaseHeld'
BY GotoFacts, WorkMoves

LEMMA WorkReturn ==
    ASSUME LeaseHeld, lease' = lease, wk \in [Workers -> Local], NEW w \in Workers,
           NEW pc \in PCs \ WorkPCs, Return(w, pc)
    PROVE  LeaseHeld'
BY ReturnFacts, WorkMoves

\* Planning moves its replica to "save" and leaves the award alone.
LEMMA PlanAwardMoves ==
    ASSUME wk \in [Workers -> Local], NEW w \in Workers, PlanAward(w),
           ~NeedsReview(w, wk[w].version)
    PROVE  /\ Others(w) /\ wk'[w].pc = "save" /\ award' = award
           /\ wk'[w].award = wk[w].award /\ wk'[w].dead = wk[w].dead
<1> DEFINE a == wk[w].award
           acc == account[UserOf[a]]
<1>1. PICK start \in CoverageStart(UserOf[a]) :
        \/ NeedsReview(w, wk[w].version)
        \/ /\ wk' = [wk EXCEPT
                ![w].pc = "save",
                ![w].plan = IF plan[a] # None THEN plan[a]
                            ELSE PrizeInterval(start, Months[a], IntervalRuleFor(acc.ref)),
                ![w].fresh = (plan[a] = None),
                ![w].ref = acc.ref,
                ![w].unsure = (acc.uncertain \/ acc.cancel)]
           /\ UNCHANGED <<award, plan, op>>
  BY DEF PlanAward
<1>2. award' = award
  BY <1>1
<1> DEFINE i == IF plan[a] # None THEN plan[a]
                ELSE PrizeInterval(start, Months[a], IntervalRuleFor(acc.ref))
           f == (plan[a] = None)
           s == (acc.uncertain \/ acc.cancel)
           row == [wk[w] EXCEPT !.pc = "save", !.plan = i, !.fresh = f, !.ref = acc.ref,
                                !.unsure = s]
<1>3. wk[w] \in Local
  OBVIOUS
<1>4. wk' = [wk EXCEPT ![w] = row]
  <2> HIDE DEF acc
  <2>1. QED BY <1>1
<1>5. row.pc = "save" /\ row.award = a /\ row.dead = wk[w].dead
  <2> HIDE DEF i, f, s, acc
  <2>1. QED BY <1>3 DEF Local
<1>6. Others(w) /\ wk'[w] = row
  <2> HIDE DEF row
  <2>1. QED BY <1>4 DEF Others
<1>7. QED
  <2> HIDE DEF row
  <2>1. QED BY <1>2, <1>5, <1>6

LEMMA LeaseStep ==
    ASSUME Core, LeaseHeld, NEW w \in Workers, Step(w) PROVE LeaseHeld'
<1> USE DEF queueVars
<1>0. wk \in [Workers -> Local] /\ lease \in [Users -> LeaseRow]
  BY DEF Core, TypeOK
<1>1. /\ {"fail", "complete", "idle", "read", "lease"} \subseteq PCs \ WorkPCs
      /\ WorkPCs \subseteq PCs
  BY DEF PCs, WorkPCs
<1>2. CASE ReadAward(w)
  <2>1. lease' = lease
    BY <1>2 DEF ReadAward
  <2>2. CASE Return(w, "complete")
    BY <1>0, <1>1, <2>1, <2>2, WorkReturn
  <2>3. CASE ~Return(w, "complete")
    <3>1. Others(w) /\ wk'[w].pc = "lease"
      BY <1>0, <1>2, <2>3 DEF ReadAward, Others, Local
    <3>2. QED BY <1>1, <2>1, <3>1, WorkMoves
  <2>4. QED BY <2>2, <2>3
<1>3. CASE AcquireUserLease(w)
  <2> DEFINE u == UserOf[wk[w].award]
  <2>1. wk[w].pc = "lease" /\ wk[w].award \in Awards /\ u \in Users
    BY <1>3, RowsAssumption DEF AcquireUserLease, At, Core, LocalOK
  <2>2. CASE Return(w, "fail") /\ lease' = lease
    BY <1>0, <1>1, <2>2, WorkReturn
  <2>3. CASE ~lease[u].live /\ Goto(w, "plan")
             /\ lease' = [lease EXCEPT ![u] = [owner |-> w, live |-> TRUE]]
    <3>1. Others(w) /\ wk'[w].award = wk[w].award
      <4>1. "plan" \in PCs
        BY DEF PCs, WorkPCs
      <4>2. QED BY <1>0, <2>3, <4>1, GotoFacts
    <3>2. lease'[u].owner = w /\ lease'[u].live
      BY <1>0, <2>1, <2>3
    <3>3. \A t \in Users : t # u => lease'[t] = lease[t]
      BY <1>0, <2>1, <2>3
    <3>4. ASSUME NEW v \in Workers, v # w, InWork(v)'
          PROVE  lease'[UserOf[wk'[v].award]].owner = v /\ lease'[UserOf[wk'[v].award]].live
      <4>1. wk'[v] = wk[v] /\ InWork(v) /\ wk[v].award \in Awards
        BY <3>1, <3>4 DEF Others, InWork, Core, LocalOK, WorkPCs
      <4>2. UserOf[wk[v].award] # u
        BY <2>3, <4>1 DEF LeaseHeld
      <4>3. QED BY <3>3, <4>1, <4>2, RowsAssumption DEF LeaseHeld
    <3>5. QED BY <3>1, <3>2, <3>4 DEF LeaseHeld
  <2>4. QED BY <1>3, <2>2, <2>3 DEF AcquireUserLease, LeaseFree
<1>4. CASE Complete(w) \/ FailOutbox(w)
  <2>1. lease' = Released(w) /\ wk' = [wk EXCEPT ![w] = Idle]
    BY <1>4 DEF Complete, FailOutbox
  <2>2. Others(w) /\ wk'[w].pc = "idle"
    BY <1>0, <2>1 DEF Others, Idle
  <2>3. \A t \in Users : lease[t].owner # w => lease'[t] = lease[t]
    BY <2>1 DEF Released
  <2>4. ASSUME NEW v \in Workers, InWork(v)'
        PROVE  lease'[UserOf[wk'[v].award]].owner = v /\ lease'[UserOf[wk'[v].award]].live
    <3>1. v # w
      BY <2>2, <2>4 DEF InWork, WorkPCs
    <3>2. wk'[v] = wk[v] /\ InWork(v) /\ wk[v].award \in Awards
      BY <2>2, <2>4, <3>1 DEF Others, InWork, Core, LocalOK, WorkPCs
    <3>3. QED BY <2>3, <3>1, <3>2, RowsAssumption DEF LeaseHeld
  <2>5. QED BY <2>4 DEF LeaseHeld
<1>5. CASE RaiseAlert(w)
  <2>1. Return(w, "fail") /\ lease' = lease
    BY <1>5 DEF RaiseAlert
  <2>2. QED BY <1>0, <1>1, <2>1, WorkReturn
<1>6. ASSUME NeedsReview(w, wk[w].version), lease' = lease, wk[w].pc \in WorkPCs
      PROVE  LeaseHeld'
  <2>1. "alertReview" \in PCs
    BY DEF PCs, WorkPCs
  <2>2. QED BY <1>0, <1>6, <2>1, WorkGoto DEF NeedsReview
<1>7. CASE PlanAward(w)
  <2>1. wk[w].pc \in WorkPCs /\ lease' = lease
    BY <1>7 DEF PlanAward, InTime, At, WorkPCs
  <2>2. CASE ~NeedsReview(w, wk[w].version)
    <3>1. Others(w) /\ wk'[w].award = wk[w].award /\ wk'[w].dead = wk[w].dead
      BY <1>0, <1>7, <2>2, PlanAwardMoves
    <3>2. QED BY <2>1, <3>1, WorkMoves
  <2>3. QED BY <1>6, <2>1, <2>2
<1>8. CASE SaveFulfillmentPlan(w) \/ RecoverFulfillmentPlan(w)
  <2>1. wk[w].pc \in WorkPCs /\ lease' = lease
    BY <1>8 DEF SaveFulfillmentPlan, RecoverFulfillmentPlan, At, WorkPCs
  <2>2. CASE Return(w, "fail")
    BY <1>0, <1>1, <2>1, <2>2, WorkReturn
  <2>3. CASE ~NeedsReview(w, wk[w].version) /\ ~Return(w, "fail")
    <3>1. Others(w) /\ wk'[w].award = wk[w].award /\ wk'[w].dead = wk[w].dead
      BY <1>0, <1>8, <2>3 DEF SaveFulfillmentPlan, RecoverFulfillmentPlan,
                              ProjectFulfillmentPlan, Others, Local
    <3>2. QED BY <2>1, <3>1, WorkMoves
  <2>4. QED BY <1>6, <2>1, <2>2, <2>3
<1>9. CASE PrepareBilling(w)
  <2>1. wk[w].pc \in WorkPCs /\ lease' = lease /\ "preparing" \in PCs
    BY <1>9 DEF PrepareBilling, InTime, At, WorkPCs, PCs
  <2>2. NeedsReview(w, wk[w].version) \/ Goto(w, "preparing")
    BY <1>9 DEF PrepareBilling
  <2>3. QED BY <1>0, <1>6, <2>1, <2>2, WorkGoto
<1>10. CASE Preparing(w)
  <2>1. wk[w].pc \in WorkPCs /\ lease' = lease
    BY <1>10 DEF Preparing, InTime, At, WorkPCs
  <2>2. Others(w) /\ wk'[w].award = wk[w].award /\ wk'[w].dead = wk[w].dead
    BY <1>0, <1>10 DEF Preparing, Others, Local
  <2>3. QED BY <2>1, <2>2, WorkMoves
<1>11. CASE \/ SendPrepare(w) \/ SendCommit(w) \/ Inspect(w) \/ MarkProtecting(w)
            \/ PauseRead(w) \/ PausePut(w) \/ PauseVerify(w) \/ MarkUncertain(w)
            \/ WorkerReview(w)
  <2>1. wk[w].pc \in WorkPCs /\ lease' = lease
    BY <1>11 DEF SendPrepare, SendCommit, Inspect, MarkProtecting, PauseRead, PausePut,
                 PauseVerify, MarkUncertain, WorkerReview, InTime, At, WorkPCs
  <2>2. \E pc \in WorkPCs : Goto(w, pc)
    BY <1>11 DEF SendPrepare, SendCommit, Inspect, MarkProtecting, PauseRead, PausePut,
                 PauseVerify, MarkUncertain, WorkerReview, WorkPCs
  <2>3. QED BY <1>0, <1>1, <2>1, <2>2, WorkGoto
<1>12. CASE Scheduled(w)
  <2>1. Return(w, "complete") /\ lease' = lease
    BY <1>12 DEF Scheduled
  <2>2. QED BY <1>0, <1>1, <2>1, WorkReturn
<1>13. QED BY <1>2, <1>3, <1>4, <1>5, <1>7, <1>8, <1>9, <1>10, <1>11, <1>12 DEF Step

\* A reply moves its waiting sender on inside the work, or out of it.
LEMMA LeaseServe ==
    ASSUME Core, LeaseHeld, NEW m \in net, PreparePremiumGrant(m) \/ CommitPremiumGrant(m)
    PROVE  LeaseHeld'
<1>0. wk \in [Workers -> Local] /\ lease' = lease /\ m \in Request
  BY DEF Core, TypeOK, PreparePremiumGrant, CommitPremiumGrant, queueVars
<1>1. PICK pc \in {"inspect", "commit", "schedule"} : \E ok : Reply(m, ok, pc)
  BY DEF PreparePremiumGrant, CommitPremiumGrant, AfterPrepare
<1>2. CASE m.from = None
  BY <1>0, <1>1, <1>2, WorkFrame DEF Reply, InWork
<1>3. CASE m.from # None
  <2>1. m.from \in Workers /\ wk[m.from].pc \in WorkPCs
    BY <1>0, <1>3 DEF Core, Messages, WaitPC, Request, WorkPCs
  <2>2. Goto(m.from, pc) \/ Return(m.from, "fail")
    BY <1>1, <1>3 DEF Reply
  <2>3. pc \in PCs /\ "fail" \in PCs \ WorkPCs
    BY <1>1 DEF PCs, WorkPCs
  <2>4. QED BY <1>0, <2>1, <2>2, <2>3, WorkGoto, WorkReturn
<1>4. QED BY <1>2, <1>3

LEMMA LeaseNext ==
    ASSUME Core, LeaseHeld, [Next]_vars PROVE LeaseHeld'
<1> USE DEF queueVars
<1>0. wk \in [Workers -> Local] /\ lease \in [Users -> LeaseRow]
  BY DEF Core, TypeOK
<1>1. ASSUME NEW w \in Workers, Step(w) PROVE LeaseHeld'
  BY <1>1, LeaseStep
<1>2. ASSUME NEW w \in Workers, NEW a \in Awards, Claim(w, a) PROVE LeaseHeld'
  <2>1. lease' = lease /\ Others(w) /\ wk'[w].pc = "read"
    BY <1>0, <1>2 DEF Claim, Others, Idle
  <2>2. QED BY <2>1, WorkMoves DEF WorkPCs
<1>3. ASSUME NEW w \in Workers, Crash(w) PROVE LeaseHeld'
  <2>1. lease' = lease /\ Others(w) /\ wk'[w].pc = "idle"
    BY <1>0, <1>3 DEF Crash, Others, Idle
  <2>2. QED BY <2>1, WorkMoves DEF WorkPCs
<1>4. ASSUME NEW w \in Workers, StepFails(w) PROVE LeaseHeld'
  <2>1. Return(w, "fail") /\ lease' = lease /\ "fail" \in PCs \ WorkPCs
    BY <1>4 DEF StepFails, PCs, WorkPCs
  <2>2. QED BY <1>0, <2>1, WorkReturn
<1>5. ASSUME NEW w \in Workers, InspectFails(w) \/ PauseReadFails(w) PROVE LeaseHeld'
  <2>1. lease' = lease /\ wk[w].pc \in WorkPCs
    BY <1>5 DEF InspectFails, PauseReadFails, InTime, At, WorkPCs
  <2>2. Goto(w, "review") \/ Goto(w, "pauseError")
    BY <1>5 DEF InspectFails, PauseReadFails
  <2>3. QED BY <1>0, <2>1, <2>2, ProviderPCs, WorkGoto
<1>6. ASSUME NEW w \in Workers, SaveStalls(w) PROVE LeaseHeld'
  <2>1. /\ lease' = lease /\ Others(w) /\ wk[w].pc \in WorkPCs
        /\ wk'[w].award = wk[w].award /\ wk'[w].dead
    BY <1>0, <1>6 DEF SaveStalls, Others, InTime, At, WorkPCs, Local
  <2>2. QED BY <2>1, WorkMoves
<1>7. ASSUME Serve PROVE LeaseHeld'
  BY <1>7, LeaseServe DEF Serve
<1>8. ASSUME wk' = wk, lease' = lease PROVE LeaseHeld'
  BY <1>8, WorkFrame DEF InWork
<1>9. ASSUME ReconcileLifecycle \/ Tick \/ UNCHANGED vars PROVE LeaseHeld'
  BY <1>8, <1>9 DEF ReconcileLifecycle, Tick, vars
<1>10. ASSUME NEW a \in Awards, \/ ExpirePremiumGrant(a) \/ OutboxLeaseExpires(a)
                                \/ BackoffElapses(a) \/ RetryAward(a)
       PROVE  LeaseHeld'
  BY <1>8, <1>10 DEF ExpirePremiumGrant, OutboxLeaseExpires, BackoffElapses, RetryAward
<1>11. ASSUME NEW u \in Users, AccountChanges(u) PROVE LeaseHeld'
  BY <1>8, <1>11 DEF AccountChanges
<1>12. ASSUME NEW u \in Users, UserLeaseExpires(u) PROVE LeaseHeld'
  <2>1. wk' = wk /\ \A t \in Users : t # u => lease'[t] = lease[t]
    BY <1>0, <1>12 DEF UserLeaseExpires
  <2>2. ASSUME NEW v \in Workers, InWork(v)
        PROVE  UserOf[wk[v].award] # u /\ UserOf[wk[v].award] \in Users
    <3>1. wk[v].award \in Awards
      BY <2>2 DEF InWork, WorkPCs, Core, LocalOK
    <3>2. UserOf[wk[v].award] # u
      BY <1>12, <2>2 DEF UserLeaseExpires, Working, InWork, LeaseHeld
    <3>3. QED BY <3>1, <3>2, RowsAssumption
  <2>3. QED BY <2>1, <2>2 DEF LeaseHeld, InWork
<1>13. ASSUME NEW r \in Refs, CustomerCancels(r) \/ CollectionDue(r) PROVE LeaseHeld'
  BY <1>8, <1>13 DEF CustomerCancels, CollectionDue
<1>14. QED BY <1>1, <1>2, <1>3, <1>4, <1>5, <1>6, <1>7, <1>9, <1>10, <1>11, <1>12, <1>13
       DEF Next

LEMMA LeaseAlways == Spec => []LeaseHeld
<1>1. Init => LeaseHeld
  BY DEF Init, LeaseHeld, InWork, Idle, WorkPCs
<1>2. Core /\ LeaseHeld /\ [Next]_vars => LeaseHeld'
  BY LeaseNext
<1>3. QED BY <1>1, <1>2, CoreInvariant, PTL DEF Spec

\* At most one replica is inside the work context of a winner's award, for any
\* number of replicas, winners and awards.
THEOREM LeaseExclusive == Spec => []OneWorkerPerUser
<1>1. LeaseHeld => OneWorkerPerUser
  BY DEF LeaseHeld, InWork, OneWorkerPerUser, Working
<1>2. QED BY <1>1, LeaseAlways, PTL

(***************************************************************************)
(* Delivery.  Committed grants stay committed or expired; a replica        *)
(* schedules only after the commit reply, and closes a row only after that *)
(* or after it read a delivered award.                                     *)
(***************************************************************************)
Granted(a) == grant[a].state \in {"committed", "expired"}
Closing == {"schedule", "complete"}
DeliveryOK ==
    /\ \A a \in Awards : award[a].state \in Delivered
                            => Granted(a) /\ award[a].confirmed # None
    /\ \A a \in Awards : outbox[a].state = "completed" => Granted(a)
    /\ \A w \in Workers : wk[w].pc \in Closing => Granted(wk[w].award)

LEMMA GrantedStays ==
    ASSUME Core, [Next]_vars, NEW a \in Awards, Granted(a) PROVE Granted(a)'
<1>0. grant \in [Awards -> GrantRow]
  BY DEF Core, TypeOK
<1>1. QED BY <1>0, GrantStep DEF Granted, GrantRow

\* A step that delivers no award, closes no row and brings no replica to the end
\* of its work.
LEMMA DeliveryFrame ==
    ASSUME Core, DeliveryOK, [Next]_vars,
           \A a \in Awards : /\ award'[a].state \in Delivered => award[a].state \in Delivered
                             /\ award[a].confirmed # None => award'[a].confirmed # None
                             /\ outbox'[a].state = "completed" => outbox[a].state = "completed",
           \A w \in Workers : wk'[w].pc \in Closing =>
                                 wk[w].pc \in Closing /\ wk'[w].award = wk[w].award
    PROVE  DeliveryOK'
<1>1. \A w \in Workers : wk[w].pc \in Closing => wk[w].award \in Awards
  BY DEF Core, LocalOK, Closing
<1>2. \A a \in Awards : Granted(a) => Granted(a)'
  BY GrantedStays
<1>3. \A a \in Awards : award'[a].state \in Delivered
                           => Granted(a)' /\ award'[a].confirmed # None
  BY <1>2 DEF DeliveryOK
<1>4. \A a \in Awards : outbox'[a].state = "completed" => Granted(a)'
  BY <1>2 DEF DeliveryOK
<1>5. \A w \in Workers : wk'[w].pc \in Closing => (grant'[wk'[w].award].state \in {"committed", "expired"})
  BY <1>1, <1>2 DEF DeliveryOK, Granted
<1>6. QED BY <1>3, <1>4, <1>5 DEF DeliveryOK, Granted, Closing

\* The common shape of a replica step: one replica moves, and not to the end.
LEMMA DeliveryMove ==
    ASSUME Core, DeliveryOK, [Next]_vars, NEW w \in Workers, Others(w),
           wk'[w].pc \notin Closing, outbox' = outbox,
           \A a \in Awards : /\ award'[a].state \in Delivered => award[a].state \in Delivered
                             /\ award'[a].confirmed = award[a].confirmed
    PROVE  DeliveryOK'
BY DeliveryFrame DEF Others

LEMMA DeliveryReturn ==
    ASSUME Core, DeliveryOK, [Next]_vars, NEW w \in Workers, Return(w, "fail"),
           outbox' = outbox, award' = award
    PROVE  DeliveryOK'
<1>1. wk \in [Workers -> Local] /\ "fail" \in PCs
  BY ProviderPCs DEF Core, TypeOK
<1>2. QED BY <1>1, ReturnFacts, DeliveryMove DEF Closing

LEMMA DeliveryGoto ==
    ASSUME Core, DeliveryOK, [Next]_vars, NEW w \in Workers,
           NEW pc \in PCs \ Closing, Goto(w, pc), outbox' = outbox,
           \A a \in Awards : /\ award'[a].state \in Delivered => award[a].state \in Delivered
                             /\ award'[a].confirmed = award[a].confirmed
    PROVE  DeliveryOK'
<1>1. wk \in [Workers -> Local]
  BY DEF Core, TypeOK
<1>2. QED BY <1>1, GotoFacts, DeliveryMove

LEMMA DeliveryReview ==
    ASSUME Core, DeliveryOK, [Next]_vars, NEW w \in Workers, wk[w].pc # "idle",
           NeedsReview(w, wk[w].version), outbox' = outbox
    PROVE  DeliveryOK'
<1>1. "alertReview" \in PCs \ Closing
  BY DEF PCs, WorkPCs, Closing
<1>2. award \in [Awards -> AwardRow] /\ wk[w].award \in Awards
  BY DEF Core, TypeOK, LocalOK
<1>3. \A a \in Awards : /\ award'[a].state \in Delivered => award[a].state \in Delivered
                        /\ award'[a].confirmed = award[a].confirmed
  BY <1>2 DEF NeedsReview, AwardRow, Delivered
<1>4. QED BY <1>1, <1>3, DeliveryGoto DEF NeedsReview

LEMMA DeliveryStep ==
    ASSUME Core, DeliveryOK, NEW w \in Workers, Step(w) PROVE DeliveryOK'
<1> USE DEF queueVars, awardVars
<1>0. /\ wk \in [Workers -> Local] /\ award \in [Awards -> AwardRow]
      /\ outbox \in [Awards -> OutboxRow] /\ [Next]_vars
  BY DEF Core, TypeOK, Next
<1>1. \A b \in Awards : Granted(b) => Granted(b)'
  BY <1>0, GrantedStays
<1>2. CASE ReadAward(w)
  <2> DEFINE a == wk[w].award
  <2>1. a \in Awards /\ award' = award /\ outbox' = outbox /\ wk[w].pc = "read"
    BY <1>2 DEF ReadAward, At, Core, LocalOK
  <2>2. CASE award[a].state \in Delivered /\ Return(w, "complete")
    <3>1. Others(w) /\ wk'[w].award = a
      BY <1>0, <2>2, ProviderPCs, ReturnFacts
    <3>2. grant'[a].state \in {"committed", "expired"}
      BY <1>1, <2>1, <2>2 DEF DeliveryOK, Granted
    <3>3. \A v \in Workers : wk'[v].pc \in Closing => (grant'[wk'[v].award].state \in {"committed", "expired"})
      <4>1. \A v \in Workers : wk[v].pc \in Closing => wk[v].award \in Awards
        BY DEF Core, LocalOK, Closing
      <4>2. QED BY <1>1, <3>1, <3>2, <4>1 DEF Others, DeliveryOK, Granted
    <3>4. QED BY <1>1, <2>1, <3>3 DEF DeliveryOK, Granted, Closing
  <2>3. CASE ~(award[a].state \in Delivered)
    <3>1. Others(w) /\ wk'[w].pc = "lease"
      BY <1>0, <1>2, <2>3 DEF ReadAward, Others, Local
    <3>2. QED BY <1>0, <2>1, <3>1, DeliveryMove DEF Closing
  <2>4. QED BY <1>2, <2>2, <2>3 DEF ReadAward
<1>3. CASE AcquireUserLease(w)
  <2>1. award' = award /\ outbox' = outbox /\ "plan" \in PCs \ Closing
    BY <1>3 DEF AcquireUserLease, PCs, WorkPCs, Closing
  <2>2. Return(w, "fail") \/ Goto(w, "plan")
    BY <1>3 DEF AcquireUserLease
  <2>3. QED BY <1>0, <2>1, <2>2, DeliveryReturn, DeliveryGoto
<1>4. CASE Complete(w)
  <2> DEFINE a == wk[w].award
  <2>1. a \in Awards /\ Granted(a)
    BY <1>4 DEF Complete, At, Core, LocalOK, DeliveryOK, Closing
  <2>2. \A b \in Awards : /\ award'[b].state \in Delivered => award[b].state \in Delivered
                          /\ award'[b].confirmed = award[b].confirmed
    BY <1>4, LifecycleType DEF Complete, Core
  <2>3. \A b \in Awards : b # a => outbox'[b] = outbox[b]
    BY <1>0, <1>4, <2>1 DEF Complete
  <2>4. \A v \in Workers : wk'[v].pc \in Closing => wk'[v] = wk[v] /\ wk[v].pc \in Closing
    BY <1>0, <1>4 DEF Complete, Idle, Closing
  <2>5. \A v \in Workers : wk[v].pc \in Closing => wk[v].award \in Awards
    BY DEF Core, LocalOK, Closing
  <2>6. \A b \in Awards : award'[b].state \in Delivered => Granted(b)' /\ award'[b].confirmed # None
    BY <1>1, <2>2 DEF DeliveryOK
  <2>7. \A b \in Awards : outbox'[b].state = "completed" => Granted(b)'
    BY <1>1, <2>1, <2>3 DEF DeliveryOK
  <2>8. \A v \in Workers : wk'[v].pc \in Closing => (grant'[wk'[v].award].state \in {"committed", "expired"})
    BY <1>1, <2>4, <2>5 DEF DeliveryOK, Granted
  <2>9. QED BY <2>6, <2>7, <2>8 DEF DeliveryOK, Granted, Closing
<1>5. CASE FailOutbox(w)
  <2>1. \A b \in Awards : outbox'[b].state = "completed" => outbox[b].state = "completed"
    BY <1>0, <1>5 DEF FailOutbox
  <2>2. \A v \in Workers : wk'[v].pc \in Closing => wk'[v] = wk[v] /\ wk[v].pc \in Closing
    BY <1>0, <1>5 DEF FailOutbox, Idle, Closing
  <2>3. award' = award
    BY <1>5 DEF FailOutbox
  <2>4. QED BY <1>0, <2>1, <2>2, <2>3, DeliveryFrame
<1>6. CASE RaiseAlert(w)
  BY <1>0, <1>6, DeliveryReturn DEF RaiseAlert
<1>7. CASE PlanAward(w)
  <2>1. wk[w].pc # "idle" /\ outbox' = outbox
    BY <1>7 DEF PlanAward, InTime, At
  <2>2. CASE ~NeedsReview(w, wk[w].version)
    <3>1. Others(w) /\ wk'[w].pc = "save" /\ award' = award
      BY <1>0, <1>7, <2>2, PlanAwardMoves
    <3>2. QED BY <1>0, <2>1, <3>1, DeliveryMove DEF Closing
  <2>3. QED BY <1>0, <2>1, <2>2, DeliveryReview
<1>8. CASE SaveFulfillmentPlan(w) \/ RecoverFulfillmentPlan(w)
  <2>1. wk[w].pc = "save" /\ outbox' = outbox /\ wk[w].award \in Awards
    BY <1>8 DEF SaveFulfillmentPlan, RecoverFulfillmentPlan, At, Core, LocalOK
  <2>2. CASE Return(w, "fail") /\ ~NeedsReview(w, wk[w].version)
    <3>1. Others(w) /\ wk'[w].pc = "fail"
      BY <1>0, <2>2, ProviderPCs, ReturnFacts
    <3>2. \A b \in Awards : /\ award'[b].state \in Delivered => award[b].state \in Delivered
                            /\ award'[b].confirmed = award[b].confirmed
      BY <1>0, <1>8, <2>1, <2>2 DEF SaveFulfillmentPlan, RecoverFulfillmentPlan,
                                    ProjectFulfillmentPlan, AwardRow, Delivered
    <3>3. QED BY <1>0, <2>1, <3>1, <3>2, DeliveryMove DEF Closing
  <2>3. CASE ~NeedsReview(w, wk[w].version) /\ ~Return(w, "fail")
    <3>1. Others(w) /\ wk'[w].pc = "billing"
      BY <1>0, <1>8, <2>3 DEF SaveFulfillmentPlan, RecoverFulfillmentPlan,
                              ProjectFulfillmentPlan, Others, Local
    <3>2. \A b \in Awards : /\ award'[b].state \in Delivered => award[b].state \in Delivered
                            /\ award'[b].confirmed = award[b].confirmed
      BY <1>0, <1>8, <2>1, <2>3 DEF SaveFulfillmentPlan, RecoverFulfillmentPlan,
                                    ProjectFulfillmentPlan, AwardRow, Delivered
    <3>3. QED BY <1>0, <2>1, <3>1, <3>2, DeliveryMove DEF Closing
  <2>4. QED BY <1>0, <2>1, <2>2, <2>3, DeliveryReview
<1>9. CASE PrepareBilling(w)
  <2>1. /\ wk[w].pc # "idle" /\ outbox' = outbox /\ "preparing" \in PCs \ Closing
    BY <1>9 DEF PrepareBilling, InTime, At, PCs, WorkPCs, Closing
  <2>2. NeedsReview(w, wk[w].version) \/ (Goto(w, "preparing") /\ award' = award)
    BY <1>9 DEF PrepareBilling
  <2>3. QED BY <1>0, <2>1, <2>2, DeliveryReview, DeliveryGoto
<1>10. CASE Preparing(w)
  <2>1. wk[w].award \in Awards /\ outbox' = outbox
    BY <1>10 DEF Preparing, InTime, At, Core, LocalOK
  <2>2. Others(w) /\ wk'[w].pc = "prepare"
    BY <1>0, <1>10 DEF Preparing, Others, Local
  <2>3. \A b \in Awards : /\ award'[b].state \in Delivered => award[b].state \in Delivered
                          /\ award'[b].confirmed = award[b].confirmed
    BY <1>0, <1>10, <2>1 DEF Preparing, AwardRow, Delivered
  <2>4. QED BY <1>0, <2>1, <2>2, <2>3, DeliveryMove DEF Closing
<1>11. CASE \/ SendPrepare(w) \/ SendCommit(w) \/ Inspect(w) \/ MarkProtecting(w)
            \/ PauseRead(w) \/ PausePut(w) \/ PauseVerify(w) \/ MarkUncertain(w)
  <2>1. award' = award /\ outbox' = outbox
    BY <1>11 DEF SendPrepare, SendCommit, Inspect, MarkProtecting, PauseRead, PausePut,
                 PauseVerify, MarkUncertain
  <2>2. \E pc \in PCs \ Closing : Goto(w, pc)
    BY <1>11 DEF SendPrepare, SendCommit, Inspect, MarkProtecting, PauseRead, PausePut,
                 PauseVerify, MarkUncertain, PCs, WorkPCs, Closing
  <2>3. QED BY <1>0, <2>1, <2>2, DeliveryGoto
<1>12. CASE WorkerReview(w)
  <2>1. /\ wk[w].award \in Awards /\ outbox' = outbox /\ Goto(w, "alertBilling")
        /\ "alertBilling" \in PCs \ Closing
    BY <1>12 DEF WorkerReview, InTime, At, Core, LocalOK, PCs, WorkPCs, Closing
  <2>2. \A b \in Awards : /\ award'[b].state \in Delivered => award[b].state \in Delivered
                          /\ award'[b].confirmed = award[b].confirmed
    BY <1>0, <1>12, <2>1 DEF WorkerReview, AwardRow, Delivered
  <2>3. QED BY <1>0, <2>1, <2>2, DeliveryGoto
<1>13. CASE Scheduled(w)
  <2> DEFINE a == wk[w].award
  <2>1. /\ a \in Awards /\ Granted(a) /\ wk[w].pc = "schedule" /\ outbox' = outbox
        /\ plan[a] # None
    BY <1>13, IntervalType DEF Scheduled, InTime, At, Core, LocalOK, DeliveryOK, Closing, SavedPCs
  <2>2. award[a].planned # None
    BY <2>1 DEF Core, Projected
  <2>3. /\ award'[a].confirmed = award[a].planned
        /\ \A b \in Awards : b # a => award'[b] = award[b]
    <3> HIDE DEF a
    <3>1. award'[a].confirmed = award[a].planned
      BY <1>0, <1>13, <2>1, <2>2 DEF Scheduled, AwardRow, a
    <3>2. QED BY <1>0, <1>13, <2>1, <3>1 DEF Scheduled, a
  <2>4. Others(w) /\ wk'[w].award = a
    BY <1>0, <1>13, ProviderPCs, ReturnFacts DEF Scheduled
  <2>5. \A b \in Awards : award'[b].state \in Delivered => Granted(b)' /\ award'[b].confirmed # None
    BY <1>1, <2>1, <2>2, <2>3 DEF DeliveryOK
  <2>6. \A v \in Workers : wk[v].pc \in Closing => wk[v].award \in Awards
    BY DEF Core, LocalOK, Closing
  <2>7. \A v \in Workers : wk'[v].pc \in Closing => (grant'[wk'[v].award].state \in {"committed", "expired"})
    BY <1>1, <2>1, <2>4, <2>6 DEF Others, DeliveryOK, Granted
  <2>8. QED BY <1>1, <2>1, <2>5, <2>7 DEF DeliveryOK, Granted, Closing
<1>14. QED BY <1>2, <1>3, <1>4, <1>5, <1>6, <1>7, <1>8, <1>9, <1>10, <1>11, <1>12, <1>13 DEF Step

\* Only a successful commit brings a waiting replica to "schedule".
LEMMA DeliveryServe ==
    ASSUME Core, DeliveryOK, NEW m \in net, PreparePremiumGrant(m) \/ CommitPremiumGrant(m)
    PROVE  DeliveryOK'
<1>0. /\ wk \in [Workers -> Local] /\ m \in Request /\ m.award \in Awards
      /\ award' = award /\ outbox' = outbox /\ [Next]_vars
      /\ grant \in [Awards -> GrantRow]
  BY DEF Core, TypeOK, Request, PreparePremiumGrant, CommitPremiumGrant, awardVars, queueVars,
         Next, Serve
<1>1. CASE \E ok, pc : Reply(m, ok, pc) /\ pc \in {"inspect", "commit"}
  <2>1. PICK ok, pc : Reply(m, ok, pc) /\ pc \in {"inspect", "commit"}
    BY <1>1
  <2>2. pc \in PCs \ Closing
    BY <2>1 DEF PCs, WorkPCs, Closing
  <2>3. CASE m.from = None
    <3>1. wk' = wk
      BY <2>1, <2>3 DEF Reply
    <3>2. QED BY <1>0, <3>1, DeliveryFrame
  <2>4. CASE m.from # None
    <3>1. m.from \in Workers
      BY <1>0, <2>4 DEF Request
    <3>2. Goto(m.from, pc) \/ Return(m.from, "fail")
      BY <2>1, <2>4 DEF Reply
    <3>3. QED BY <1>0, <2>2, <3>1, <3>2, DeliveryGoto, DeliveryReturn
  <2>5. QED BY <2>3, <2>4
<1>2. CASE CommitPremiumGrant(m)
  <2>1. CASE m.from = None
    <3>1. wk' = wk
      BY <1>2, <2>1 DEF CommitPremiumGrant, Reply
    <3>2. QED BY <1>0, <3>1, DeliveryFrame
  <2>2. CASE m.from # None
    <3>1. m.from \in Workers /\ wk[m.from].award = m.award
      BY <1>0, <2>2 DEF Request, Core, Messages
    <3>2. CASE Return(m.from, "fail")
      BY <1>0, <3>1, <3>2, DeliveryReturn
    <3>3. CASE Live(m.award) /\ Goto(m.from, "schedule")
      <4>1. Granted(m.award)'
        BY <1>0, <1>2, <3>3 DEF CommitPremiumGrant, Live, Granted, GrantRow
      <4>2. Others(m.from) /\ wk'[m.from].award = m.award
        <5>1. "schedule" \in PCs
          BY DEF PCs, WorkPCs
        <5>2. QED BY <1>0, <3>1, <3>3, <5>1, GotoFacts
      <4>3. \A b \in Awards : Granted(b) => Granted(b)'
        BY <1>0, GrantedStays
      <4>4. \A v \in Workers : wk[v].pc \in Closing => wk[v].award \in Awards
        BY DEF Core, LocalOK, Closing
      <4>5. \A v \in Workers : wk'[v].pc \in Closing
                                  => (grant'[wk'[v].award].state \in {"committed", "expired"})
        BY <3>1, <4>1, <4>2, <4>3, <4>4 DEF Others, DeliveryOK, Granted
      <4>6. QED BY <1>0, <4>3, <4>5 DEF DeliveryOK, Granted, Closing
    <3>4. QED BY <1>2, <2>2, <3>2, <3>3 DEF CommitPremiumGrant, Reply
  <2>3. QED BY <2>1, <2>2
<1>3. CASE PreparePremiumGrant(m)
  <2>1. AfterPrepare(m) \in {"inspect", "commit"}
    BY DEF AfterPrepare
  <2>2. \E ok : Reply(m, ok, AfterPrepare(m))
    BY <1>3 DEF PreparePremiumGrant
  <2>3. QED BY <1>1, <2>1, <2>2
<1>4. QED BY <1>2, <1>3

LEMMA DeliveryNext ==
    ASSUME Core, DeliveryOK, [Next]_vars PROVE DeliveryOK'
<1> USE DEF queueVars, awardVars
<1>0. wk \in [Workers -> Local] /\ outbox \in [Awards -> OutboxRow]
  BY DEF Core, TypeOK
<1>1. ASSUME NEW w \in Workers, Step(w) PROVE DeliveryOK'
  BY <1>1, DeliveryStep
<1>2. ASSUME NEW w \in Workers, NEW a \in Awards, Claim(w, a) PROVE DeliveryOK'
  <2>1. /\ award' = award
        /\ \A b \in Awards : outbox'[b].state = "completed" => outbox[b].state = "completed"
    BY <1>0, <1>2 DEF Claim
  <2>2. \A v \in Workers : wk'[v].pc \in Closing => wk'[v] = wk[v] /\ wk[v].pc \in Closing
    BY <1>0, <1>2 DEF Claim, Idle, Closing
  <2>3. QED BY <2>1, <2>2, DeliveryFrame
<1>3. ASSUME NEW w \in Workers, Crash(w) PROVE DeliveryOK'
  <2>1. award' = award /\ outbox' = outbox
    BY <1>3 DEF Crash
  <2>2. \A v \in Workers : wk'[v].pc \in Closing => wk'[v] = wk[v] /\ wk[v].pc \in Closing
    BY <1>0, <1>3 DEF Crash, Idle, Closing
  <2>3. QED BY <2>1, <2>2, DeliveryFrame
<1>4. ASSUME NEW w \in Workers, StepFails(w) PROVE DeliveryOK'
  BY <1>4, DeliveryReturn DEF StepFails
<1>5. ASSUME NEW w \in Workers, InspectFails(w) \/ PauseReadFails(w) PROVE DeliveryOK'
  <2>1. award' = award /\ outbox' = outbox /\ (Goto(w, "review") \/ Goto(w, "pauseError"))
    BY <1>5 DEF InspectFails, PauseReadFails
  <2>2. {"review", "pauseError"} \subseteq PCs \ Closing
    BY DEF PCs, WorkPCs, Closing
  <2>3. QED BY <2>1, <2>2, DeliveryGoto
<1>6. ASSUME NEW w \in Workers, SaveStalls(w) PROVE DeliveryOK'
  <2>1. award' = award /\ outbox' = outbox /\ Others(w) /\ wk'[w].pc = "save"
    BY <1>0, <1>6 DEF SaveStalls, Others, InTime, At, Local
  <2>2. QED BY <2>1, DeliveryMove DEF Closing
<1>7. ASSUME Serve PROVE DeliveryOK'
  BY <1>7, DeliveryServe DEF Serve
<1>8. ASSUME wk' = wk, award' = award,
             \A b \in Awards : outbox'[b].state = "completed" => outbox[b].state = "completed"
      PROVE  DeliveryOK'
  BY <1>8, DeliveryFrame
<1>9. ASSUME ReconcileLifecycle PROVE DeliveryOK'
  <2>1. \A b \in Awards : /\ award'[b].state \in Delivered => award[b].state \in Delivered
                          /\ award'[b].confirmed = award[b].confirmed
    BY <1>9, LifecycleType DEF ReconcileLifecycle, Core
  <2>2. wk' = wk /\ outbox' = outbox
    BY <1>9 DEF ReconcileLifecycle
  <2>3. QED BY <2>1, <2>2, DeliveryFrame
<1>10. ASSUME Tick \/ UNCHANGED vars PROVE DeliveryOK'
  BY <1>8, <1>10 DEF Tick, vars
<1>11. ASSUME NEW a \in Awards, \/ ExpirePremiumGrant(a) \/ OutboxLeaseExpires(a)
                                \/ BackoffElapses(a) \/ RetryAward(a)
       PROVE  DeliveryOK'
  <2>1. wk' = wk /\ award' = award
    BY <1>11 DEF ExpirePremiumGrant, OutboxLeaseExpires, BackoffElapses, RetryAward
  <2>2. \A b \in Awards : outbox'[b].state = "completed" => outbox[b].state = "completed"
    <3>1. CASE ExpirePremiumGrant(a)
      BY <3>1 DEF ExpirePremiumGrant
    <3>2. CASE OutboxLeaseExpires(a)
      BY <1>0, <3>2 DEF OutboxLeaseExpires, OutboxRow
    <3>3. CASE BackoffElapses(a)
      BY <1>0, <3>3 DEF BackoffElapses, OutboxRow
    <3>4. CASE RetryAward(a)
      BY <1>0, <3>4 DEF RetryAward
    <3>5. QED BY <1>11, <3>1, <3>2, <3>3, <3>4
  <2>3. QED BY <1>8, <2>1, <2>2
<1>12. ASSUME NEW u \in Users, UserLeaseExpires(u) \/ AccountChanges(u) PROVE DeliveryOK'
  BY <1>8, <1>12 DEF UserLeaseExpires, AccountChanges
<1>13. ASSUME NEW r \in Refs, CustomerCancels(r) \/ CollectionDue(r) PROVE DeliveryOK'
  BY <1>8, <1>13 DEF CustomerCancels, CollectionDue
<1>14. QED BY <1>1, <1>2, <1>3, <1>4, <1>5, <1>6, <1>7, <1>9, <1>10, <1>11, <1>12, <1>13
       DEF Next

\* An award is shown as delivered, or its outbox row closed, only when Users
\* holds the committed grant, for the confirmed dates.
THEOREM DeliverySound == Spec => []DeliveredIsCommitted
<1>1. Init => DeliveryOK
  BY DEF Init, DeliveryOK, Delivered, Closing, Idle
<1>2. Core /\ DeliveryOK /\ [Next]_vars => DeliveryOK'
  BY DeliveryNext
<1>3. Core /\ DeliveryOK => DeliveredIsCommitted
  BY DEF Core, OneInterval, DeliveryOK, Granted, DeliveredIsCommitted
<1>4. QED BY <1>1, <1>2, <1>3, CoreInvariant, PTL DEF Spec

(***************************************************************************)
(* An unprotected prize is never committed: the inductive invariant        *)
(* follows the evidence of a provider pause from the read that saw it,     *)
(* through the commit request, to the committed grant.                     *)
(***************************************************************************)
\* The pause of the award's operation has reached the end of its plan.
Covered(a) == op[a] # None /\ pay[op[a].ref].peak >= plan[a].end

PlanPCs == SavedPCs \cup {"save"}
CommitPCs == {"commit", "commitWait"}

\* What a replica knows: its reference decides the rule of its plan and is the
\* one of the operation, and it commits a subscriber's prize only when covered.
ShieldLocal(w) ==
    /\ wk[w].pc \in PlanPCs => wk[w].plan.rule = IntervalRuleFor(wk[w].ref)
    /\ wk[w].pc \in OpPCs /\ wk[w].ref # None => op[wk[w].award].ref = wk[w].ref
    /\ wk[w].pc \in CommitPCs /\ wk[w].ref # None => Covered(wk[w].award)

PeakReached == \A r \in Refs : pay[r].until <= pay[r].peak
ShieldRequests == \A m \in net : m.kind = "commit" /\ m.span.rule = "provider-monthly"
                                    => Covered(m.award)
ShieldGrants == \A a \in Awards : Granted(a) /\ plan[a].rule = "provider-monthly" => Covered(a)

ShieldOK == /\ PeakReached
            /\ \A w \in Workers : ShieldLocal(w)
            /\ ShieldRequests
            /\ ShieldGrants

(***************************************************************************)
(* Operations keep their reference, pauses their peak.                     *)
(***************************************************************************)
OpKept == \A a \in Awards : op[a] # None => op'[a] # None /\ op'[a].ref = op[a].ref

LEMMA OpStateKept ==
    ASSUME op \in [Awards -> Operation \cup {None}], NEW a \in Awards, op[a] # None,
           NEW s \in OpStates, op' = [op EXCEPT ![a].state = s]
    PROVE  OpKept
<1>1. op[a] \in Operation
  OBVIOUS
<1>2. [op[a] EXCEPT !.state = s] \in Operation /\ [op[a] EXCEPT !.state = s].ref = op[a].ref
  BY <1>1 DEF Operation
<1>3. \A b \in Awards : op'[b] = IF b = a THEN [op[a] EXCEPT !.state = s] ELSE op[b]
  OBVIOUS
<1>4. QED BY <1>2, <1>3, OperationType DEF OpKept

LEMMA OpNext ==
    ASSUME Core, [Next]_vars PROVE OpKept
<1> USE DEF awardVars
<1>0. /\ op \in [Awards -> Operation \cup {None}]
      /\ \A w \in Workers : wk[w].pc # "idle" => wk[w].award \in Awards
  BY DEF Core, TypeOK, LocalOK
<1>1. CASE op' = op
  BY <1>1 DEF OpKept
<1>2. ASSUME NEW w \in Workers, Step(w) PROVE OpKept
  <2>1. CASE ReadAward(w) \/ AcquireUserLease(w) \/ Complete(w) \/ FailOutbox(w) \/ RaiseAlert(w)
    BY <1>1, <2>1 DEF ReadAward, AcquireUserLease, Complete, FailOutbox, RaiseAlert
  <2>2. CASE PlanAward(w) \/ SaveFulfillmentPlan(w) \/ RecoverFulfillmentPlan(w) \/ Preparing(w)
    <3>1. op' = op
      BY <2>2 DEF PlanAward, SaveFulfillmentPlan, RecoverFulfillmentPlan, Preparing, NeedsReview
    <3>2. QED BY <1>1, <3>1
  <2>3. CASE PrepareBilling(w)
    <3>1. CASE op' = op
      BY <1>1, <3>1
    <3>2. CASE op' # op
      <4>1. \E o : op[wk[w].award] = None /\ op' = [op EXCEPT ![wk[w].award] = o]
        BY <2>3, <3>2 DEF PrepareBilling, NeedsReview
      <4>2. QED BY <1>0, <4>1 DEF OpKept
    <3>3. QED BY <3>1, <3>2
  <2>4. CASE SendPrepare(w) \/ SendCommit(w) \/ Inspect(w) \/ PauseRead(w) \/ PausePut(w) \/ PauseVerify(w)
    BY <1>1, <2>4 DEF SendPrepare, SendCommit, Inspect, PauseRead, PausePut, PauseVerify
  <2>5. CASE MarkProtecting(w) \/ MarkUncertain(w)
    <3>1. wk[w].pc \in ProtectPCs /\ wk[w].award \in Awards
      BY <1>0, <2>5 DEF MarkProtecting, MarkUncertain, InTime, At, ProtectPCs
    <3>2. op[wk[w].award] # None
      BY <3>1 DEF Core, LocalOK, OpPCs
    <3>3. PICK s \in OpStates : op' = [op EXCEPT ![wk[w].award].state = s]
      BY <2>5 DEF MarkProtecting, MarkUncertain, SetOp, OpStates
    <3>4. QED BY <1>0, <3>1, <3>2, <3>3, OpStateKept
  <2>6. CASE WorkerReview(w) \/ Scheduled(w)
    <3>1. wk[w].award \in Awards
      BY <1>0, <2>6 DEF WorkerReview, Scheduled, InTime, At
    <3>2. \/ op' = op
          \/ \E s \in OpStates : /\ op[wk[w].award] # None
                                 /\ op' = [op EXCEPT ![wk[w].award].state = s]
      BY <2>6 DEF WorkerReview, Scheduled, OpStates
    <3>3. QED BY <1>0, <1>1, <3>1, <3>2, OpStateKept
  <2>7. QED BY <1>2, <2>1, <2>2, <2>3, <2>4, <2>5, <2>6 DEF Step
<1>3. ASSUME NEW w \in Workers, \/ Crash(w) \/ StepFails(w) \/ InspectFails(w)
                                \/ PauseReadFails(w) \/ SaveStalls(w)
                                \/ \E a \in Awards : Claim(w, a)
      PROVE  op' = op
  BY <1>3 DEF Crash, StepFails, InspectFails, PauseReadFails, SaveStalls, Claim
<1>4. ASSUME ReconcileLifecycle \/ Tick \/ Serve \/ UNCHANGED vars PROVE op' = op
  BY <1>4 DEF ReconcileLifecycle, Tick, Serve, PreparePremiumGrant, CommitPremiumGrant, vars
<1>5. ASSUME NEW a \in Awards, \/ ExpirePremiumGrant(a) \/ OutboxLeaseExpires(a)
                               \/ BackoffElapses(a) \/ RetryAward(a)
      PROVE  op' = op
  BY <1>5 DEF ExpirePremiumGrant, OutboxLeaseExpires, BackoffElapses, RetryAward
<1>6. ASSUME NEW u \in Users, UserLeaseExpires(u) \/ AccountChanges(u) PROVE op' = op
  BY <1>6 DEF UserLeaseExpires, AccountChanges
<1>7. ASSUME NEW r \in Refs, CustomerCancels(r) \/ CollectionDue(r) PROVE op' = op
  BY <1>7 DEF CustomerCancels, CollectionDue
<1>8. QED BY <1>1, <1>2, <1>3, <1>4, <1>5, <1>6, <1>7 DEF Next

PayKept == \A r \in Refs : /\ pay'[r].peak >= pay[r].peak
                           /\ pay[r].until <= pay[r].peak => pay'[r].until <= pay'[r].peak

\* One payment changes, and neither loses its peak nor passes it.
LEMMA PayRowKept ==
    ASSUME pay \in [Refs -> Payment], NEW r \in Refs, NEW p \in Payment,
           pay' = [pay EXCEPT ![r] = p], p.peak >= pay[r].peak,
           pay[r].until <= pay[r].peak => p.until <= p.peak
    PROVE  PayKept
<1>1. \A s \in Refs : pay'[s] = IF s = r THEN p ELSE pay[s]
  OBVIOUS
<1>2. \A s \in Refs : pay[s].peak \in Nat
  BY DEF Payment
<1>3. QED BY <1>1, <1>2 DEF PayKept

\* Who writes the provider's rows.
LEMMA PayWriters ==
    ASSUME [Next]_vars
    PROVE  \/ pay' = pay
           \/ \E w \in Workers : PausePut(w)
           \/ \E r \in Refs : CustomerCancels(r) \/ CollectionDue(r)
<1>1. ASSUME NEW w \in Workers, Step(w), ~PausePut(w) PROVE pay' = pay
  <2>1. CASE ReadAward(w) \/ AcquireUserLease(w) \/ Complete(w) \/ FailOutbox(w) \/ RaiseAlert(w)
    BY <2>1 DEF ReadAward, AcquireUserLease, Complete, FailOutbox, RaiseAlert
  <2>2. CASE \/ PlanAward(w) \/ SaveFulfillmentPlan(w) \/ RecoverFulfillmentPlan(w)
             \/ PrepareBilling(w) \/ Preparing(w)
    BY <2>2 DEF PlanAward, SaveFulfillmentPlan, RecoverFulfillmentPlan, PrepareBilling, Preparing
  <2>3. CASE SendPrepare(w) \/ SendCommit(w) \/ WorkerReview(w) \/ Scheduled(w)
    BY <2>3 DEF SendPrepare, SendCommit, WorkerReview, Scheduled
  <2>4. CASE Inspect(w) \/ MarkProtecting(w) \/ PauseRead(w) \/ PauseVerify(w) \/ MarkUncertain(w)
    BY <2>4 DEF Inspect, MarkProtecting, PauseRead, PauseVerify, MarkUncertain
  <2>5. QED BY <1>1, <2>1, <2>2, <2>3, <2>4 DEF Step
<1>2. ASSUME NEW w \in Workers, \/ Crash(w) \/ StepFails(w) \/ InspectFails(w)
                                \/ PauseReadFails(w) \/ SaveStalls(w)
                                \/ \E a \in Awards : Claim(w, a)
      PROVE  pay' = pay
  BY <1>2 DEF Crash, StepFails, InspectFails, PauseReadFails, SaveStalls, Claim
<1>3. ASSUME ReconcileLifecycle \/ Tick \/ Serve \/ UNCHANGED vars PROVE pay' = pay
  BY <1>3 DEF ReconcileLifecycle, Tick, Serve, PreparePremiumGrant, CommitPremiumGrant, vars
<1>4. ASSUME NEW a \in Awards, \/ ExpirePremiumGrant(a) \/ OutboxLeaseExpires(a)
                               \/ BackoffElapses(a) \/ RetryAward(a)
      PROVE  pay' = pay
  BY <1>4 DEF ExpirePremiumGrant, OutboxLeaseExpires, BackoffElapses, RetryAward
<1>5. ASSUME NEW u \in Users, UserLeaseExpires(u) \/ AccountChanges(u) PROVE pay' = pay
  BY <1>5 DEF UserLeaseExpires, AccountChanges
<1>6. QED BY <1>1, <1>2, <1>3, <1>4, <1>5 DEF Next

LEMMA PayNext ==
    ASSUME Core, [Next]_vars PROVE PayKept
<1>0. pay \in [Refs -> Payment] /\ now \in Nat
  BY DEF Core, TypeOK
<1>1. CASE pay' = pay
  <2>1. \A r \in Refs : pay[r].peak \in Nat
    BY <1>0 DEF Payment
  <2>2. QED BY <1>1, <2>1 DEF PayKept
<1>2. ASSUME NEW w \in Workers, PausePut(w) PROVE PayKept
  <2> DEFINE r == wk[w].ref
             p == Paused(pay[r], wk[w].plan.end)
  <2>1. wk[w] \in Local /\ r # None /\ wk[w].plan \in Interval
    BY <1>2 DEF PausePut, InTime, At, Core, TypeOK, LocalOK, ProtectPCs, SavedPCs
  <2>2. r \in Refs /\ pay[r] \in Payment /\ wk[w].plan.end \in Nat
    BY <1>0, <2>1 DEF Local, Interval
  <2>3. p \in Payment /\ p.peak >= pay[r].peak /\ p.until <= p.peak
    <3> DEFINE t == wk[w].plan.end
               top == Later(pay[r].peak, t)
    <3>1. pay[r].peak \in Nat /\ t \in Nat
      BY <2>2 DEF Payment
    <3>2. top \in Nat /\ top >= pay[r].peak /\ t <= top
      BY <3>1 DEF Later
    <3>3. p = [pay[r] EXCEPT !.status = "Paused", !.until = t, !.peak = top]
      BY DEF Paused
    <3> HIDE DEF r, p, t, top
    <3>4. p \in Payment /\ p.peak = top /\ p.until = t
      BY <2>2, <3>1, <3>2, <3>3 DEF Payment
    <3>5. QED BY <3>2, <3>4
  <2>4. pay' = pay \/ pay' = [pay EXCEPT ![r] = p]
    BY <1>2 DEF PausePut
  <2> HIDE DEF r, p
  <2>5. QED BY <1>0, <1>1, <2>2, <2>3, <2>4, PayRowKept
<1>3. ASSUME NEW r \in Refs, CustomerCancels(r) \/ CollectionDue(r) PROVE PayKept
  <2> DEFINE cancelled == [pay[r] EXCEPT !.cancelled = TRUE]
             active == [pay[r] EXCEPT !.status = "Active", !.next = now + 1]
             collected == [pay[r] EXCEPT !.next = now + 1]
  <2>1. \A p \in {cancelled, active, collected} :
           p \in Payment /\ p.peak = pay[r].peak /\ p.until = pay[r].until
    <3>0. pay[r] \in Payment /\ now + 1 \in Nat
      BY <1>0
    <3>1. /\ cancelled \in Payment /\ cancelled.peak = pay[r].peak
          /\ cancelled.until = pay[r].until
      BY <3>0 DEF Payment
    <3>2. active \in Payment /\ active.peak = pay[r].peak /\ active.until = pay[r].until
      BY <3>0 DEF Payment
    <3>3. /\ collected \in Payment /\ collected.peak = pay[r].peak
          /\ collected.until = pay[r].until
      BY <3>0 DEF Payment
    <3> HIDE DEF cancelled, active, collected
    <3>4. QED BY <3>1, <3>2, <3>3
  <2>2. \E p \in {cancelled, active, collected} : pay' = [pay EXCEPT ![r] = p]
    BY <1>0, <1>3 DEF CustomerCancels, CollectionDue
  <2>3. pay[r].peak \in Nat
    BY <1>0 DEF Payment
  <2> HIDE DEF cancelled, active, collected
  <2>4. PICK p \in {cancelled, active, collected} : pay' = [pay EXCEPT ![r] = p]
    BY <2>2
  <2>5. /\ p \in Payment /\ p.peak >= pay[r].peak
        /\ pay[r].until <= pay[r].peak => p.until <= p.peak
    BY <2>1, <2>3, <2>4
  <2>6. QED BY <1>0, <2>4, <2>5, PayRowKept
<1>4. QED BY <1>1, <1>2, <1>3, PayWriters

(***************************************************************************)
(* A covered award stays covered.                                          *)
(***************************************************************************)
LEMMA CoveredStays ==
    ASSUME Core, [Next]_vars, NEW a \in Awards, Covered(a) PROVE Covered(a)'
<1>1. /\ op \in [Awards -> Operation \cup {None}] /\ pay \in [Refs -> Payment]
      /\ plan \in [Awards -> Interval \cup {None}]
  BY DEF Core, TypeOK
<1>2. pay' \in [Refs -> Payment]
  BY CoreNext DEF Core, TypeOK
<1>3. op[a] # None /\ op[a].ref \in Refs /\ plan[a] # None
  BY <1>1 DEF Covered, Core, OneInterval, Operation
<1>4. op'[a] # None /\ op'[a].ref = op[a].ref /\ plan'[a] = plan[a]
  BY <1>3, OpNext, PlanKept DEF OpKept
<1>5. /\ pay[op[a].ref].peak \in Nat /\ pay'[op[a].ref].peak \in Nat /\ plan[a].end \in Nat
      /\ pay'[op[a].ref].peak >= pay[op[a].ref].peak
  BY <1>1, <1>2, <1>3, PayNext DEF PayKept, Payment, Interval
<1>6. QED BY <1>4, <1>5 DEF Covered

(***************************************************************************)
(* Frames: a replica that does not move, or moves without learning, keeps  *)
(* what it knows.                                                          *)
(***************************************************************************)
LEMMA ShieldCarry ==
    ASSUME Core, ShieldOK, [Next]_vars, NEW v \in Workers, wk'[v] = wk[v]
    PROVE  ShieldLocal(v)'
<1>1. ShieldLocal(v) /\ LocalOK(v)
  BY DEF ShieldOK, Core
<1>2. wk[v].pc \in PlanPCs \cup OpPCs => wk[v].award \in Awards
  BY <1>1 DEF LocalOK, PlanPCs, SavedPCs, OpPCs, ProtectPCs
<1>3. wk[v].pc \in OpPCs /\ wk[v].ref # None => op'[wk[v].award].ref = wk[v].ref
  BY <1>1, <1>2, OpNext DEF ShieldLocal, LocalOK, OpKept
<1>4. CommitPCs \subseteq PlanPCs
  BY DEF CommitPCs, PlanPCs, SavedPCs
<1>5. wk[v].pc \in CommitPCs /\ wk[v].ref # None => Covered(wk[v].award)'
  BY <1>1, <1>2, <1>4, CoveredStays DEF ShieldLocal
<1>6. QED BY <1>1, <1>3, <1>5 DEF ShieldLocal, IntervalRuleFor, Covered

LEMMA ShieldFree ==
    ASSUME NEW w \in Workers, wk'[w].pc \notin PlanPCs \cup OpPCs
    PROVE  ShieldLocal(w)'
BY DEF ShieldLocal, PlanPCs, CommitPCs, SavedPCs

LEMMA ShieldGoto ==
    ASSUME Core, ShieldOK, [Next]_vars, NEW w \in Workers, NEW pc \in PCs, Goto(w, pc),
           pc \in PlanPCs => wk[w].pc \in PlanPCs,
           pc \in OpPCs => wk[w].pc \in OpPCs,
           pc \in CommitPCs => wk[w].pc \in CommitPCs
    PROVE  ShieldLocal(w)'
<1>1. ShieldLocal(w) /\ LocalOK(w) /\ wk \in [Workers -> Local]
  BY DEF ShieldOK, Core, TypeOK
<1>2. /\ wk'[w].pc = pc /\ wk'[w].award = wk[w].award /\ wk'[w].plan = wk[w].plan
      /\ wk'[w].ref = wk[w].ref
  BY <1>1, GotoFacts
<1>3. wk[w].pc \in PlanPCs \cup OpPCs => wk[w].award \in Awards
  BY <1>1 DEF LocalOK, PlanPCs, SavedPCs, OpPCs, ProtectPCs
<1>4. wk[w].pc \in OpPCs /\ wk[w].ref # None => op'[wk[w].award].ref = wk[w].ref
  BY <1>1, <1>3, OpNext DEF ShieldLocal, LocalOK, OpKept
<1>5. CommitPCs \subseteq PlanPCs
  BY DEF CommitPCs, PlanPCs, SavedPCs
<1>6. wk[w].pc \in CommitPCs /\ wk[w].ref # None => Covered(wk[w].award)'
  <2>1. ASSUME wk[w].pc \in CommitPCs, wk[w].ref # None
        PROVE  op'[wk[w].award] # None /\ pay'[op'[wk[w].award].ref].peak >= plan'[wk[w].award].end
    <3>1. wk[w].award \in Awards /\ Covered(wk[w].award)
      BY <1>1, <1>3, <1>5, <2>1 DEF ShieldLocal
    <3>2. \A a \in Awards : Covered(a) => op'[a] # None /\ pay'[op'[a].ref].peak >= plan'[a].end
      BY CoveredStays DEF Covered
    <3>3. QED BY <3>1, <3>2
  <2>2. QED BY <1>2, <2>1 DEF Covered
<1>7. QED BY <1>1, <1>2, <1>4, <1>6 DEF ShieldLocal, IntervalRuleFor, Covered

LEMMA ShieldJoin ==
    ASSUME Core, ShieldOK, [Next]_vars, \A w \in Workers : ShieldLocal(w)',
           \A m \in net' : m.kind = "commit" /\ m.span.rule = "provider-monthly"
                              => m.award \in Awards /\ Covered(m.award),
           \A a \in Awards : Granted(a)' /\ plan'[a].rule = "provider-monthly" => Covered(a)
    PROVE  ShieldOK'
<1>1. PeakReached'
  BY PayNext DEF ShieldOK, PeakReached, PayKept
<1>2. \A a \in Awards : Covered(a) => Covered(a)'
  BY CoveredStays
<1>3. ShieldRequests'
  BY <1>2 DEF ShieldRequests, Covered
<1>4. ShieldGrants'
  BY <1>2 DEF ShieldGrants
<1>5. QED BY <1>1, <1>3, <1>4 DEF ShieldOK

\* No commit request is new.
NoNewCommit == \A m \in net' : m.kind = "commit"
                  => \E n \in net : n.kind = "commit" /\ n.award = m.award /\ n.span = m.span

LEMMA ShieldFrame ==
    ASSUME Core, ShieldOK, [Next]_vars, \A w \in Workers : ShieldLocal(w)', NoNewCommit,
           \A a \in Awards : Granted(a)' => Granted(a)
    PROVE  ShieldOK'
<1>1. \A n \in net : n.award \in Awards
  BY DEF Core, TypeOK, Request
<1>2. \A m \in net' : m.kind = "commit" /\ m.span.rule = "provider-monthly"
                         => m.award \in Awards /\ Covered(m.award)
  BY <1>1 DEF NoNewCommit, ShieldOK, ShieldRequests
<1>3. \A a \in Awards : Granted(a) => plan'[a] = plan[a]
  BY PlanKept DEF Core, OneInterval, Granted
<1>4. \A a \in Awards : Granted(a)' /\ plan'[a].rule = "provider-monthly" => Covered(a)
  BY <1>3 DEF ShieldOK, ShieldGrants
<1>5. QED BY <1>2, <1>4, ShieldJoin

\* One replica moves and Users does nothing.
LEMMA ShieldMove ==
    ASSUME Core, ShieldOK, [Next]_vars, NEW w \in Workers, Others(w), ShieldLocal(w)',
           NoNewCommit, grant' = grant
    PROVE  ShieldOK'
<1>1. \A v \in Workers : ShieldLocal(v)'
  BY ShieldCarry DEF Others
<1>2. QED BY <1>1, ShieldFrame DEF Granted

\* The same with nothing new in flight, for the two control transfers.
LEMMA ShieldStep ==
    ASSUME Core, ShieldOK, [Next]_vars, NEW w \in Workers, Others(w), ShieldLocal(w)',
           net' = net, grant' = grant
    PROVE  ShieldOK'
<1>1. NoNewCommit
  BY DEF NoNewCommit
<1>2. QED BY <1>1, ShieldMove

LEMMA ShieldReturn ==
    ASSUME Core, ShieldOK, [Next]_vars, NEW w \in Workers, NEW pc \in {"fail", "complete"},
           Return(w, pc), NoNewCommit, grant' = grant
    PROVE  ShieldOK'
<1>1. wk \in [Workers -> Local] /\ pc \in PCs /\ pc \notin PlanPCs \cup OpPCs
  BY DEF Core, TypeOK, PCs, PlanPCs, SavedPCs, OpPCs, ProtectPCs
<1>2. Others(w) /\ wk'[w].pc = pc
  BY <1>1, ReturnFacts
<1>3. QED BY <1>1, <1>2, ShieldFree, ShieldMove

(***************************************************************************)
(* The steps that learn something.                                         *)
(***************************************************************************)
\* Planning: the rule of the plan, stored or new, is that of the reference.
LEMMA PlanAwardMade ==
    ASSUME Core, NEW w \in Workers, PlanAward(w), ~NeedsReview(w, wk[w].version)
    PROVE  LET a    == wk[w].award
               rule == IntervalRuleFor(wk'[w].ref)
           IN  /\ wk'[w].award = a
               /\ plan[a] # None => plan[a].rule = rule /\ wk'[w].plan = plan[a]
               /\ plan[a] = None => \E start : wk'[w].plan = PrizeInterval(start, Months[a], rule)
<1> DEFINE a == wk[w].award
           acc == account[UserOf[a]]
           rule == IntervalRuleFor(acc.ref)
<1>1. wk \in [Workers -> Local] /\ wk[w] \in Local
  BY DEF Core, TypeOK
<1>2. PICK start \in CoverageStart(UserOf[a]) :
        /\ ~PlanRefused(w, rule, start)
        /\ wk' = [wk EXCEPT
                ![w].pc = "save",
                ![w].plan = IF plan[a] # None THEN plan[a]
                            ELSE PrizeInterval(start, Months[a], rule),
                ![w].fresh = (plan[a] = None),
                ![w].ref = acc.ref,
                ![w].unsure = (acc.uncertain \/ acc.cancel)]
  BY DEF PlanAward
<1> DEFINE i == IF plan[a] # None THEN plan[a] ELSE PrizeInterval(start, Months[a], rule)
           f == (plan[a] = None)
           s == (acc.uncertain \/ acc.cancel)
           row == [wk[w] EXCEPT !.pc = "save", !.plan = i, !.fresh = f, !.ref = acc.ref,
                                !.unsure = s]
<1>3. plan[a] # None => plan[a].rule = rule
  <2> HIDE DEF rule
  <2>1. QED BY <1>2 DEF PlanRefused
<1>4. wk'[w] = row
  <2>1. wk' = [wk EXCEPT ![w] = row]
    <3> HIDE DEF acc
    <3>1. QED BY <1>1, <1>2
  <2> HIDE DEF row
  <2>2. QED BY <1>1, <2>1
<1>5. row.plan = i /\ row.ref = acc.ref /\ row.award = a
  <2> HIDE DEF i, f, s, acc
  <2>1. QED BY <1>1 DEF Local
<1>6. wk'[w].plan = i /\ wk'[w].ref = acc.ref /\ wk'[w].award = a
  <2> HIDE DEF row, i, acc
  <2>1. QED BY <1>4, <1>5
<1>7. QED
  <2> HIDE DEF acc
  <2>1. QED BY <1>3, <1>6

LEMMA PlanAwardRule ==
    ASSUME Core, NEW w \in Workers, PlanAward(w), ~NeedsReview(w, wk[w].version)
    PROVE  wk'[w].plan.rule = IntervalRuleFor(wk'[w].ref)
<1> DEFINE a == wk[w].award
           rule == IntervalRuleFor(wk'[w].ref)
<1>1. /\ plan[a] # None => plan[a].rule = rule /\ wk'[w].plan = plan[a]
      /\ plan[a] = None => \E start : wk'[w].plan = PrizeInterval(start, Months[a], rule)
  BY PlanAwardMade
<1>2. CASE plan[a] # None
  BY <1>1, <1>2
<1>3. CASE plan[a] = None
  <2> HIDE DEF rule
  <2>1. PICK start : wk'[w].plan = PrizeInterval(start, Months[a], rule)
    BY <1>1, <1>3
  <2>2. wk'[w].plan.rule = rule
    BY <2>1 DEF PrizeInterval
  <2>3. QED BY <2>2 DEF rule
<1>4. QED BY <1>2, <1>3

LEMMA ShieldReview ==
    ASSUME Core, ShieldOK, [Next]_vars, NEW w \in Workers, NeedsReview(w, wk[w].version),
           net' = net, grant' = grant
    PROVE  ShieldOK'
<1>1. wk \in [Workers -> Local] /\ "alertReview" \in PCs /\ "alertReview" \notin PlanPCs \cup OpPCs
  BY DEF Core, TypeOK, PCs, WorkPCs, PlanPCs, SavedPCs, OpPCs, ProtectPCs
<1>2. Others(w) /\ wk'[w].pc = "alertReview"
  BY <1>1, GotoFacts DEF NeedsReview
<1>3. QED BY <1>1, <1>2, ShieldFree, ShieldStep

\* Saving the plan keeps what was planned.
LEMMA SaveMoves ==
    ASSUME wk \in [Workers -> Local], NEW w \in Workers,
           SaveFulfillmentPlan(w) \/ RecoverFulfillmentPlan(w),
           ~NeedsReview(w, wk[w].version), ~Return(w, "fail")
    PROVE  /\ Others(w) /\ wk'[w].pc = "billing" /\ wk'[w].award = wk[w].award
           /\ wk'[w].plan = wk[w].plan /\ wk'[w].ref = wk[w].ref
<1>1. \E n : wk' = [wk EXCEPT ![w].pc = "billing", ![w].version = n]
  BY DEF SaveFulfillmentPlan, RecoverFulfillmentPlan, ProjectFulfillmentPlan
<1>2. QED BY <1>1 DEF Others, Local

LEMMA ShieldPlanning ==
    ASSUME Core, ShieldOK, [Next]_vars, NEW w \in Workers,
           \/ PlanAward(w) \/ SaveFulfillmentPlan(w) \/ RecoverFulfillmentPlan(w)
    PROVE  ShieldOK'
<1>1. wk \in [Workers -> Local] /\ net' = net /\ grant' = grant
  BY DEF Core, TypeOK, PlanAward, SaveFulfillmentPlan, RecoverFulfillmentPlan, usersVars
<1>2. {"save", "billing"} \cap (OpPCs \cup CommitPCs) = {}
  BY DEF SavedPCs, OpPCs, ProtectPCs, CommitPCs
<1>3. CASE NeedsReview(w, wk[w].version)
  BY <1>1, <1>3, ShieldReview
<1>4. CASE PlanAward(w) /\ ~NeedsReview(w, wk[w].version)
  <2>1. Others(w) /\ wk'[w].pc = "save"
    BY <1>1, <1>4, PlanAwardMoves
  <2>2. ShieldLocal(w)'
    BY <1>2, <1>4, <2>1, PlanAwardRule DEF ShieldLocal, IntervalRuleFor
  <2>3. QED BY <1>1, <2>1, <2>2, ShieldStep
<1>5. CASE Return(w, "fail")
  BY <1>1, <1>5, ShieldReturn DEF NoNewCommit
<1>6. CASE /\ SaveFulfillmentPlan(w) \/ RecoverFulfillmentPlan(w)
           /\ ~NeedsReview(w, wk[w].version) /\ ~Return(w, "fail")
  <2>1. /\ Others(w) /\ wk'[w].pc = "billing" /\ wk'[w].plan = wk[w].plan
        /\ wk'[w].ref = wk[w].ref
    BY <1>1, <1>6, SaveMoves
  <2>2. wk[w].pc = "save"
    BY <1>6 DEF SaveFulfillmentPlan, RecoverFulfillmentPlan, At
  <2>3. wk[w].plan.rule = IntervalRuleFor(wk[w].ref)
    BY <2>2 DEF ShieldOK, ShieldLocal, PlanPCs
  <2>4. ShieldLocal(w)'
    BY <1>2, <2>1, <2>3 DEF ShieldLocal, IntervalRuleFor
  <2>5. QED BY <1>1, <2>1, <2>4, ShieldStep
<1>7. QED BY <1>3, <1>4, <1>5, <1>6

\* The billing operation names the reference the plan was made for.
LEMMA ShieldBilling ==
    ASSUME Core, ShieldOK, [Next]_vars, NEW w \in Workers, PrepareBilling(w)
    PROVE  ShieldOK'
<1> DEFINE a == wk[w].award
<1>0. /\ wk \in [Workers -> Local] /\ net' = net /\ grant' = grant /\ wk[w].pc = "billing"
      /\ op \in [Awards -> Operation \cup {None}] /\ a \in Awards
  BY DEF Core, TypeOK, LocalOK, PrepareBilling, InTime, At, usersVars
<1>1. CASE NeedsReview(w, wk[w].version)
  BY <1>0, <1>1, ShieldReview
<1>2. CASE ~NeedsReview(w, wk[w].version)
  <2>1. /\ Goto(w, "preparing")
        /\ wk[w].ref # None => \/ op' = op /\ op[a].ref = wk[w].ref
                               \/ op' = [op EXCEPT ![a] = [ref |-> wk[w].ref,
                                            start |-> wk[w].plan.start,
                                            end |-> wk[w].plan.end, state |-> "pending"]]
    BY <1>2 DEF PrepareBilling, BillingPlanChanged
  <2>2. wk[w].ref # None => op'[a].ref = wk[w].ref
    BY <1>0, <2>1
  <2>3. /\ Others(w) /\ wk'[w].pc = "preparing" /\ wk'[w].award = a
        /\ wk'[w].plan = wk[w].plan /\ wk'[w].ref = wk[w].ref
    <3>1. "preparing" \in PCs
      BY DEF PCs, WorkPCs
    <3>2. QED BY <1>0, <2>1, <3>1, GotoFacts
  <2>4. wk[w].plan.rule = IntervalRuleFor(wk[w].ref)
    BY <1>0 DEF ShieldOK, ShieldLocal, PlanPCs, SavedPCs
  <2>5. "preparing" \notin CommitPCs
    BY DEF CommitPCs
  <2>6. ShieldLocal(w)'
    BY <2>2, <2>3, <2>4, <2>5 DEF ShieldLocal, IntervalRuleFor
  <2>7. QED BY <1>0, <2>3, <2>6, ShieldStep
<1>3. QED BY <1>1, <1>2

LEMMA ShieldPreparing ==
    ASSUME Core, ShieldOK, [Next]_vars, NEW w \in Workers, Preparing(w)
    PROVE  ShieldOK'
<1> DEFINE a == wk[w].award
<1>0. /\ wk \in [Workers -> Local] /\ net' = net /\ grant' = grant /\ op' = op
      /\ wk[w].pc = "preparing" /\ wk[w].plan = plan[a]
  BY DEF Core, TypeOK, LocalOK, SavedPCs, Preparing, InTime, At, usersVars
<1>1. /\ Others(w) /\ wk'[w].pc = "prepare" /\ wk'[w].award = a
      /\ wk'[w].plan = wk[w].plan /\ wk'[w].ref = wk[w].ref
  BY <1>0 DEF Preparing, Others, Local
<1>2. ShieldLocal(w)
  BY DEF ShieldOK
<1>3. /\ "preparing" \in PlanPCs /\ "preparing" \in OpPCs /\ "prepare" \notin CommitPCs
  BY DEF PlanPCs, SavedPCs, OpPCs, CommitPCs
<1>4. ShieldLocal(w)'
  BY <1>0, <1>1, <1>2, <1>3 DEF ShieldLocal, IntervalRuleFor
<1>5. QED BY <1>0, <1>1, <1>4, ShieldStep

\* A read of the provider that finds the pause long enough covers the award.
LEMMA SeenCovered ==
    ASSUME Core, ShieldOK, NEW w \in Workers, wk[w].pc \in {"inspect", "pauseRead", "verify"},
           ProtectedThrough(pay[wk[w].ref], wk[w].plan.end)
    PROVE  wk[w].award \in Awards /\ Covered(wk[w].award)
<1> DEFINE a == wk[w].award
<1>1. /\ wk[w] \in Local /\ wk[w].ref # None /\ a \in Awards
      /\ wk[w].plan = plan[a] /\ wk[w].plan \in Interval /\ op[a] # None
      /\ pay \in [Refs -> Payment]
  BY DEF Core, TypeOK, LocalOK, SavedPCs, OpPCs, ProtectPCs
<1>2. wk[w].ref \in Refs /\ op[a].ref = wk[w].ref
  BY <1>1 DEF Local, ShieldOK, ShieldLocal, OpPCs, ProtectPCs
<1>3. /\ pay[wk[w].ref].until \in Nat /\ pay[wk[w].ref].peak \in Nat /\ wk[w].plan.end \in Nat
  BY <1>1, <1>2 DEF Payment, Interval
<1>4. pay[wk[w].ref].until <= pay[wk[w].ref].peak /\ pay[wk[w].ref].until >= wk[w].plan.end
  BY <1>2 DEF ShieldOK, PeakReached, ProtectedThrough
<1>5. QED BY <1>1, <1>2, <1>3, <1>4 DEF Covered

LEMMA ShieldProvider ==
    ASSUME Core, ShieldOK, [Next]_vars, NEW w \in Workers,
           \/ Inspect(w) \/ MarkProtecting(w) \/ PauseRead(w) \/ PausePut(w) \/ PauseVerify(w)
           \/ MarkUncertain(w) \/ InspectFails(w) \/ PauseReadFails(w)
    PROVE  ShieldOK'
<1>0. /\ wk \in [Workers -> Local] /\ net' = net /\ grant' = grant
      /\ wk[w].pc \in ProtectPCs
  BY DEF Core, TypeOK, Inspect, MarkProtecting, PauseRead, PausePut, PauseVerify, MarkUncertain,
         InspectFails, PauseReadFails, InTime, At, ProtectPCs, usersVars
<1>1. CASE \E pc \in {"review", "protecting", "pauseRead", "put", "verify", "pauseError"} : Goto(w, pc)
  <2>1. PICK pc \in {"review", "protecting", "pauseRead", "put", "verify", "pauseError"} : Goto(w, pc)
    BY <1>1
  <2>2. CASE pc = "review"
    <3>1. "review" \in PCs /\ "review" \notin PlanPCs \cup OpPCs
      BY DEF PCs, WorkPCs, PlanPCs, SavedPCs, OpPCs, ProtectPCs
    <3>2. Others(w) /\ wk'[w].pc = "review"
      BY <1>0, <2>1, <2>2, <3>1, GotoFacts
    <3>3. QED BY <1>0, <3>1, <3>2, ShieldFree, ShieldStep
  <2>3. CASE pc = "pauseError"
    <3>1. "pauseError" \in PCs /\ "pauseError" \notin PlanPCs \cup CommitPCs /\ wk[w].pc \in OpPCs
      BY <1>0 DEF PCs, WorkPCs, PlanPCs, SavedPCs, OpPCs, CommitPCs
    <3>2. ShieldLocal(w)' /\ Others(w)
      BY <1>0, <2>1, <2>3, <3>1, ShieldGoto, GotoFacts
    <3>3. QED BY <1>0, <3>2, ShieldStep
  <2>4. CASE pc \in {"protecting", "pauseRead", "put", "verify"}
    <3>1. wk[w].pc \in {"inspect", "protecting", "pauseRead", "put", "verify"}
      <4>1. {"review"} \cup {pc} \subseteq PCs
        BY <2>4 DEF PCs, WorkPCs
      <4>2. wk[w].pc = "pauseError" => Goto(w, "review")
        BY DEF Inspect, MarkProtecting, PauseRead, PausePut, PauseVerify, MarkUncertain,
               InspectFails, PauseReadFails, InTime, At
      <4>3. wk[w].pc # "pauseError"
        BY <1>0, <2>1, <2>4, <4>1, <4>2, GotoFacts
      <4>4. QED BY <1>0, <4>3 DEF ProtectPCs
    <3>2. pc \in PCs /\ pc \notin CommitPCs /\ wk[w].pc \in OpPCs \cap PlanPCs
      BY <2>4, <3>1 DEF PCs, WorkPCs, PlanPCs, SavedPCs, OpPCs, ProtectPCs, CommitPCs
    <3>3. ShieldLocal(w)' /\ Others(w)
      BY <1>0, <2>1, <3>2, ShieldGoto, GotoFacts
    <3>4. QED BY <1>0, <3>3, ShieldStep
  <2>5. QED BY <2>2, <2>3, <2>4
<1>2. CASE /\ Goto(w, "commit") /\ wk[w].pc \in {"inspect", "pauseRead", "verify"}
           /\ ProtectedThrough(pay[wk[w].ref], wk[w].plan.end)
  <2> DEFINE a == wk[w].award
  <2>1. a \in Awards /\ Covered(a)
    BY <1>2, SeenCovered
  <2>2. op'[a] # None /\ pay'[op'[a].ref].peak >= plan'[a].end
    <3>1. \A b \in Awards : Covered(b) => op'[b] # None /\ pay'[op'[b].ref].peak >= plan'[b].end
      BY CoveredStays DEF Covered
    <3>2. QED BY <2>1, <3>1
  <2>3. /\ Others(w) /\ wk'[w].pc = "commit" /\ wk'[w].award = a
        /\ wk'[w].plan = wk[w].plan /\ wk'[w].ref = wk[w].ref
    <3>1. "commit" \in PCs
      BY DEF PCs, WorkPCs
    <3>2. QED BY <1>0, <1>2, <3>1, GotoFacts
  <2>4. /\ wk[w].plan.rule = IntervalRuleFor(wk[w].ref) /\ op[a].ref = wk[w].ref
        /\ op[a] # None
    BY <1>2 DEF ShieldOK, ShieldLocal, PlanPCs, SavedPCs, OpPCs, ProtectPCs, Core, LocalOK
  <2>5. op'[a].ref = wk[w].ref
    BY <2>1, <2>4, OpNext DEF OpKept
  <2>6. ShieldLocal(w)'
    BY <2>2, <2>3, <2>4, <2>5 DEF ShieldLocal, IntervalRuleFor, Covered
  <2>7. QED BY <1>0, <2>3, <2>6, ShieldStep
<1>3. QED
  BY <1>1, <1>2 DEF Inspect, MarkProtecting, PauseRead, PausePut, PauseVerify, MarkUncertain,
                    InspectFails, PauseReadFails, InTime, At

\* A request leaves with what its sender knows.
LEMMA ShieldSend ==
    ASSUME Core, ShieldOK, [Next]_vars, NEW w \in Workers, SendPrepare(w) \/ SendCommit(w)
    PROVE  ShieldOK'
<1> DEFINE a == wk[w].award
<1>0. wk \in [Workers -> Local] /\ grant' = grant
  BY DEF Core, TypeOK, SendPrepare, SendCommit, usersVars
<1>1. \A v \in Workers : ShieldLocal(v)'
  <2>1. /\ "prepareWait" \in PCs /\ "commitWait" \in PCs
        /\ "prepareWait" \notin CommitPCs /\ "commit" \in CommitPCs
        /\ {"prepare", "commit"} \subseteq PlanPCs \cap OpPCs
    BY DEF PCs, WorkPCs, CommitPCs, PlanPCs, SavedPCs, OpPCs, ProtectPCs
  <2>2. \/ wk[w].pc = "prepare" /\ Goto(w, "prepareWait")
        \/ wk[w].pc = "commit" /\ Goto(w, "commitWait")
    BY DEF SendPrepare, SendCommit, InTime, At
  <2>3. ShieldLocal(w)' /\ Others(w)
    BY <1>0, <2>1, <2>2, ShieldGoto, GotoFacts
  <2>4. QED BY <2>3, ShieldCarry DEF Others
<1>2. CASE SendPrepare(w)
  <2>1. NoNewCommit
    BY <1>2 DEF SendPrepare, Send, NoNewCommit
  <2>2. QED BY <1>0, <1>1, <2>1, ShieldFrame DEF Granted
<1>3. CASE SendCommit(w)
  <2>1. wk[w].pc = "commit" /\ a \in Awards
    BY <1>3 DEF SendCommit, InTime, At, Core, LocalOK
  <2>2. ShieldLocal(w)
    BY DEF ShieldOK
  <2>3. wk[w].plan.rule = "provider-monthly" => Covered(a)
    BY <2>1, <2>2 DEF ShieldLocal, PlanPCs, SavedPCs, CommitPCs, IntervalRuleFor
  <2>4. \A m \in net' : \/ m \in net
                        \/ m.award = a /\ m.span = wk[w].plan
    BY <1>3 DEF SendCommit, Send
  <2>5. \A m \in net : m.award \in Awards
    BY DEF Core, TypeOK, Request
  <2>6. \A m \in net' : m.kind = "commit" /\ m.span.rule = "provider-monthly"
                           => m.award \in Awards /\ Covered(m.award)
    BY <2>1, <2>3, <2>4, <2>5 DEF ShieldOK, ShieldRequests
  <2>7. \A b \in Awards : Granted(b) => plan'[b] = plan[b]
    BY PlanKept DEF Core, OneInterval, Granted
  <2>8. \A b \in Awards : Granted(b)' /\ plan'[b].rule = "provider-monthly" => Covered(b)
    BY <1>0, <2>7 DEF Granted, ShieldOK, ShieldGrants
  <2>9. QED BY <1>1, <2>6, <2>8, ShieldJoin
<1>4. QED BY <1>2, <1>3

\* Users serves a request: only a covered commit commits a subscriber's prize.
LEMMA ShieldReply ==
    ASSUME Core, ShieldOK, [Next]_vars, NEW m \in net, NEW ok, NEW pc \in PCs, Reply(m, ok, pc),
           m.from # None /\ Goto(m.from, pc) => ShieldLocal(m.from)'
    PROVE  NoNewCommit /\ \A v \in Workers : ShieldLocal(v)'
<1>0. wk \in [Workers -> Local] /\ m \in Request
  BY DEF Core, TypeOK
<1>1. NoNewCommit
  BY DEF NoNewCommit, Reply
<1>2. CASE m.from = None
  <2>1. wk' = wk
    BY <1>2 DEF Reply
  <2>2. QED BY <1>1, <2>1, ShieldCarry
<1>3. CASE m.from # None
  <2>1. m.from \in Workers
    BY <1>0, <1>3 DEF Request
  <2>2. "fail" \in PCs /\ "fail" \notin PlanPCs \cup OpPCs
    BY DEF PCs, PlanPCs, SavedPCs, OpPCs, ProtectPCs
  <2>3. Goto(m.from, pc) \/ Return(m.from, "fail")
    BY <1>3 DEF Reply
  <2>4. Others(m.from)
    BY <1>0, <2>1, <2>2, <2>3, GotoFacts, ReturnFacts
  <2>5. ShieldLocal(m.from)'
    <3>1. CASE Return(m.from, "fail")
      BY <1>0, <2>1, <2>2, <3>1, ReturnFacts, ShieldFree
    <3>2. QED BY <1>3, <2>3, <3>1
  <2>6. QED BY <1>1, <2>4, <2>5, ShieldCarry DEF Others
<1>4. QED BY <1>2, <1>3

LEMMA ShieldPrepareServed ==
    ASSUME Core, ShieldOK, [Next]_vars, NEW m \in net, PreparePremiumGrant(m) PROVE ShieldOK'
<1> DEFINE pc == AfterPrepare(m)
<1>0. /\ wk \in [Workers -> Local] /\ grant \in [Awards -> GrantRow] /\ m \in Request
      /\ m.kind = "prepare"
  BY DEF Core, TypeOK, PreparePremiumGrant
<1>1. PICK ok : Reply(m, ok, pc)
  BY DEF PreparePremiumGrant
<1>2. pc \in PCs
  BY DEF AfterPrepare, PCs, WorkPCs
<1>3. ASSUME m.from # None, Goto(m.from, pc) PROVE ShieldLocal(m.from)'
  <2> DEFINE w == m.from
  <2>1. w \in Workers /\ wk[w].pc = "prepareWait"
    BY <1>0, <1>3 DEF Request, Core, Messages, WaitPC
  <2>2. "prepareWait" \in PlanPCs \cap OpPCs /\ "inspect" \notin CommitPCs
    BY DEF PlanPCs, SavedPCs, OpPCs, CommitPCs
  <2>3. CASE pc = "inspect"
    <3> HIDE DEF w
    <3>1. Goto(w, "inspect")
      BY <1>3, <2>3 DEF w
    <3>2. ShieldLocal(w)'
      BY <1>2, <2>1, <2>2, <2>3, <3>1, ShieldGoto
    <3>3. QED BY <3>2 DEF w
  <2>4. CASE pc # "inspect"
    <3>1. pc = "commit" /\ wk[w].ref = None
      BY <1>3, <2>4 DEF AfterPrepare
    <3>2. /\ wk'[w].plan = wk[w].plan /\ wk'[w].ref = None
      BY <1>0, <1>2, <1>3, <2>1, <3>1, GotoFacts
    <3>3. wk[w].plan.rule = IntervalRuleFor(None)
      BY <2>1, <2>2, <3>1 DEF ShieldOK, ShieldLocal
    <3>4. QED BY <3>2, <3>3 DEF ShieldLocal, IntervalRuleFor
  <2>5. QED BY <2>3, <2>4
<1>4. NoNewCommit /\ \A v \in Workers : ShieldLocal(v)'
  <2> HIDE DEF pc
  <2>1. QED BY <1>1, <1>2, <1>3, ShieldReply
<1>5. \A a \in Awards : Granted(a)' => Granted(a)
  <2>1. \/ grant' = grant
        \/ grant' = [grant EXCEPT ![m.award] = [state |-> "prepared", span |-> m.span]]
    BY DEF PreparePremiumGrant
  <2>2. QED BY <1>0, <2>1 DEF Granted
<1>6. QED BY <1>4, <1>5, ShieldFrame

LEMMA ShieldCommitServed ==
    ASSUME Core, ShieldOK, [Next]_vars, NEW m \in net, CommitPremiumGrant(m) PROVE ShieldOK'
<1>0. /\ wk \in [Workers -> Local] /\ grant \in [Awards -> GrantRow] /\ m \in Request
      /\ m.kind = "commit" /\ m.award \in Awards /\ m.span = plan[m.award] /\ plan' = plan
  BY DEF Core, TypeOK, Messages, Request, CommitPremiumGrant, awardVars
<1>1. ASSUME m.from # None, Goto(m.from, "schedule") PROVE ShieldLocal(m.from)'
  <2> DEFINE w == m.from
  <2>1. w \in Workers /\ wk[w].pc = "commitWait"
    BY <1>0, <1>1 DEF Request, Core, Messages, WaitPC
  <2>2. /\ "commitWait" \in PlanPCs \cap OpPCs /\ "schedule" \notin CommitPCs
        /\ "schedule" \in PCs
    BY DEF PlanPCs, SavedPCs, OpPCs, CommitPCs, PCs, WorkPCs
  <2> HIDE DEF w
  <2>3. Goto(w, "schedule")
    BY <1>1 DEF w
  <2>4. ShieldLocal(w)'
    BY <2>1, <2>2, <2>3, ShieldGoto
  <2>5. QED BY <2>4 DEF w
<1>2. NoNewCommit /\ \A v \in Workers : ShieldLocal(v)'
  <2>1. Reply(m, Live(m.award), "schedule") /\ "schedule" \in PCs
    BY DEF CommitPremiumGrant, PCs, WorkPCs
  <2>2. QED BY <1>1, <2>1, ShieldReply
<1>3. \A b \in Awards : Granted(b)' => Granted(b) \/ b = m.award
  BY <1>0 DEF CommitPremiumGrant, Granted
<1>4. \A b \in Awards : Granted(b)' /\ plan'[b].rule = "provider-monthly" => Covered(b)
  BY <1>0, <1>3 DEF ShieldOK, ShieldGrants, ShieldRequests
<1>5. \A n \in net' : n.kind = "commit" /\ n.span.rule = "provider-monthly"
                         => n.award \in Awards /\ Covered(n.award)
  <2>1. \A n \in net : n.award \in Awards
    BY DEF Core, TypeOK, Request
  <2>2. QED BY <1>2, <2>1 DEF NoNewCommit, ShieldOK, ShieldRequests
<1>6. QED BY <1>2, <1>4, <1>5, ShieldJoin

(***************************************************************************)
(* The other steps teach nobody anything.                                  *)
(***************************************************************************)
LEMMA OrphanedCommits ==
    ASSUME Core, NEW w \in Workers, net' = Orphaned(w) PROVE NoNewCommit
<1>1. net \subseteq Request
  BY DEF Core, TypeOK
<1>2. \A n \in net : [n EXCEPT !.from = None].kind = n.kind /\ [n EXCEPT !.from = None].award = n.award
                     /\ [n EXCEPT !.from = None].span = n.span
  BY <1>1 DEF Request
<1>3. ASSUME NEW m \in net', m.kind = "commit"
      PROVE  \E n \in net : n.kind = "commit" /\ n.award = m.award /\ n.span = m.span
  <2>1. PICK n \in net : m = IF n.from = w THEN [n EXCEPT !.from = None] ELSE n
    BY DEF Orphaned
  <2>2. n.kind = m.kind /\ n.award = m.award /\ n.span = m.span
    BY <1>2, <2>1
  <2>3. QED BY <1>3, <2>2
<1>4. QED BY <1>3 DEF NoNewCommit

LEMMA ShieldOfReplica ==
    ASSUME Core, ShieldOK, NEW w \in Workers, Step(w) PROVE ShieldOK'
<1> USE DEF queueVars, awardVars, usersVars
<1>0. wk \in [Workers -> Local] /\ [Next]_vars
  BY DEF Core, TypeOK, Next
<1>1. {"idle", "read", "lease", "plan", "fail", "complete", "alertBilling"} \cap (PlanPCs \cup OpPCs) = {}
  BY DEF PlanPCs, SavedPCs, OpPCs, ProtectPCs
<1>2. CASE ReadAward(w)
  <2>1. Others(w) /\ wk'[w].pc \in {"lease", "complete"}
    <3>1. CASE Return(w, "complete")
      BY <1>0, <3>1, ProviderPCs, ReturnFacts
    <3>2. CASE ~Return(w, "complete")
      BY <1>0, <1>2, <3>2 DEF ReadAward, Others, Local
    <3>3. QED BY <3>1, <3>2
  <2>2. net' = net /\ grant' = grant
    BY <1>2 DEF ReadAward
  <2>3. QED BY <1>0, <1>1, <2>1, <2>2, ShieldFree, ShieldStep
<1>3. CASE AcquireUserLease(w)
  <2>1. "plan" \in PCs /\ "fail" \in PCs
    BY DEF PCs, WorkPCs
  <2>2. Return(w, "fail") \/ Goto(w, "plan")
    BY <1>3 DEF AcquireUserLease
  <2>3. Others(w) /\ wk'[w].pc \in {"fail", "plan"}
    BY <1>0, <2>1, <2>2, GotoFacts, ReturnFacts
  <2>4. net' = net /\ grant' = grant
    BY <1>3 DEF AcquireUserLease
  <2>5. QED BY <1>0, <1>1, <2>3, <2>4, ShieldFree, ShieldStep
<1>4. CASE Complete(w) \/ FailOutbox(w)
  <2>1. /\ wk' = [wk EXCEPT ![w] = Idle] /\ net' = net /\ grant' = grant
    BY <1>4 DEF Complete, FailOutbox
  <2>2. Others(w) /\ wk'[w].pc = "idle"
    BY <1>0, <2>1 DEF Others, Idle
  <2>3. QED BY <1>0, <1>1, <2>1, <2>2, ShieldFree, ShieldStep
<1>5. CASE RaiseAlert(w) \/ Scheduled(w)
  <2>1. \E pc \in {"fail", "complete"} : Return(w, pc)
    BY <1>5 DEF RaiseAlert, Scheduled
  <2>2. net' = net /\ grant' = grant
    BY <1>5 DEF RaiseAlert, Scheduled
  <2>3. QED BY <1>0, <2>1, <2>2, ShieldReturn DEF NoNewCommit
<1>6. CASE WorkerReview(w)
  <2>1. Goto(w, "alertBilling") /\ "alertBilling" \in PCs /\ net' = net /\ grant' = grant
    BY <1>6 DEF WorkerReview, PCs, WorkPCs
  <2>2. Others(w) /\ wk'[w].pc = "alertBilling"
    BY <1>0, <2>1, GotoFacts
  <2>3. QED BY <1>0, <1>1, <2>1, <2>2, ShieldFree, ShieldStep
<1>7. QED BY <1>0, <1>2, <1>3, <1>4, <1>5, <1>6, ShieldPlanning, ShieldBilling, ShieldPreparing,
             ShieldProvider, ShieldSend DEF Step

LEMMA ShieldNext ==
    ASSUME Core, ShieldOK, [Next]_vars PROVE ShieldOK'
<1> USE DEF queueVars, awardVars, usersVars
<1>0. wk \in [Workers -> Local] /\ grant \in [Awards -> GrantRow]
  BY DEF Core, TypeOK
<1>1. ASSUME NEW w \in Workers, Step(w) PROVE ShieldOK'
  BY <1>1, ShieldOfReplica
<1>2. {"idle", "read", "fail"} \cap (PlanPCs \cup OpPCs) = {}
  BY DEF PlanPCs, SavedPCs, OpPCs, ProtectPCs
<1>3. ASSUME NEW w \in Workers, NEW a \in Awards, Claim(w, a) PROVE ShieldOK'
  <2>1. Others(w) /\ wk'[w].pc = "read" /\ net' = net /\ grant' = grant
    BY <1>0, <1>3 DEF Claim, Others, Idle
  <2>2. QED BY <1>2, <2>1, ShieldFree, ShieldStep
<1>4. ASSUME NEW w \in Workers, Crash(w) PROVE ShieldOK'
  <2>1. Others(w) /\ wk'[w].pc = "idle" /\ grant' = grant
    BY <1>0, <1>4 DEF Crash, Others, Idle
  <2>2. NoNewCommit
    BY <1>4, OrphanedCommits DEF Crash
  <2>3. QED BY <1>2, <2>1, <2>2, ShieldFree, ShieldMove
<1>5. ASSUME NEW w \in Workers, StepFails(w) PROVE ShieldOK'
  <2>1. Return(w, "fail") /\ grant' = grant
    BY <1>5 DEF StepFails
  <2>2. NoNewCommit
    BY <1>5, OrphanedCommits DEF StepFails
  <2>3. QED BY <2>1, <2>2, ShieldReturn
<1>6. ASSUME NEW w \in Workers, InspectFails(w) \/ PauseReadFails(w) PROVE ShieldOK'
  BY <1>6, ShieldProvider
<1>7. ASSUME NEW w \in Workers, SaveStalls(w) PROVE ShieldOK'
  <2>1. /\ Others(w) /\ wk'[w].pc = "save" /\ wk[w].pc = "save" /\ wk'[w].plan = wk[w].plan
        /\ wk'[w].ref = wk[w].ref
    BY <1>0, <1>7 DEF SaveStalls, Others, InTime, At, Local
  <2>2. "save" \notin OpPCs \cup CommitPCs /\ "save" \in PlanPCs
    BY DEF SavedPCs, OpPCs, ProtectPCs, CommitPCs, PlanPCs
  <2>3. ShieldLocal(w)
    BY DEF ShieldOK
  <2>4. ShieldLocal(w)'
    BY <2>1, <2>2, <2>3 DEF ShieldLocal, IntervalRuleFor
  <2>5. net' = net /\ grant' = grant
    BY <1>7 DEF SaveStalls
  <2>6. QED BY <2>1, <2>4, <2>5, ShieldStep
<1>8. ASSUME Serve PROVE ShieldOK'
  BY <1>8, ShieldPrepareServed, ShieldCommitServed DEF Serve
<1>9. ASSUME wk' = wk, net' = net, \A b \in Awards : Granted(b)' => Granted(b) PROVE ShieldOK'
  <2>1. \A v \in Workers : ShieldLocal(v)'
    BY <1>9, ShieldCarry
  <2>2. NoNewCommit
    BY <1>9 DEF NoNewCommit
  <2>3. QED BY <1>9, <2>1, <2>2, ShieldFrame
<1>10. ASSUME wk' = wk, net' = net, grant' = grant PROVE ShieldOK'
  BY <1>9, <1>10 DEF Granted
<1>11. ASSUME ReconcileLifecycle \/ Tick \/ UNCHANGED vars PROVE ShieldOK'
  BY <1>10, <1>11 DEF ReconcileLifecycle, Tick, vars
<1>12. ASSUME NEW a \in Awards, ExpirePremiumGrant(a) PROVE ShieldOK'
  <2>1. \A b \in Awards : Granted(b)' => Granted(b)
    BY <1>0, <1>12 DEF ExpirePremiumGrant, Granted, GrantRow
  <2>2. wk' = wk /\ net' = net
    BY <1>12 DEF ExpirePremiumGrant
  <2>3. QED BY <1>9, <2>1, <2>2
<1>13. ASSUME NEW a \in Awards, OutboxLeaseExpires(a) \/ BackoffElapses(a) \/ RetryAward(a)
       PROVE  ShieldOK'
  BY <1>10, <1>13 DEF OutboxLeaseExpires, BackoffElapses, RetryAward
<1>14. ASSUME NEW u \in Users, UserLeaseExpires(u) \/ AccountChanges(u) PROVE ShieldOK'
  BY <1>10, <1>14 DEF UserLeaseExpires, AccountChanges
<1>15. ASSUME NEW r \in Refs, CustomerCancels(r) \/ CollectionDue(r) PROVE ShieldOK'
  BY <1>10, <1>15 DEF CustomerCancels, CollectionDue
<1>16. QED BY <1>1, <1>3, <1>4, <1>5, <1>6, <1>7, <1>8, <1>11, <1>12, <1>13, <1>14, <1>15
       DEF Next

\* An unprotected prize is never committed: whatever crashes, late requests and
\* account changes intervene, a grant planned under the provider rule is committed
\* only after the provider's pause reached the end of the prize.
THEOREM ProtectedBeforeCommit == Spec => []NoUnprotectedCommit
<1>1. Init => ShieldOK
  <2> SUFFICES ASSUME Init PROVE ShieldOK
    OBVIOUS
  <2>1. PeakReached
    BY DEF Init, PeakReached
  <2>2. \A w \in Workers : ShieldLocal(w)
    BY DEF Init, Idle, ShieldLocal, PlanPCs, SavedPCs, OpPCs, ProtectPCs, CommitPCs
  <2>3. ShieldRequests /\ ShieldGrants
    BY DEF Init, ShieldRequests, ShieldGrants, Granted
  <2>4. QED BY <2>1, <2>2, <2>3 DEF ShieldOK
<1>2. Core /\ ShieldOK /\ [Next]_vars => ShieldOK'
  BY ShieldNext
<1>3. Core /\ ShieldOK => NoUnprotectedCommit
  BY DEF Core, OneInterval, ShieldOK, ShieldGrants, Granted, Covered, NoUnprotectedCommit
<1>4. QED BY <1>1, <1>2, <1>3, CoreInvariant, PTL DEF Spec

(***************************************************************************)
(* The pause is never shortened.  Between the read of its end and the put  *)
(* nobody else may pause the agreement: only the replica with the user     *)
(* lease does, as long as a reference is that of one winner.               *)
(***************************************************************************)
OneWinnerPerReference ==
    \A v, w \in Workers :
        InWork(v) /\ InWork(w) /\ wk[v].ref # None /\ wk[v].ref = wk[w].ref
            => UserOf[wk[v].award] = UserOf[wk[w].award]

\* The end a replica is about to put is later than that of a pause in force.
Extends ==
    \A w \in Workers : InWork(w) /\ wk[w].pc = "put" /\ pay[wk[w].ref].status = "Paused"
                           => pay[wk[w].ref].until < wk[w].plan.end

\* No replica comes to "put" but through PauseRead.
Elsewhere(w) == wk'[w] = wk[w] \/ wk'[w].pc # "put"

LEMMA ElsewhereGoto ==
    ASSUME wk \in [Workers -> Local], NEW v \in Workers, NEW w \in Workers,
           NEW pc \in PCs, pc # "put", Goto(v, pc) \/ Return(v, pc)
    PROVE  Elsewhere(w)
BY GotoFacts, ReturnFacts DEF Elsewhere, Others

LEMMA ElsewhereMoved ==
    ASSUME NEW v \in Workers, NEW w \in Workers, Others(v), wk'[v].pc # "put"
    PROVE  Elsewhere(w)
BY DEF Elsewhere, Others

LEMMA ElsewhereStep ==
    ASSUME Core, NEW v \in Workers, Step(v), ~(PauseRead(v) /\ Goto(v, "put")), NEW w \in Workers
    PROVE  Elsewhere(w)
<1>0. wk \in [Workers -> Local]
  BY DEF Core, TypeOK
<1>1. \A pc \in WorkPCs \cup {"fail", "complete"} : pc \in PCs
  BY DEF PCs
<1>2. ASSUME NEW pc \in WorkPCs \cup {"fail", "complete"}, pc # "put", Goto(v, pc) \/ Return(v, pc)
      PROVE  Elsewhere(w)
  BY <1>0, <1>1, <1>2, ElsewhereGoto
<1>3. ASSUME NeedsReview(v, wk[v].version) PROVE Elsewhere(w)
  BY <1>2, <1>3 DEF NeedsReview, WorkPCs
<1>4. CASE ReadAward(v)
  <2>1. CASE Return(v, "complete")
    BY <1>2, <2>1
  <2>2. CASE ~Return(v, "complete")
    <3>1. Others(v) /\ wk'[v].pc = "lease"
      BY <1>0, <1>4, <2>2 DEF ReadAward, Others, Local
    <3>2. QED BY <3>1, ElsewhereMoved
  <2>3. QED BY <2>1, <2>2
<1>5. CASE AcquireUserLease(v)
  BY <1>2, <1>5 DEF AcquireUserLease, WorkPCs
<1>6. CASE Complete(v) \/ FailOutbox(v)
  <2>1. Others(v) /\ wk'[v].pc = "idle"
    BY <1>0, <1>6 DEF Complete, FailOutbox, Others, Idle
  <2>2. QED BY <2>1, ElsewhereMoved
<1>7. CASE PlanAward(v)
  <2>1. CASE ~NeedsReview(v, wk[v].version)
    BY <1>0, <1>7, <2>1, PlanAwardMoves, ElsewhereMoved
  <2>2. QED BY <1>3, <2>1
<1>8. CASE SaveFulfillmentPlan(v) \/ RecoverFulfillmentPlan(v)
  <2>1. CASE Return(v, "fail")
    BY <1>2, <2>1
  <2>2. CASE ~NeedsReview(v, wk[v].version) /\ ~Return(v, "fail")
    <3>1. Others(v) /\ wk'[v].pc = "billing"
      BY <1>0, <1>8, <2>2 DEF SaveFulfillmentPlan, RecoverFulfillmentPlan,
                              ProjectFulfillmentPlan, Others, Local
    <3>2. QED BY <3>1, ElsewhereMoved
  <2>3. QED BY <1>3, <2>1, <2>2
<1>9. CASE PrepareBilling(v)
  <2>1. NeedsReview(v, wk[v].version) \/ Goto(v, "preparing")
    BY <1>9 DEF PrepareBilling
  <2>2. QED BY <1>2, <1>3, <2>1 DEF WorkPCs
<1>10. CASE Preparing(v)
  <2>1. Others(v) /\ wk'[v].pc = "prepare"
    BY <1>0, <1>10 DEF Preparing, Others, Local
  <2>2. QED BY <2>1, ElsewhereMoved
<1>11. CASE \/ SendPrepare(v) \/ SendCommit(v) \/ Inspect(v) \/ MarkProtecting(v)
            \/ PauseRead(v) \/ PausePut(v) \/ PauseVerify(v) \/ MarkUncertain(v)
            \/ WorkerReview(v)
  <2>1. \E pc \in WorkPCs \ {"put"} : Goto(v, pc)
    BY <1>11 DEF SendPrepare, SendCommit, Inspect, MarkProtecting, PauseRead, PausePut,
                 PauseVerify, MarkUncertain, WorkerReview, WorkPCs
  <2>2. QED BY <1>2, <2>1
<1>12. CASE RaiseAlert(v) \/ Scheduled(v)
  BY <1>2, <1>12 DEF RaiseAlert, Scheduled
<1>13. QED BY <1>4, <1>5, <1>6, <1>7, <1>8, <1>9, <1>10, <1>11, <1>12 DEF Step

LEMMA ElsewhereNext ==
    ASSUME Core, [Next]_vars, ~\E v \in Workers : PauseRead(v) /\ Goto(v, "put"), NEW w \in Workers
    PROVE  Elsewhere(w)
<1>0. wk \in [Workers -> Local]
  BY DEF Core, TypeOK
<1>1. CASE wk' = wk
  BY <1>1 DEF Elsewhere
<1>2. ASSUME NEW v \in Workers, NEW a \in Awards, Claim(v, a) PROVE Elsewhere(w)
  <2>1. Others(v) /\ wk'[v].pc = "read"
    BY <1>0, <1>2 DEF Claim, Others, Idle
  <2>2. QED BY <2>1, ElsewhereMoved
<1>3. ASSUME NEW v \in Workers, Crash(v) PROVE Elsewhere(w)
  <2>1. Others(v) /\ wk'[v].pc = "idle"
    BY <1>0, <1>3 DEF Crash, Others, Idle
  <2>2. QED BY <2>1, ElsewhereMoved
<1>4. ASSUME NEW v \in Workers, StepFails(v) \/ InspectFails(v) \/ PauseReadFails(v)
      PROVE  Elsewhere(w)
  <2>1. \E pc \in {"fail", "review", "pauseError"} : Goto(v, pc) \/ Return(v, pc)
    BY <1>4 DEF StepFails, InspectFails, PauseReadFails
  <2>2. QED BY <1>0, <2>1, ProviderPCs, ElsewhereGoto
<1>5. ASSUME NEW v \in Workers, SaveStalls(v) PROVE Elsewhere(w)
  <2>1. Others(v) /\ wk'[v].pc = "save"
    BY <1>0, <1>5 DEF SaveStalls, Others, InTime, At, Local
  <2>2. QED BY <2>1, ElsewhereMoved
<1>6. ASSUME NEW m \in net, PreparePremiumGrant(m) \/ CommitPremiumGrant(m) PROVE Elsewhere(w)
  <2>1. PICK pc \in {"inspect", "commit", "schedule"} : \E ok : Reply(m, ok, pc)
    BY <1>6 DEF PreparePremiumGrant, CommitPremiumGrant, AfterPrepare
  <2>2. m.from = None => wk' = wk
    BY <2>1 DEF Reply
  <2>3. m.from # None => m.from \in Workers /\ (Goto(m.from, pc) \/ Return(m.from, "fail"))
    BY <2>1 DEF Reply, Core, TypeOK, Request
  <2>4. pc \in PCs /\ "fail" \in PCs
    BY <2>1 DEF PCs, WorkPCs
  <2>5. QED BY <1>0, <1>1, <2>1, <2>2, <2>3, <2>4, ElsewhereGoto
<1>7. ASSUME ReconcileLifecycle \/ Tick \/ UNCHANGED vars PROVE wk' = wk
  BY <1>7 DEF ReconcileLifecycle, Tick, vars
<1>8. ASSUME NEW a \in Awards, \/ ExpirePremiumGrant(a) \/ OutboxLeaseExpires(a)
                               \/ BackoffElapses(a) \/ RetryAward(a)
      PROVE  wk' = wk
  BY <1>8 DEF ExpirePremiumGrant, OutboxLeaseExpires, BackoffElapses, RetryAward
<1>9. ASSUME NEW u \in Users, UserLeaseExpires(u) \/ AccountChanges(u) PROVE wk' = wk
  BY <1>9 DEF UserLeaseExpires, AccountChanges
<1>10. ASSUME NEW r \in Refs, CustomerCancels(r) \/ CollectionDue(r) PROVE wk' = wk
  BY <1>10 DEF CustomerCancels, CollectionDue
<1>11. ASSUME NEW v \in Workers, Step(v) PROVE Elsewhere(w)
  BY <1>11, ElsewhereStep
<1>12. QED BY <1>1, <1>2, <1>3, <1>4, <1>5, <1>6, <1>7, <1>8, <1>9, <1>10, <1>11 DEF Next, Serve

\* What a replica at "put" has in hand.
LEMMA PutFacts ==
    ASSUME Core, NEW w \in Workers, wk[w].pc \in {"pauseRead", "put"}
    PROVE  /\ wk[w].ref \in Refs /\ pay[wk[w].ref] \in Payment
           /\ wk[w].plan.end \in Nat /\ wk[w].award \in Awards
<1>1. /\ wk[w] \in Local /\ wk[w].ref # None /\ wk[w].plan \in Interval
      /\ wk[w].award \in Awards /\ pay \in [Refs -> Payment]
  BY DEF Core, TypeOK, LocalOK, ProtectPCs, SavedPCs
<1>2. QED BY <1>1 DEF Local, Interval

\* Nobody else writes the pause that a replica at "put" is about to extend.
LEMMA PauseOwned ==
    ASSUME Core, LeaseHeld, OneWinnerPerReference, [Next]_vars, Extends,
           NEW w \in Workers, InWork(w), wk[w].pc = "put", wk'[w] = wk[w],
           pay'[wk[w].ref].status = "Paused"
    PROVE  pay'[wk[w].ref].until < wk[w].plan.end
<1> DEFINE r == wk[w].ref
<1>0. /\ r \in Refs /\ pay \in [Refs -> Payment] /\ r # None
      /\ pay[r].status = "Paused" => pay[r].until < wk[w].plan.end
  BY PutFacts DEF Extends, Core, TypeOK, LocalOK, ProtectPCs
<1>1. CASE pay' = pay
  BY <1>0, <1>1
<1>2. ASSUME NEW v \in Workers, PausePut(v) PROVE pay'[r] = pay[r]
  <2>1. wk[v].pc = "put" /\ InWork(v) /\ Goto(v, "verify")
    BY <1>2 DEF PausePut, InTime, At, InWork, WorkPCs
  <2>2. v # w
    <3>1. wk'[v].pc = "verify"
      BY <2>1, ProviderPCs, GotoFacts DEF Core, TypeOK
    <3>2. QED BY <3>1
  <2>3. wk[v].ref # r
    BY <1>0, <2>1, <2>2 DEF OneWinnerPerReference, LeaseHeld
  <2>4. QED BY <1>0, <1>2, <2>3 DEF PausePut
<1>3. ASSUME NEW s \in Refs, CustomerCancels(s) \/ CollectionDue(s)
      PROVE  pay[r].status = "Paused" /\ pay'[r].until = pay[r].until
  <2>1. pay[r] \in Payment /\ pay[s] \in Payment
    BY <1>0
  <2>2. CASE r # s
    BY <1>0, <1>3, <2>2 DEF CustomerCancels, CollectionDue
  <2>3. CASE r = s
    BY <1>0, <1>3, <2>1, <2>3 DEF CustomerCancels, CollectionDue, Payment
  <2>4. QED BY <2>2, <2>3
<1>4. QED BY <1>0, <1>1, <1>2, <1>3, PayWriters

LEMMA ExtendsStep ==
    ASSUME Core, LeaseHeld, OneWinnerPerReference, Extends, [Next]_vars PROVE Extends'
<1> SUFFICES ASSUME NEW w \in Workers, InWork(w)', wk'[w].pc = "put",
                    pay'[wk'[w].ref].status = "Paused"
             PROVE  pay'[wk'[w].ref].until < wk'[w].plan.end
  BY DEF Extends
<1>0. wk \in [Workers -> Local]
  BY DEF Core, TypeOK
<1>1. CASE wk'[w] = wk[w]
  <2>1. InWork(w) /\ wk[w].pc = "put"
    BY <1>1 DEF InWork
  <2>2. QED BY <1>1, <2>1, PauseOwned
<1>2. CASE wk'[w] # wk[w]
  <2>1. PICK v \in Workers : PauseRead(v) /\ Goto(v, "put")
    BY <1>2, ElsewhereNext DEF Elsewhere
  <2>2. v = w
    BY <1>0, <1>2, <2>1, ProviderPCs, GotoFacts DEF Others
  <2>3. wk'[w].ref = wk[w].ref /\ wk'[w].plan = wk[w].plan /\ pay' = pay
    BY <1>0, <2>1, <2>2, ProviderPCs, GotoFacts DEF PauseRead
  <2>4. CanPause(pay[wk[w].ref], wk[w].plan.end)
    <3>1. \A pc \in PCs : Goto(w, pc) => pc = "put"
      BY <1>0, <2>1, <2>2, GotoFacts
    <3>2. {"commit", "pauseError"} \subseteq PCs
      BY ProviderPCs
    <3>3. QED BY <2>1, <2>2, <3>1, <3>2 DEF PauseRead
  <2>5. pay[wk[w].ref].until \in Nat /\ wk[w].plan.end \in Nat
    BY <2>1, <2>2, PutFacts DEF PauseRead, InTime, At, Payment
  <2>6. QED BY <2>3, <2>4, <2>5 DEF CanPause
<1>3. QED BY <1>1, <1>2

\* A step writes a pause in force only through PausePut, and only to a later end.
LEMMA PauseStep ==
    ASSUME Core, Extends, [Next]_vars, NEW r \in Refs, pay[r].status = "Paused",
           pay'[r].status = "Paused"
    PROVE  pay'[r].until >= pay[r].until
<1>0. pay \in [Refs -> Payment] /\ pay[r].until \in Nat
  BY DEF Core, TypeOK, Payment
<1>1. CASE pay' = pay
  BY <1>0, <1>1
<1>2. ASSUME NEW v \in Workers, PausePut(v) PROVE pay'[r].until >= pay[r].until
  <2> DEFINE s == wk[v].ref
             t == wk[v].plan.end
  <2>1. wk[v].pc = "put" /\ InWork(v)
    BY <1>2 DEF PausePut, InTime, At, InWork, WorkPCs
  <2>2. s \in Refs /\ pay[s] \in Payment /\ t \in Nat
    BY <2>1, PutFacts
  <2>3. CASE pay'[r] = pay[r]
    BY <1>0, <2>3
  <2>4. CASE pay'[r] # pay[r]
    <3>1. pay' = [pay EXCEPT ![s] = Paused(pay[s], t)]
      BY <1>2, <2>4 DEF PausePut
    <3>2. r = s /\ pay'[r] = Paused(pay[s], t)
      BY <1>0, <2>2, <2>4, <3>1
    <3>3. pay'[r].until = t
      BY <2>2, <3>2 DEF Paused, Payment
    <3>4. pay[s].until < t
      BY <2>1, <3>2 DEF Extends
    <3>5. QED BY <1>0, <2>2, <3>2, <3>3, <3>4
  <2>5. QED BY <2>3, <2>4
<1>3. ASSUME NEW s \in Refs, CustomerCancels(s) \/ CollectionDue(s)
      PROVE  pay'[r].until = pay[r].until
  <2>1. pay[r] \in Payment /\ pay[s] \in Payment
    BY <1>0
  <2>2. CASE r # s
    BY <1>0, <1>3, <2>2 DEF CustomerCancels, CollectionDue
  <2>3. CASE r = s
    BY <1>0, <1>3, <2>1, <2>3 DEF CustomerCancels, CollectionDue, Payment
  <2>4. QED BY <2>2, <2>3
<1>4. QED BY <1>0, <1>1, <1>2, <1>3, PayWriters

\* No award, retry or late replica shortens a pause in force, for any number of
\* them, while replicas at work with one reference are at work for one winner
\* (CheckoutClient.PauseRecurring under the user lease).
THEOREM PauseOnlyExtended == Spec /\ []OneWinnerPerReference => PauseNotShortened
<1>1. Init => Extends
  BY DEF Init, Extends, Idle
<1>2. Core /\ LeaseHeld /\ OneWinnerPerReference /\ Extends /\ [Next]_vars => Extends'
  BY ExtendsStep
<1>3. Core /\ Extends /\ [Next]_vars =>
        [\A r \in Refs : pay[r].status = "Paused" /\ pay'[r].status = "Paused"
                             => pay'[r].until >= pay[r].until]_vars
  BY PauseStep
<1>4. QED BY <1>1, <1>2, <1>3, CoreInvariant, LeaseAlways, PTL DEF Spec, PauseNotShortened

(***************************************************************************)
(* The promise.  A plan lasts the whole prize: planning makes it so, and a *)
(* replica saves what it planned.                                          *)
(***************************************************************************)
Whole(a, i) == i.end = i.start + Months[a]
PlansWhole == /\ \A a \in Awards : plan[a] # None => Whole(a, plan[a])
              /\ \A w \in Workers : wk[w].pc = "save" => Whole(wk[w].award, wk[w].plan)

\* No replica comes to "save" but through PlanAward.
Planned(w) == wk'[w].pc = "save" => /\ wk[w].pc = "save" /\ wk'[w].award = wk[w].award
                                    /\ wk'[w].plan = wk[w].plan

LEMMA PlannedMoved ==
    ASSUME NEW v \in Workers, NEW w \in Workers, Others(v), wk'[v].pc # "save"
    PROVE  Planned(w)
BY DEF Planned, Others

LEMMA PlannedGoto ==
    ASSUME wk \in [Workers -> Local], NEW v \in Workers, NEW w \in Workers,
           NEW pc \in PCs, pc # "save", Goto(v, pc) \/ Return(v, pc)
    PROVE  Planned(w)
BY GotoFacts, ReturnFacts, PlannedMoved

LEMMA PlannedStep ==
    ASSUME Core, NEW v \in Workers, Step(v), ~PlanAward(v), NEW w \in Workers
    PROVE  Planned(w)
<1>0. wk \in [Workers -> Local]
  BY DEF Core, TypeOK
<1>1. \A pc \in WorkPCs \cup {"fail", "complete"} : pc \in PCs
  BY DEF PCs
<1>2. ASSUME NEW pc \in WorkPCs \cup {"fail", "complete"}, pc # "save", Goto(v, pc) \/ Return(v, pc)
      PROVE  Planned(w)
  BY <1>0, <1>1, <1>2, PlannedGoto
<1>3. ASSUME NeedsReview(v, wk[v].version) PROVE Planned(w)
  BY <1>2, <1>3 DEF NeedsReview, WorkPCs
<1>4. CASE ReadAward(v)
  <2>1. CASE Return(v, "complete")
    BY <1>2, <2>1
  <2>2. CASE ~Return(v, "complete")
    <3>1. Others(v) /\ wk'[v].pc = "lease"
      BY <1>0, <1>4, <2>2 DEF ReadAward, Others, Local
    <3>2. QED BY <3>1, PlannedMoved
  <2>3. QED BY <2>1, <2>2
<1>5. CASE Complete(v) \/ FailOutbox(v) \/ Preparing(v)
  <2>1. Others(v) /\ wk'[v].pc \in {"idle", "prepare"}
    BY <1>0, <1>5 DEF Complete, FailOutbox, Preparing, Others, Idle, Local
  <2>2. QED BY <2>1, PlannedMoved
<1>6. CASE SaveFulfillmentPlan(v) \/ RecoverFulfillmentPlan(v)
  <2>1. CASE Return(v, "fail")
    BY <1>2, <2>1
  <2>2. CASE ~NeedsReview(v, wk[v].version) /\ ~Return(v, "fail")
    <3>1. Others(v) /\ wk'[v].pc = "billing"
      BY <1>0, <1>6, <2>2, SaveMoves
    <3>2. QED BY <3>1, PlannedMoved
  <2>3. QED BY <1>3, <2>1, <2>2
<1>7. CASE PrepareBilling(v)
  <2>1. NeedsReview(v, wk[v].version) \/ Goto(v, "preparing")
    BY <1>7 DEF PrepareBilling
  <2>2. QED BY <1>2, <1>3, <2>1 DEF WorkPCs
<1>8. CASE \/ SendPrepare(v) \/ SendCommit(v) \/ Inspect(v) \/ MarkProtecting(v)
           \/ PauseRead(v) \/ PausePut(v) \/ PauseVerify(v) \/ MarkUncertain(v)
           \/ WorkerReview(v) \/ AcquireUserLease(v) \/ RaiseAlert(v) \/ Scheduled(v)
  <2>1. \E pc \in (WorkPCs \cup {"fail", "complete"}) \ {"save"} : Goto(v, pc) \/ Return(v, pc)
    BY <1>8 DEF SendPrepare, SendCommit, Inspect, MarkProtecting, PauseRead, PausePut,
                PauseVerify, MarkUncertain, WorkerReview, AcquireUserLease, RaiseAlert,
                Scheduled, WorkPCs
  <2>2. QED BY <1>2, <2>1
<1>9. QED BY <1>4, <1>5, <1>6, <1>7, <1>8 DEF Step

LEMMA PlannedNext ==
    ASSUME Core, [Next]_vars, NEW w \in Workers PROVE Planned(w) \/ PlanAward(w)
<1>0. wk \in [Workers -> Local]
  BY DEF Core, TypeOK
<1>1. ASSUME wk' = wk PROVE Planned(w)
  BY <1>1 DEF Planned
<1>2. ASSUME NEW v \in Workers, NEW a \in Awards, Claim(v, a) PROVE Planned(w)
  <2>1. Others(v) /\ wk'[v].pc = "read"
    BY <1>0, <1>2 DEF Claim, Others, Idle
  <2>2. QED BY <2>1, PlannedMoved
<1>3. ASSUME NEW v \in Workers, Crash(v) PROVE Planned(w)
  <2>1. Others(v) /\ wk'[v].pc = "idle"
    BY <1>0, <1>3 DEF Crash, Others, Idle
  <2>2. QED BY <2>1, PlannedMoved
<1>4. ASSUME NEW v \in Workers, StepFails(v) \/ InspectFails(v) \/ PauseReadFails(v)
      PROVE  Planned(w)
  <2>1. \E pc \in {"fail", "review", "pauseError"} : Goto(v, pc) \/ Return(v, pc)
    BY <1>4 DEF StepFails, InspectFails, PauseReadFails
  <2>2. QED BY <1>0, <2>1, ProviderPCs, PlannedGoto
<1>5. ASSUME NEW v \in Workers, SaveStalls(v) PROVE Planned(w)
  <2>1. Others(v) /\ wk[v].pc = "save" /\ wk'[v].plan = wk[v].plan /\ wk'[v].award = wk[v].award
    BY <1>0, <1>5 DEF SaveStalls, Others, InTime, At, Local
  <2>2. QED BY <2>1 DEF Planned, Others
<1>6. ASSUME NEW m \in net, PreparePremiumGrant(m) \/ CommitPremiumGrant(m) PROVE Planned(w)
  <2>1. PICK pc \in {"inspect", "commit", "schedule"} : \E ok : Reply(m, ok, pc)
    BY <1>6 DEF PreparePremiumGrant, CommitPremiumGrant, AfterPrepare
  <2>2. m.from = None => wk' = wk
    BY <2>1 DEF Reply
  <2>3. m.from # None => m.from \in Workers /\ (Goto(m.from, pc) \/ Return(m.from, "fail"))
    BY <2>1 DEF Reply, Core, TypeOK, Request
  <2>4. pc \in PCs /\ pc # "save" /\ "fail" \in PCs
    BY <2>1 DEF PCs, WorkPCs
  <2>5. CASE m.from # None
    <3>1. \A q \in PCs : q # "save" /\ (Goto(m.from, q) \/ Return(m.from, q)) => Planned(w)
      BY <1>0, <2>3, <2>5, PlannedGoto
    <3>2. QED BY <2>3, <2>4, <2>5, <3>1
  <2>6. QED BY <1>1, <2>2, <2>5
<1>7. ASSUME ReconcileLifecycle \/ Tick \/ UNCHANGED vars PROVE wk' = wk
  BY <1>7 DEF ReconcileLifecycle, Tick, vars
<1>8. ASSUME NEW a \in Awards, \/ ExpirePremiumGrant(a) \/ OutboxLeaseExpires(a)
                               \/ BackoffElapses(a) \/ RetryAward(a)
      PROVE  wk' = wk
  BY <1>8 DEF ExpirePremiumGrant, OutboxLeaseExpires, BackoffElapses, RetryAward
<1>9. ASSUME NEW u \in Users, UserLeaseExpires(u) \/ AccountChanges(u) PROVE wk' = wk
  BY <1>9 DEF UserLeaseExpires, AccountChanges
<1>10. ASSUME NEW r \in Refs, CustomerCancels(r) \/ CollectionDue(r) PROVE wk' = wk
  BY <1>10 DEF CustomerCancels, CollectionDue
<1>11. ASSUME NEW v \in Workers, PlanAward(v), v # w PROVE Planned(w)
  <2>1. Others(v)
    BY <1>0, <1>11, PlanAwardMoves, GotoFacts DEF NeedsReview, PCs, WorkPCs
  <2>2. QED BY <1>11, <2>1 DEF Others, Planned
<1>12. ASSUME NEW v \in Workers, Step(v) PROVE Planned(w) \/ PlanAward(w)
  BY <1>11, <1>12, PlannedStep
<1>13. QED BY <1>1, <1>2, <1>3, <1>4, <1>5, <1>6, <1>7, <1>8, <1>9, <1>10, <1>12 DEF Next, Serve

LEMMA PlansWholeNext ==
    ASSUME Core, PlansWhole, [Next]_vars PROVE PlansWhole'
<1>1. ASSUME NEW a \in Awards, plan'[a] # None PROVE Whole(a, plan'[a])
  <2>1. CASE plan[a] # None
    BY <2>1, PlanKept DEF PlansWhole
  <2>2. CASE plan[a] = None
    <3>1. PICK w \in Workers : SaveFulfillmentPlan(w)
      BY <1>1, <2>2, PlanWriters
    <3>2. wk[w].pc = "save" /\ plan' = [plan EXCEPT ![wk[w].award] = EnsurePlanRow(w)]
      BY <1>1, <2>2, <3>1, PlanSaved DEF SaveFulfillmentPlan, At
    <3>3. a = wk[w].award /\ plan'[a] = wk[w].plan
      BY <1>1, <2>2, <3>2 DEF Core, TypeOK, EnsurePlanRow
    <3>4. QED BY <3>2, <3>3 DEF PlansWhole
  <2>3. QED BY <2>1, <2>2
<1>2. ASSUME NEW w \in Workers, wk'[w].pc = "save" PROVE Whole(wk'[w].award, wk'[w].plan)
  <2>1. CASE Planned(w)
    BY <1>2, <2>1 DEF Planned, PlansWhole
  <2>2. CASE PlanAward(w)
    <3> DEFINE a == wk[w].award
    <3>1. ~NeedsReview(w, wk[w].version)
      <4>1. wk \in [Workers -> Local] /\ "alertReview" \in PCs
        BY DEF Core, TypeOK, PCs, WorkPCs
      <4>2. QED BY <1>2, <4>1, GotoFacts DEF NeedsReview
    <3>2. a \in Awards
      BY <2>2 DEF PlanAward, InTime, At, Core, LocalOK
    <3>3. /\ wk'[w].award = a
          /\ plan[a] # None => wk'[w].plan = plan[a]
          /\ plan[a] = None => \E start, rule : wk'[w].plan = PrizeInterval(start, Months[a], rule)
      BY <2>2, <3>1, PlanAwardMade
    <3> HIDE DEF a
    <3>4. CASE plan[a] # None
      BY <3>2, <3>3, <3>4 DEF PlansWhole
    <3>5. CASE plan[a] = None
      <4>1. PICK start, rule : wk'[w].plan = PrizeInterval(start, Months[a], rule)
        BY <3>3, <3>5
      <4>2. wk'[w].plan.end = start + Months[a] /\ wk'[w].plan.start = start
        BY <4>1 DEF PrizeInterval
      <4>3. QED BY <3>3, <4>2 DEF Whole
    <3>6. QED BY <3>4, <3>5
  <2>3. QED BY <2>1, <2>2, PlannedNext, <1>2
<1>3. QED BY <1>1, <1>2 DEF PlansWhole

LEMMA PlansWholeAlways == Spec => []PlansWhole
<1>1. Init => PlansWhole
  BY DEF Init, PlansWhole, Idle
<1>2. Core /\ PlansWhole /\ [Next]_vars => PlansWhole'
  BY PlansWholeNext
<1>3. QED BY <1>1, <1>2, CoreInvariant, PTL DEF Spec

(***************************************************************************)
(* What a step of the fulfilment may change of the promise.  Operations    *)
(* keep their reference and end, so that only a new one and the provider   *)
(* cover an award; one award changes at a time, or all follow the calendar.*)
(***************************************************************************)
OpsStand == \A a \in Awards : /\ op'[a] = None <=> op[a] = None
                              /\ op[a] # None => op'[a].ref = op[a].ref /\ op'[a].end = op[a].end
OneRow(a) == \A b \in Awards \ {a} : award'[b] = award[b]

LEMMA OpRowStands ==
    ASSUME op \in [Awards -> Operation \cup {None}], NEW a \in Awards, op[a] # None,
           NEW s \in OpStates, op' = [op EXCEPT ![a].state = s]
    PROVE  OpsStand
<1> DEFINE row == [op[a] EXCEPT !.state = s]
<1>1. op[a] \in Operation
  OBVIOUS
<1>2. row \in Operation /\ row.ref = op[a].ref /\ row.end = op[a].end
  BY <1>1 DEF Operation
<1>3. op' = [op EXCEPT ![a] = row]
  OBVIOUS
<1> HIDE DEF row
<1>4. \A b \in Awards : op'[b] = IF b = a THEN row ELSE op[b]
  BY <1>3
<1>5. QED BY <1>2, <1>4, OperationType DEF OpsStand

LEMMA CoveredFixed ==
    ASSUME pay' = pay, OpsStand PROVE CoveredAwards' = CoveredAwards
BY DEF CoveredAwards, OpsStand

LEMMA OpsFixed ==
    ASSUME op' = op PROVE OpsStand
BY DEF OpsStand

\* The awards whose subscription the provider holds to the end of their plan.
LEMMA CoveredIs ==
    ASSUME Core PROVE CoveredAwards = {a \in Awards : Covered(a)}
BY DEF Core, OneInterval, CoveredAwards, Covered

LEMMA CoveredGrows ==
    ASSUME Core, [Next]_vars PROVE CoveredAwards \subseteq CoveredAwards'
<1>1. CoveredAwards = {a \in Awards : Covered(a)}
  BY CoveredIs
<1>2. Core'
  BY CoreNext
<1>3. CoveredAwards' = {a \in Awards : Covered(a)'}
  BY <1>2 DEF Core, OneInterval, CoveredAwards, Covered
<1>4. QED BY <1>1, <1>3, CoveredStays

\* Who writes the award and plan rows.
AwardWriter(w) == \/ PlanAward(w) \/ SaveFulfillmentPlan(w) \/ RecoverFulfillmentPlan(w)
                  \/ PrepareBilling(w) \/ Preparing(w) \/ WorkerReview(w) \/ Scheduled(w)

LEMMA AwardWriters ==
    ASSUME [Next]_vars
    PROVE  \/ UNCHANGED <<award, plan>>
           \/ \E w \in Workers : AwardWriter(w) \/ Complete(w)
           \/ ReconcileLifecycle
<1> USE DEF awardVars
<1>1. ASSUME NEW w \in Workers, Step(w), ~AwardWriter(w), ~Complete(w)
      PROVE  UNCHANGED <<award, plan>>
  <2>1. CASE ReadAward(w) \/ AcquireUserLease(w) \/ FailOutbox(w) \/ RaiseAlert(w)
    BY <2>1 DEF ReadAward, AcquireUserLease, FailOutbox, RaiseAlert
  <2>2. CASE SendPrepare(w) \/ SendCommit(w) \/ Inspect(w) \/ MarkProtecting(w)
    BY <2>2 DEF SendPrepare, SendCommit, Inspect, MarkProtecting
  <2>3. CASE PauseRead(w) \/ PausePut(w) \/ PauseVerify(w) \/ MarkUncertain(w)
    BY <2>3 DEF PauseRead, PausePut, PauseVerify, MarkUncertain
  <2>4. QED BY <1>1, <2>1, <2>2, <2>3 DEF Step, AwardWriter
<1>2. ASSUME NEW w \in Workers, \/ Crash(w) \/ StepFails(w) \/ InspectFails(w)
                                \/ PauseReadFails(w) \/ SaveStalls(w)
                                \/ \E a \in Awards : Claim(w, a)
      PROVE  UNCHANGED <<award, plan>>
  BY <1>2 DEF Crash, StepFails, InspectFails, PauseReadFails, SaveStalls, Claim
<1>3. ASSUME Tick \/ Serve \/ UNCHANGED vars PROVE UNCHANGED <<award, plan>>
  BY <1>3 DEF Tick, Serve, PreparePremiumGrant, CommitPremiumGrant, vars
<1>4. ASSUME NEW a \in Awards, \/ ExpirePremiumGrant(a) \/ OutboxLeaseExpires(a)
                               \/ BackoffElapses(a) \/ RetryAward(a)
      PROVE  UNCHANGED <<award, plan>>
  BY <1>4 DEF ExpirePremiumGrant, OutboxLeaseExpires, BackoffElapses, RetryAward
<1>5. ASSUME NEW u \in Users, UserLeaseExpires(u) \/ AccountChanges(u)
      PROVE  UNCHANGED <<award, plan>>
  BY <1>5 DEF UserLeaseExpires, AccountChanges
<1>6. ASSUME NEW r \in Refs, CustomerCancels(r) \/ CollectionDue(r)
      PROVE  UNCHANGED <<award, plan>>
  BY <1>6 DEF CustomerCancels, CollectionDue
<1>7. QED BY <1>1, <1>2, <1>3, <1>4, <1>5, <1>6 DEF Next

\* A replica that rewrites its award touches no other, and nothing that covers it.
LEMMA AwardMoves ==
    ASSUME Core, NEW w \in Workers, AwardWriter(w), ~UNCHANGED <<award, plan>>
    PROVE  /\ UNCHANGED <<now, grant, pay>> /\ OpsStand
           /\ wk[w].award \in Awards /\ OneRow(wk[w].award)
           /\ plan' = plan \/ SaveFulfillmentPlan(w)
<1> DEFINE a == wk[w].award
<1> USE DEF usersVars
<1>0. /\ award \in [Awards -> AwardRow] /\ op \in [Awards -> Operation \cup {None}]
      /\ UNCHANGED <<now, grant, pay>> /\ a \in Awards
  BY DEF AwardWriter, PlanAward, SaveFulfillmentPlan, RecoverFulfillmentPlan, PrepareBilling,
         Preparing, WorkerReview, Scheduled, InTime, At, Core, TypeOK, LocalOK
<1>1. ASSUME NeedsReview(w, wk[w].version) PROVE op' = op /\ OneRow(a) /\ plan' = plan
  BY <1>0, <1>1 DEF NeedsReview, OneRow
<1>2. CASE PlanAward(w) \/ PrepareBilling(w)
  <2>1. NeedsReview(w, wk[w].version)
    BY <1>2 DEF PlanAward, PrepareBilling
  <2>2. QED BY <1>0, <1>1, <2>1, OpsFixed
<1>3. CASE SaveFulfillmentPlan(w)
  <2>1. NeedsReview(w, wk[w].version) \/ (ProjectFulfillmentPlan(w, EnsurePlanRow(w)) /\ op' = op)
    BY <1>3 DEF SaveFulfillmentPlan
  <2>2. CASE ProjectFulfillmentPlan(w, EnsurePlanRow(w)) /\ op' = op
    <3>1. OneRow(a)
      BY <1>0, <2>2 DEF ProjectFulfillmentPlan, OneRow
    <3>2. QED BY <1>0, <1>3, <2>2, <3>1, OpsFixed
  <2>3. QED BY <1>0, <1>1, <2>1, <2>2, OpsFixed
<1>4. CASE RecoverFulfillmentPlan(w)
  <2>1. NeedsReview(w, wk[w].version)
    BY <1>4 DEF RecoverFulfillmentPlan
  <2>2. QED BY <1>0, <1>1, <2>1, OpsFixed
<1>5. CASE Preparing(w)
  <2>1. OneRow(a) /\ op' = op /\ plan' = plan
    BY <1>0, <1>5 DEF Preparing, OneRow
  <2>2. QED BY <1>0, <2>1, OpsFixed
<1>6. CASE WorkerReview(w) \/ Scheduled(w)
  <2>1. OneRow(a) /\ plan' = plan
    BY <1>0, <1>6 DEF WorkerReview, Scheduled, OneRow
  <2>2. \/ op' = op
        \/ \E s \in OpStates : op[a] # None /\ op' = [op EXCEPT ![a].state = s]
    BY <1>6 DEF WorkerReview, Scheduled, OpStates
  <2>3. QED BY <1>0, <2>1, <2>2, OpsFixed, OpRowStands
<1>7. QED BY <1>2, <1>3, <1>4, <1>5, <1>6 DEF AwardWriter

(***************************************************************************)
(* Every step of the fulfilment is a step of the promise, or none of it.   *)
(***************************************************************************)
Promising == /\ Core /\ DeliveredIsCommitted /\ NoUnprotectedCommit
             /\ GrantsDisjoint /\ PlansWhole
Kept == [Promised!Next]_(Promised!vars)

LEMMA ShownFixed ==
    ASSUME \A a \in Awards : /\ award'[a].confirmed = award[a].confirmed
                             /\ award'[a].state \in Delivered <=> award[a].state \in Delivered
    PROVE  ShownDates' = ShownDates
BY DEF ShownDates

\* The calendar moves on.
LEMMA PassKept ==
    ASSUME Tick PROVE Kept
<1>1. UNCHANGED <<plan, grant, op, pay, award>> /\ now' = now + 1
  BY DEF Tick, usersVars, awardVars
<1>2. UNCHANGED <<GrantedStates, CoveredAwards, ShownDates>>
  BY <1>1 DEF GrantedStates, CoveredAwards, ShownDates
<1>3. Promised!Pass
  BY <1>1, <1>2 DEF Promised!Pass
<1>4. QED BY <1>3 DEF Kept, Promised!Next

\* Steps that write neither plan, grant nor award may cover prizes.
LEMMA CoverKept ==
    ASSUME Core, [Next]_vars, UNCHANGED <<now, plan, grant, award>> PROVE Kept
<1> DEFINE S == CoveredAwards' \ CoveredAwards
<1>1. Core'
  BY CoreNext
<1>2. S \in SUBSET Awards /\ CoveredAwards' = CoveredAwards \cup S
  BY CoveredGrows DEF CoveredAwards
<1>3. \A a \in S : plan[a] # None
  BY <1>1 DEF CoveredAwards, Core, OneInterval
<1>4. UNCHANGED <<GrantedStates, ShownDates>>
  BY DEF GrantedStates, ShownDates
<1>5. Promised!Cover(S)
  BY <1>2, <1>3, <1>4 DEF Promised!Cover
<1> HIDE DEF S
<1>6. QED BY <1>2, <1>5 DEF Kept, Promised!Next

\* Users grants, commits and expires prizes, and nothing else moves meanwhile.
LEMMA GrantAlone ==
    ASSUME Core, [Next]_vars, grant' # grant
    PROVE  UNCHANGED <<now, plan, award, CoveredAwards, ShownDates>>
<1>1. UNCHANGED <<now, plan, award, op, pay>>
  BY GrantWriters DEF PreparePremiumGrant, CommitPremiumGrant, ExpirePremiumGrant, awardVars
<1>2. QED BY <1>1 DEF CoveredAwards, ShownDates

LEMMA GrantedMoves ==
    ASSUME NEW a \in Awards, \A b \in Awards : b # a => grant'[b] = grant[b]
    PROVE  GrantedStates' = [GrantedStates EXCEPT ![a] = grant'[a].state]
<1>1. \A b \in Awards : b # a => GrantedStates'[b] = GrantedStates[b]
  BY DEF GrantedStates
<1>2. GrantedStates'[a] = grant'[a].state
  BY DEF GrantedStates
<1>3. GrantedStates \in [Awards -> {grant[b].state : b \in Awards}]
  BY DEF GrantedStates
<1>4. GrantedStates' = [b \in Awards |-> GrantedStates'[b]]
  BY DEF GrantedStates
<1>5. QED BY <1>1, <1>2, <1>3, <1>4

LEMMA GrantKept ==
    ASSUME Promising, Promising', [Next]_vars, grant' # grant PROVE Kept
<1>0. /\ grant \in [Awards -> GrantRow] /\ plan \in [Awards -> Interval \cup {None}]
      /\ UNCHANGED <<now, plan, award, CoveredAwards, ShownDates>>
  BY GrantAlone DEF Promising, Core, TypeOK
<1>1. \A a \in Awards : grant'[a].state # "none" => plan[a] # None /\ grant'[a].span = plan[a]
  BY <1>0 DEF Promising, Core, OneInterval
<1>2. ASSUME NEW a \in Awards, NEW i \in Interval, grant[a].state = "none",
             grant' = [grant EXCEPT ![a] = [state |-> "prepared", span |-> i]]
      PROVE  Kept
  <2>1. /\ grant'[a].state = "prepared" /\ grant'[a].span = i
        /\ \A b \in Awards : b # a => grant'[b] = grant[b]
    BY <1>0, <1>2
  <2>2. GrantedStates' = [GrantedStates EXCEPT ![a] = "prepared"] /\ GrantedStates[a] = "none"
    BY <1>2, <2>1, GrantedMoves DEF GrantedStates
  <2>3. plan[a] # None /\ plan[a] = i
    BY <1>1, <2>1
  <2>4. ASSUME NEW b \in Awards \ {a}, UserOf[b] = UserOf[a],
               GrantedStates[b] \in {"prepared", "committed"}
        PROVE  Promised!Apart(plan[a], plan[b])
    <3>1. grant'[b].state \in {"prepared", "committed"} /\ grant'[b].span = plan[b]
      BY <1>1, <2>1, <2>4 DEF GrantedStates
    <3>2. ~Overlap(plan[a], plan[b])
      BY <2>1, <2>3, <2>4, <3>1 DEF Promising, GrantsDisjoint, Live
    <3>3. plan[a] \in Interval /\ plan[b] \in Interval
      BY <1>0, <1>1, <2>3, <3>1
    <3>4. QED BY <3>2, <3>3 DEF Promised!Apart, Overlap, Interval
  <2>5. Promised!Prepare(a)
    BY <1>0, <2>2, <2>3, <2>4 DEF Promised!Prepare, Promised!Becomes, Promised!Runs
  <2>6. QED BY <2>5 DEF Kept, Promised!Next
<1>3. ASSUME NEW a \in Awards, NEW from, NEW to \in {"committed", "expired"},
             from # "none", grant[a].state = from, grant' = [grant EXCEPT ![a].state = to]
      PROVE  /\ Promised!Becomes(a, from, to) /\ grant'[a].state = to
             /\ plan[a] # None /\ grant'[a].span = plan[a] /\ grant[a].span = plan[a]
  <2>1. /\ grant'[a].state = to /\ grant'[a].span = grant[a].span
        /\ \A b \in Awards : b # a => grant'[b] = grant[b]
    BY <1>0, <1>3 DEF GrantRow
  <2>2. GrantedStates' = [GrantedStates EXCEPT ![a] = to] /\ GrantedStates[a] = from
    BY <1>3, <2>1, GrantedMoves DEF GrantedStates
  <2>3. QED BY <1>1, <2>1, <2>2 DEF Promised!Becomes
<1>4. ASSUME NEW a \in Awards, grant[a].state = "prepared",
             grant' = [grant EXCEPT ![a].state = "committed"]
      PROVE  Kept
  <2>1. /\ Promised!Becomes(a, "prepared", "committed") /\ grant'[a].state = "committed"
        /\ plan[a] # None /\ grant'[a].span = plan[a]
    BY <1>3, <1>4
  <2>2. plan[a].rule = "provider-monthly" => Covered(a)'
    BY <1>0, <2>1 DEF Promising, NoUnprotectedCommit, Covered
  <2>3. plan[a].rule = "provider-monthly" => a \in CoveredAwards
    BY <1>0, <2>2 DEF Promising, Core, OneInterval, Covered, CoveredAwards
  <2>4. Promised!Commit(a)
    BY <1>0, <2>1, <2>3 DEF Promised!Commit
  <2>5. QED BY <2>4 DEF Kept, Promised!Next
<1>5. ASSUME NEW a \in Awards, grant[a].state = "committed", grant[a].span.end <= now,
             grant' = [grant EXCEPT ![a].state = "expired"]
      PROVE  Kept
  <2>1. Promised!Becomes(a, "committed", "expired") /\ plan[a].end <= now
    BY <1>3, <1>5
  <2>2. Promised!Expire(a)
    BY <1>0, <2>1 DEF Promised!Expire
  <2>3. QED BY <2>2 DEF Kept, Promised!Next
<1>6. QED BY <1>2, <1>4, <1>5, GrantStep DEF Promising

\* Dates are promised by the first replica that saves a plan.
LEMMA PromiseKept ==
    ASSUME Promising, Promising', [Next]_vars, plan' # plan PROVE Kept
<1>1. PICK w \in Workers : SaveFulfillmentPlan(w)
  BY PlanWriters
<1> DEFINE a == wk[w].award
<1>2. /\ UNCHANGED <<now, grant, pay>> /\ OpsStand /\ a \in Awards /\ OneRow(a)
  BY <1>1, AwardMoves DEF AwardWriter, Promising
<1>3. plan \in [Awards -> Interval \cup {None}] /\ award \in [Awards -> AwardRow]
  BY DEF Promising, Core, TypeOK
<1>4. plan' = [plan EXCEPT ![a] = EnsurePlanRow(w)] /\ plan[a] = None
  BY <1>1, <1>3, PlanSaved DEF EnsurePlanRow
<1>5. plan'[a] # None /\ plan' = [plan EXCEPT ![a] = plan'[a]]
  <2>1. \A b \in Awards : b # a => plan'[b] = plan[b]
    BY <1>3, <1>4
  <2>2. plan'[a] = EnsurePlanRow(w)
    BY <1>2, <1>3, <1>4
  <2>3. EnsurePlanRow(w) # None
    BY <1>3, <1>4
  <2>4. QED BY <1>3, <1>4, <2>2, <2>3
<1>6. plan'[a] \in Interval /\ plan'[a].end = plan'[a].start + Months[a]
  BY <1>2, <1>5 DEF Promising, Core, TypeOK, PlansWhole, Whole
<1>7. ShownDates' = ShownDates
  <2>1. award[a].state \notin Delivered
    BY <1>2, <1>4 DEF Promising, DeliveredIsCommitted, Core, OneInterval
  <2>2. award'[a].state \notin Delivered
    <3>1. award'[a].state \in {"preparing", "needs_review"}
      BY <1>1, <1>2, <1>3 DEF SaveFulfillmentPlan, ProjectFulfillmentPlan, NeedsReview, AwardRow
    <3>2. QED BY <3>1 DEF Delivered
  <2>3. QED BY <1>2, <2>1, <2>2 DEF ShownDates, OneRow
<1>8. GrantedStates' = GrantedStates /\ CoveredAwards' = CoveredAwards
  BY <1>2, CoveredFixed DEF GrantedStates
<1> HIDE DEF a
<1>9. Promised!Promise(a)
  BY <1>2, <1>4, <1>5, <1>6, <1>7, <1>8 DEF Promised!Promise, Promised!Dates, Interval, Rules
<1>10. QED BY <1>2, <1>9 DEF Kept, Promised!Next

\* Awards are shown as delivered, sent back to review or follow the calendar.
LEMMA ShowKept ==
    ASSUME Promising, Promising', [Next]_vars, plan' = plan, award' # award PROVE Kept
<1>1. CASE award' = LifecycleApplied /\ UNCHANGED <<now, grant, op, pay>>
  <2>1. UNCHANGED <<GrantedStates, CoveredAwards>>
    BY <1>1 DEF GrantedStates, CoveredAwards
  <2>2. ShownDates' = ShownDates
    BY <1>1, LifecycleType, ShownFixed DEF Promising, Core
  <2>3. QED BY <1>1, <2>1, <2>2 DEF Kept, Promised!vars
<1>2. ASSUME NEW w \in Workers, AwardWriter(w) PROVE Kept
  <2> DEFINE a == wk[w].award
  <2>1. UNCHANGED <<now, grant, pay>> /\ OpsStand /\ a \in Awards /\ OneRow(a)
    BY <1>2, AwardMoves DEF Promising
  <2>2. GrantedStates' = GrantedStates /\ CoveredAwards' = CoveredAwards
    BY <2>1, CoveredFixed DEF GrantedStates
  <2> HIDE DEF a
  <2>3. \A b \in Awards : b # a => ShownDates'[b] = ShownDates[b]
    BY <2>1 DEF ShownDates, OneRow
  <2>4. CASE award'[a].state \in Delivered
    <3>1. /\ grant[a].state \in {"committed", "expired"}
          /\ award'[a].confirmed = SpanOf(grant[a].span)
      BY <2>1, <2>4 DEF Promising, DeliveredIsCommitted
    <3>2. grant[a].span = plan[a]
      BY <2>1, <3>1 DEF Promising, Core, OneInterval
    <3>3. ShownDates' = [ShownDates EXCEPT ![a] = [start |-> plan[a].start, end |-> plan[a].end]]
      BY <2>1, <2>3, <2>4, <3>1, <3>2 DEF ShownDates, SpanOf
    <3>4. GrantedStates[a] \in {"committed", "expired"}
      BY <2>1, <3>1 DEF GrantedStates
    <3>5. Promised!Show(a)
      BY <2>1, <2>2, <3>3, <3>4 DEF Promised!Show, Promised!Given
    <3>6. QED BY <2>1, <3>5 DEF Kept, Promised!Next
  <2>5. CASE award'[a].state \notin Delivered
    <3>1. ShownDates' = [ShownDates EXCEPT ![a] = None]
      BY <2>1, <2>3, <2>5 DEF ShownDates
    <3>2. Promised!Withdraw(a)
      BY <2>1, <2>2, <3>1 DEF Promised!Withdraw
    <3>3. QED BY <2>1, <3>2 DEF Kept, Promised!Next
  <2>6. QED BY <2>4, <2>5
<1>3. ASSUME (\E w \in Workers : Complete(w)) \/ ReconcileLifecycle
      PROVE  award' = LifecycleApplied /\ UNCHANGED <<now, grant, op, pay>>
  BY <1>3 DEF Complete, ReconcileLifecycle, usersVars
<1>4. QED BY <1>1, <1>2, <1>3, AwardWriters

\* Only time moves the calendar.
LEMMA ClockWriters ==
    ASSUME [Next]_vars, now' # now PROVE Tick
<1>1. ASSUME NEW w \in Workers, Step(w) PROVE now' = now
  <2>1. CASE ReadAward(w) \/ AcquireUserLease(w) \/ Complete(w) \/ FailOutbox(w) \/ RaiseAlert(w)
    BY <2>1 DEF ReadAward, AcquireUserLease, Complete, FailOutbox, RaiseAlert
  <2>2. CASE \/ PlanAward(w) \/ SaveFulfillmentPlan(w) \/ RecoverFulfillmentPlan(w)
             \/ PrepareBilling(w) \/ Preparing(w)
    BY <2>2 DEF PlanAward, SaveFulfillmentPlan, RecoverFulfillmentPlan, PrepareBilling, Preparing
  <2>3. CASE SendPrepare(w) \/ SendCommit(w) \/ WorkerReview(w) \/ Scheduled(w)
    BY <2>3 DEF SendPrepare, SendCommit, WorkerReview, Scheduled
  <2>4. CASE \/ Inspect(w) \/ MarkProtecting(w) \/ PauseRead(w) \/ PausePut(w)
             \/ PauseVerify(w) \/ MarkUncertain(w)
    BY <2>4 DEF Inspect, MarkProtecting, PauseRead, PausePut, PauseVerify, MarkUncertain
  <2>5. QED BY <1>1, <2>1, <2>2, <2>3, <2>4 DEF Step
<1>2. ASSUME NEW w \in Workers, \/ Crash(w) \/ StepFails(w) \/ InspectFails(w)
                                \/ PauseReadFails(w) \/ SaveStalls(w)
                                \/ \E a \in Awards : Claim(w, a)
      PROVE  now' = now
  BY <1>2 DEF Crash, StepFails, InspectFails, PauseReadFails, SaveStalls, Claim
<1>3. ASSUME ReconcileLifecycle \/ Serve \/ UNCHANGED vars PROVE now' = now
  BY <1>3 DEF ReconcileLifecycle, Serve, PreparePremiumGrant, CommitPremiumGrant, vars
<1>4. ASSUME NEW a \in Awards, \/ ExpirePremiumGrant(a) \/ OutboxLeaseExpires(a)
                               \/ BackoffElapses(a) \/ RetryAward(a)
      PROVE  now' = now
  BY <1>4 DEF ExpirePremiumGrant, OutboxLeaseExpires, BackoffElapses, RetryAward
<1>5. ASSUME NEW u \in Users, UserLeaseExpires(u) \/ AccountChanges(u) PROVE now' = now
  BY <1>5 DEF UserLeaseExpires, AccountChanges
<1>6. ASSUME NEW r \in Refs, CustomerCancels(r) \/ CollectionDue(r) PROVE now' = now
  BY <1>6 DEF CustomerCancels, CollectionDue
<1>7. QED BY <1>1, <1>2, <1>3, <1>4, <1>5, <1>6 DEF Next

LEMMA PromiseStep ==
    ASSUME Promising, Promising', [Next]_vars PROVE Kept
<1>1. CASE now' # now
  <2>1. Tick
    BY <1>1, ClockWriters
  <2>2. QED BY <2>1, PassKept
<1>2. QED BY <1>1, CoverKept, GrantKept, PromiseKept, ShowKept DEF Promising

LEMMA PromiseInit == Init => Promised!Init
BY DEF Init, Promised!Init, GrantedStates, CoveredAwards, ShownDates, Delivered

\* Whatever its replicas, retries and late requests do, and for any number of
\* them, the fulfilment keeps its promise: dates are fixed once and last the full
\* prize, a grant is made for them alone and never beside another of the winner,
\* it is committed only once its subscription is protected and runs to its end,
\* and what is shown as delivered has been granted.
THEOREM FulfilsPromise == Spec => PrizeHonoured
<1>1. Spec => []Promising
  BY CoreInvariant, DeliverySound, ProtectedBeforeCommit, PrizesDisjoint, PlansWholeAlways, PTL
     DEF Promising
<1>2. Promising /\ Promising' /\ [Next]_vars => [Promised!Next]_(Promised!vars)
  BY PromiseStep DEF Kept
<1>3. QED BY <1>1, <1>2, PromiseInit, PTL DEF Spec, PrizeHonoured, Promised!Spec
==============================================================================
