---------------------- MODULE GiveawayFulfillmentProofs ----------------------
(***************************************************************************)
(* Theorems about GiveawayFulfillment, for every set of awards, winners    *)
(* and replicas and every bound.                                           *)
(*                                                                         *)
(* The inductive invariant Core says what a replica may assume at each     *)
(* step (LocalOK), that a request in flight carries the stored plan        *)
(* (Messages), and that all rows of an award carry one interval.           *)
(***************************************************************************)
EXTENDS GiveawayFulfillment, TLAPS

\* Steps reached only after the plan was saved; after the billing operation was
\* ensured; and those that talk to the provider.
SavedPCs == {"billing", "preparing", "prepare", "prepareWait", "inspect",
             "protecting", "pauseRead", "put", "verify", "commit", "commitWait",
             "schedule"}
ProtectPCs == {"inspect", "protecting", "pauseRead", "put", "verify", "pauseError"}
OpPCs == (SavedPCs \ {"billing"}) \cup ProtectPCs

LocalOK(w) ==
    /\ wk[w].pc # "idle" => wk[w].award \in Awards
    /\ wk[w].pc = "save" => wk[w].plan \in Interval
    /\ wk[w].pc \in SavedPCs => wk[w].plan \in Interval /\ wk[w].plan = plan[wk[w].award]
    /\ wk[w].pc \in OpPCs /\ wk[w].ref # None => op[wk[w].award] # None
    /\ wk[w].pc \in ProtectPCs => wk[w].ref # None

WaitPC(m) == IF m.kind = "prepare" THEN "prepareWait" ELSE "commitWait"
Messages ==
    \A m \in net : /\ m.span = plan[m.award]
                   /\ m.from # None => /\ wk[m.from].award = m.award
                                       /\ wk[m.from].pc = WaitPC(m)

\* A plan is stored and projected in one transaction.
Projected == \A a \in Awards : plan[a] # None => award[a].planned # None

Core == /\ TypeOK
        /\ \A w \in Workers : LocalOK(w)
        /\ Messages
        /\ OneInterval
        /\ Projected

(***************************************************************************)
(* Types of values.                                                        *)
(***************************************************************************)
LEMMA IdleType == Idle \in Local
BY DEF Idle, Local, PCs, WorkPCs

LEMMA IntervalType ==
    ASSUME NEW i \in Interval
    PROVE  /\ i # None
           /\ SpanOf(i) \in Span
           /\ SpanOf(i) # None
BY NoneAssumption DEF Interval, Span, SpanOf

LEMMA OperationType ==
    ASSUME NEW o \in Operation PROVE o # None
BY NoneAssumption DEF Operation, OpStates

LEMMA LifecycleType ==
    ASSUME TypeOK
    PROVE  /\ LifecycleApplied \in [Awards -> AwardRow]
           /\ \A a \in Awards : /\ LifecycleApplied[a].planned = award[a].planned
                                /\ LifecycleApplied[a].confirmed = award[a].confirmed
                                /\ LifecycleApplied[a].state \in Delivered
                                      <=> award[a].state \in Delivered
<1>1. \A a \in Awards : LifecycleState(award[a]) \in AwardStates
  BY DEF TypeOK, LifecycleState, AwardRow, AwardStates
<1>2. \A a \in Awards : LifecycleState(award[a]) \in Delivered
                           <=> award[a].state \in Delivered
  BY DEF TypeOK, LifecycleState, AwardRow, AwardStates, Delivered
<1>3. QED BY <1>1, <1>2 DEF LifecycleApplied, TypeOK, AwardRow

LEMMA ReleasedType ==
    ASSUME NEW w \in Workers, lease \in [Users -> LeaseRow]
    PROVE  Released(w) \in [Users -> LeaseRow]
BY DEF Released, LeaseRow

LEMMA OrphanedType ==
    ASSUME NEW w \in Workers, net \subseteq Request
    PROVE  Orphaned(w) \subseteq Request
BY DEF Orphaned, Request

(***************************************************************************)
(* What the two control transfers of a replica do to its local state.      *)
(***************************************************************************)
Others(w) == \A v \in Workers : v # w => wk'[v] = wk[v]

LEMMA GotoFacts ==
    ASSUME NEW w \in Workers, NEW pc \in PCs, wk \in [Workers -> Local], Goto(w, pc)
    PROVE  /\ wk' \in [Workers -> Local]
           /\ Others(w)
           /\ wk'[w].pc = pc
           /\ wk'[w].award = wk[w].award
           /\ wk'[w].plan = wk[w].plan
           /\ wk'[w].ref = wk[w].ref
           /\ wk'[w].dead = wk[w].dead
BY DEF Goto, Local, Others

LEMMA ReturnFacts ==
    ASSUME NEW w \in Workers, NEW pc \in PCs, wk \in [Workers -> Local], Return(w, pc)
    PROVE  /\ wk' \in [Workers -> Local]
           /\ Others(w)
           /\ wk'[w].pc = pc
           /\ wk'[w].award = wk[w].award
<1>1. [Idle EXCEPT !.pc = pc, !.award = wk[w].award] \in Local
  BY IdleType DEF Idle, Local
<1>2. wk'[w] = [Idle EXCEPT !.pc = pc, !.award = wk[w].award]
  BY DEF Return
<1>3. wk'[w].pc = pc /\ wk'[w].award = wk[w].award
  BY <1>2 DEF Idle
<1>4. QED BY <1>1, <1>3 DEF Return, Others

(***************************************************************************)
(* A step that keeps the stored plans and operations keeps LocalOK of the  *)
(* replicas it does not move.                                              *)
(***************************************************************************)
Keeps == \A a \in Awards : /\ plan[a] # None => plan'[a] = plan[a]
                           /\ op[a] # None => op'[a] # None

LEMMA LocalFrame ==
    ASSUME NEW v \in Workers, LocalOK(v), Keeps, wk'[v] = wk[v]
    PROVE  LocalOK(v)'
<1>1. wk[v].pc \in SavedPCs \cup OpPCs => wk[v].award \in Awards
  BY DEF LocalOK, SavedPCs, OpPCs, ProtectPCs
<1>2. wk[v].pc \in SavedPCs => plan[wk[v].award] # None
  BY IntervalType DEF LocalOK
<1>3. QED BY <1>1, <1>2 DEF LocalOK, Keeps

\* A replica that hands its row back, or is idle, assumes nothing but its award.
LEMMA LocalReturned ==
    ASSUME NEW w \in Workers, wk'[w].pc \in {"fail", "complete", "alertReview", "alertBilling", "review"},
           wk'[w].award \in Awards
    PROVE  LocalOK(w)'
BY DEF LocalOK, SavedPCs, OpPCs, ProtectPCs

LEMMA LocalIdle ==
    ASSUME NEW w \in Workers, wk'[w].pc = "idle"
    PROVE  LocalOK(w)'
BY DEF LocalOK, SavedPCs, OpPCs, ProtectPCs

LEMMA LocalAll ==
    ASSUME Core, Keeps, NEW w \in Workers, LocalOK(w)', Others(w)
    PROVE  \A v \in Workers : LocalOK(v)'
BY LocalFrame DEF Core, Others

\* A replica that does not wait has no request of its own in flight.
LEMMA NotWaiting ==
    ASSUME Core, NEW w \in Workers, wk[w].pc \notin {"prepareWait", "commitWait"}
    PROVE  \A m \in net : m.from # w
BY NoneAssumption DEF Core, Messages, WaitPC

LEMMA MessagesFrame ==
    ASSUME Core, Keeps, NEW w \in Workers, Others(w), net' = net,
           \A m \in net : m.from # w
    PROVE  Messages'
<1> SUFFICES ASSUME NEW m \in net
             PROVE  /\ m.span = plan'[m.award]
                    /\ m.from # None => /\ wk'[m.from].award = m.award
                                        /\ wk'[m.from].pc = WaitPC(m)
  BY DEF Messages, WaitPC
<1>1. m \in Request
  BY DEF Core, TypeOK
<1>2. m.span = plan'[m.award]
  BY <1>1, IntervalType DEF Core, Messages, Keeps, Request
<1>3. QED BY <1>1, <1>2 DEF Core, Messages, Others, Request

(***************************************************************************)
(* Core holds initially.                                                   *)
(***************************************************************************)
LEMMA CoreInit == Init => Core
<1> SUFFICES ASSUME Init PROVE Core
  OBVIOUS
<1>1. TypeOK
  <2>1. now \in Nat /\ faults \in Nat /\ net \subseteq Request
    BY DEF Init
  <2>2. account \in [Users -> Account]
    BY RowsAssumption DEF Init
  <2>3. grant \in [Awards -> GrantRow] /\ outbox \in [Awards -> OutboxRow]
    BY DEF Init, GrantRow, GrantStates, OutboxRow, OutboxStates
  <2>4. award \in [Awards -> AwardRow]
    BY DEF Init, AwardRow, AwardStates, BillingStates
  <2>5. /\ plan \in [Awards -> Interval \cup {None}]
        /\ op \in [Awards -> Operation \cup {None}]
        /\ alert \in [Awards -> SUBSET Categories]
    BY DEF Init
  <2>6. lease \in [Users -> LeaseRow] /\ pay \in [Refs -> Payment]
    BY ConfigAssumption DEF Init, LeaseRow, Payment
  <2>7. wk \in [Workers -> Local]
    BY IdleType DEF Init
  <2>8. QED BY <2>1, <2>2, <2>3, <2>4, <2>5, <2>6, <2>7 DEF TypeOK
<1>2. \A w \in Workers : LocalOK(w)
  BY DEF Init, Idle, LocalOK, SavedPCs, OpPCs, ProtectPCs
<1>3. Messages
  BY DEF Init, Messages
<1>4. OneInterval /\ Projected
  BY DEF Init, OneInterval, Projected
<1>5. QED BY <1>1, <1>2, <1>3, <1>4 DEF Core

(***************************************************************************)
(* Core is kept by the dispatcher.                                         *)
(***************************************************************************)
\* Rows of an award carry the same interval after a step that changes none of
\* the fields OneInterval and Projected speak of.
Dates == /\ plan' = plan
         /\ op' = op
         /\ grant' = grant
         /\ \A a \in Awards : /\ award'[a].planned = award[a].planned
                              /\ award'[a].confirmed = award[a].confirmed

LEMMA DatesFrame ==
    ASSUME Core, Dates PROVE OneInterval' /\ Projected' /\ Keeps
BY DEF Core, Dates, OneInterval, Projected, Keeps, SpanOf

LEMMA ClaimCore ==
    ASSUME Core, NEW w \in Workers, NEW a \in Awards, Claim(w, a)
    PROVE  Core'
<1>0. TypeOK /\ wk \in [Workers -> Local]
  BY DEF Core, TypeOK
<1>1. Dates
  BY DEF Claim, Dates, usersVars, awardVars
<1>2. /\ wk' \in [Workers -> Local] /\ Others(w)
      /\ wk'[w].pc = "read" /\ wk'[w].award = a
  <2>1. [Idle EXCEPT !.pc = "read", !.award = a] \in Local
    BY DEF Idle, Local, PCs
  <2>2. QED BY <1>0, <2>1 DEF Claim, Others, Idle
<1>3. outbox' \in [Awards -> OutboxRow]
  BY <1>0 DEF Claim, TypeOK, OutboxRow, OutboxStates
<1>4. TypeOK'
  BY <1>0, <1>2, <1>3 DEF Claim, TypeOK, usersVars, awardVars
<1>5. LocalOK(w)'
  BY <1>2 DEF LocalOK, SavedPCs, OpPCs, ProtectPCs
<1>6. \A m \in net : m.from # w
  BY NotWaiting DEF Claim, At
<1>7. net' = net
  BY DEF Claim
<1>8. QED BY <1>1, <1>2, <1>4, <1>5, <1>6, <1>7, DatesFrame, LocalAll, MessagesFrame DEF Core

LEMMA ReadAwardCore ==
    ASSUME Core, NEW w \in Workers, ReadAward(w)
    PROVE  Core'
<1> DEFINE a == wk[w].award
<1>0. TypeOK /\ wk \in [Workers -> Local] /\ wk[w].pc = "read" /\ a \in Awards
  BY DEF Core, TypeOK, ReadAward, At, LocalOK
<1>1. Dates
  BY DEF ReadAward, Dates, usersVars, awardVars
<1>2. /\ wk' \in [Workers -> Local] /\ Others(w)
      /\ wk'[w].pc \in {"complete", "lease"} /\ wk'[w].award = a
  <2>1. CASE Return(w, "complete")
    BY <1>0, <2>1, ReturnFacts DEF PCs
  <2>2. CASE wk' = [wk EXCEPT ![w].pc = "lease", ![w].version = award[a].version,
                              ![w].planned = award[a].planned]
    <3>1. award[a].version \in Nat /\ award[a].planned \in Span \cup {None}
      BY <1>0 DEF TypeOK, AwardRow
    <3>2. wk[w] \in Local /\ "lease" \in PCs
      BY <1>0 DEF PCs
    <3>3. [wk[w] EXCEPT !.pc = "lease", !.version = award[a].version,
                        !.planned = award[a].planned] \in Local
      <4> HIDE DEF a
      <4>1. QED BY <3>1, <3>2 DEF Local
    <3>4. wk' = [wk EXCEPT ![w] = [wk[w] EXCEPT !.pc = "lease", !.version = award[a].version,
                                                !.planned = award[a].planned]]
      BY <1>0, <2>2
    <3>5. QED BY <1>0, <3>2, <3>3, <3>4 DEF Others, Local
  <2>3. QED BY <2>1, <2>2 DEF ReadAward
<1>3. TypeOK'
  BY <1>0, <1>2 DEF ReadAward, TypeOK, usersVars, awardVars, queueVars
<1>4. LocalOK(w)'
  BY <1>0, <1>2 DEF LocalOK, SavedPCs, OpPCs, ProtectPCs
<1>5. \A m \in net : m.from # w
  BY <1>0, NotWaiting
<1>6. net' = net
  BY DEF ReadAward
<1>7. QED BY <1>1, <1>2, <1>3, <1>4, <1>5, <1>6, DatesFrame, LocalAll, MessagesFrame DEF Core

LEMMA AcquireUserLeaseCore ==
    ASSUME Core, NEW w \in Workers, AcquireUserLease(w)
    PROVE  Core'
<1>0. TypeOK /\ wk \in [Workers -> Local] /\ wk[w].pc = "lease" /\ wk[w].award \in Awards
  BY DEF Core, TypeOK, AcquireUserLease, At, LocalOK
<1>1. Dates
  BY DEF AcquireUserLease, Dates, usersVars, awardVars
<1>2. /\ wk' \in [Workers -> Local] /\ Others(w)
      /\ wk'[w].pc \in {"fail", "plan"} /\ wk'[w].award = wk[w].award
  BY <1>0, ReturnFacts, GotoFacts DEF AcquireUserLease, PCs, WorkPCs
<1>3. lease' \in [Users -> LeaseRow]
  <2>1. [owner |-> w, live |-> TRUE] \in LeaseRow
    BY DEF LeaseRow
  <2>2. lease \in [Users -> LeaseRow]
    BY <1>0 DEF TypeOK
  <2>3. QED BY <2>1, <2>2 DEF AcquireUserLease
<1>4. TypeOK'
  BY <1>0, <1>2, <1>3 DEF AcquireUserLease, TypeOK, usersVars, awardVars
<1>5. LocalOK(w)'
  BY <1>0, <1>2 DEF LocalOK, SavedPCs, OpPCs, ProtectPCs
<1>6. \A m \in net : m.from # w
  BY <1>0, NotWaiting
<1>7. net' = net
  BY DEF AcquireUserLease
<1>8. QED BY <1>1, <1>2, <1>4, <1>5, <1>6, <1>7, DatesFrame, LocalAll, MessagesFrame DEF Core

LEMMA CompleteCore ==
    ASSUME Core, NEW w \in Workers, Complete(w)
    PROVE  Core'
<1>0. TypeOK /\ wk \in [Workers -> Local] /\ wk[w].pc = "complete"
  BY DEF Core, TypeOK, Complete, At
<1>1. Dates
  BY <1>0, LifecycleType DEF Complete, Dates, usersVars
<1>2. wk' \in [Workers -> Local] /\ Others(w) /\ wk'[w].pc = "idle"
  BY <1>0, IdleType DEF Complete, Others, Idle
<1>3. outbox' \in [Awards -> OutboxRow]
  BY <1>0 DEF Complete, TypeOK, OutboxRow, OutboxStates
<1>4. lease' \in [Users -> LeaseRow] /\ award' \in [Awards -> AwardRow]
  BY <1>0, ReleasedType, LifecycleType DEF Complete, TypeOK
<1>5. TypeOK'
  BY <1>0, <1>2, <1>3, <1>4 DEF Complete, TypeOK, usersVars
<1>6. \A m \in net : m.from # w
  BY <1>0, NotWaiting
<1>7. net' = net
  BY DEF Complete
<1>8. QED BY <1>1, <1>2, <1>5, <1>6, <1>7, DatesFrame, LocalIdle, LocalAll, MessagesFrame DEF Core

LEMMA FailOutboxCore ==
    ASSUME Core, NEW w \in Workers, FailOutbox(w)
    PROVE  Core'
<1>0. TypeOK /\ wk \in [Workers -> Local] /\ wk[w].pc = "fail"
  BY DEF Core, TypeOK, FailOutbox, At
<1>1. Dates
  BY DEF FailOutbox, Dates, usersVars, awardVars
<1>2. wk' \in [Workers -> Local] /\ Others(w) /\ wk'[w].pc = "idle"
  BY <1>0, IdleType DEF FailOutbox, Others, Idle
<1>3. outbox' \in [Awards -> OutboxRow]
  BY <1>0 DEF FailOutbox, TypeOK, OutboxRow, OutboxStates
<1>4. lease' \in [Users -> LeaseRow]
  BY <1>0, ReleasedType DEF FailOutbox, TypeOK
<1>5. TypeOK'
  BY <1>0, <1>2, <1>3, <1>4 DEF FailOutbox, TypeOK, usersVars, awardVars
<1>6. \A m \in net : m.from # w
  BY <1>0, NotWaiting
<1>7. net' = net
  BY DEF FailOutbox
<1>8. QED BY <1>1, <1>2, <1>5, <1>6, <1>7, DatesFrame, LocalIdle, LocalAll, MessagesFrame DEF Core

\* A step after which the replica only has to raise an alert, review or hand the
\* row back.
LEMMA BackCore ==
    ASSUME Core, Keeps, OneInterval', Projected', NEW w \in Workers,
           wk[w].pc # "idle", wk[w].pc \notin {"prepareWait", "commitWait"},
           wk'[w].pc \in {"fail", "complete", "alertReview", "alertBilling", "review"},
           wk'[w].award = wk[w].award, Others(w), net' = net, TypeOK'
    PROVE  Core'
<1>1. LocalOK(w)'
  BY LocalReturned DEF Core, LocalOK
<1>2. \A m \in net : m.from # w
  BY NotWaiting
<1>3. QED BY <1>1, <1>2, LocalAll, MessagesFrame DEF Core

LEMMA RaiseAlertCore ==
    ASSUME Core, NEW w \in Workers, RaiseAlert(w)
    PROVE  Core'
<1>0. TypeOK /\ wk \in [Workers -> Local] /\ wk[w].pc \in {"alertReview", "alertBilling"}
  BY DEF Core, TypeOK, RaiseAlert, At, InTime
<1>1. Dates
  BY DEF RaiseAlert, Dates, usersVars
<1>2. wk' \in [Workers -> Local] /\ Others(w) /\ wk'[w].pc = "fail" /\ wk'[w].award = wk[w].award
  BY <1>0, ReturnFacts DEF RaiseAlert, PCs
<1>3. alert' \in [Awards -> SUBSET Categories]
  BY <1>0 DEF RaiseAlert, TypeOK, Categories
<1>4. TypeOK'
  BY <1>0, <1>2, <1>3 DEF RaiseAlert, TypeOK, usersVars, queueVars
<1>5. net' = net
  BY DEF RaiseAlert
<1>6. QED BY <1>0, <1>1, <1>2, <1>4, <1>5, DatesFrame, BackCore

(***************************************************************************)
(* Core is kept by planning.                                               *)
(***************************************************************************)
\* needsReview rewrites state, billing and version only.
LEMMA NeedsReviewFacts ==
    ASSUME Core, NEW w \in Workers, wk[w].pc # "idle", NeedsReview(w, wk[w].version),
           grant' = grant
    PROVE  /\ award' \in [Awards -> AwardRow]
           /\ Dates
           /\ wk' \in [Workers -> Local] /\ Others(w)
           /\ wk'[w].pc = "alertReview" /\ wk'[w].award = wk[w].award
<1> DEFINE a == wk[w].award
           row == [award[a] EXCEPT !.state = "needs_review", !.billing = "pending",
                                   !.version = wk[w].version + 1]
<1>1. /\ a \in Awards /\ award \in [Awards -> AwardRow] /\ award[a] \in AwardRow
      /\ wk \in [Workers -> Local]
  BY DEF Core, TypeOK, LocalOK
<1>2. wk[w].version + 1 \in Nat
  BY <1>1 DEF Local
<1>3. row \in AwardRow /\ row.planned = award[a].planned /\ row.confirmed = award[a].confirmed
  <2> HIDE DEF a
  <2>1. QED BY <1>1, <1>2 DEF AwardRow, AwardStates, BillingStates
<1>4. award' = [award EXCEPT ![a] = row]
  BY <1>1 DEF NeedsReview
<1>5. award' \in [Awards -> AwardRow]
  BY <1>1, <1>3, <1>4
<1>6. Dates
  <2> HIDE DEF a, row
  <2>1. QED BY <1>1, <1>3, <1>4 DEF NeedsReview, Dates
<1>7. /\ wk' \in [Workers -> Local] /\ Others(w)
      /\ wk'[w].pc = "alertReview" /\ wk'[w].award = wk[w].award
  <2>1. "alertReview" \in PCs
    BY DEF PCs, WorkPCs
  <2>2. QED BY <1>1, <2>1, GotoFacts DEF NeedsReview
<1>8. QED BY <1>5, <1>6, <1>7

\* Any step whose effect is needsReview keeps Core.
LEMMA NeedsReviewCore ==
    ASSUME Core, NEW w \in Workers, wk[w].pc \in {"plan", "save", "billing"},
           NeedsReview(w, wk[w].version),
           UNCHANGED <<now, faults, usersVars, alert, queueVars, pay, net>>
    PROVE  Core'
<1>1. /\ award' \in [Awards -> AwardRow] /\ Dates
      /\ wk' \in [Workers -> Local] /\ Others(w)
      /\ wk'[w].pc = "alertReview" /\ wk'[w].award = wk[w].award
  BY NeedsReviewFacts DEF usersVars
<1>2. TypeOK'
  BY <1>1 DEF Core, TypeOK, Dates, usersVars, queueVars
<1>3. QED BY <1>1, <1>2, DatesFrame, BackCore

\* The first instant a new prize may start at is an instant.
LEMMA CoverageStartType ==
    ASSUME Core, NEW u \in Users
    PROVE  CoverageStart(u) \subseteq Nat
<1>1. NowOrPaid(u) \in Nat
  BY DEF Core, TypeOK, Account, NowOrPaid, Later
<1>2. \A a \in CoveringGrants(u) : grant[a].span.end \in Nat
  <2> SUFFICES ASSUME NEW a \in Awards, grant[a].state = "committed"
               PROVE  grant[a].span.end \in Nat
    BY DEF CoveringGrants
  <2>1. plan[a] # None /\ grant[a].span = plan[a]
    BY DEF Core, OneInterval
  <2>2. plan[a] \in Interval
    BY <2>1 DEF Core, TypeOK
  <2>3. QED BY <2>1, <2>2 DEF Interval
<1>3. QED BY <1>1, <1>2 DEF CoverageStart

\* A step of one replica keeps Core if it keeps the rows' dates and the stored
\* plans and operations, and its own new local state is justified.
LEMMA StepCore ==
    ASSUME Core, Keeps, OneInterval', Projected', TypeOK', NEW w \in Workers,
           wk[w].pc \notin {"prepareWait", "commitWait"},
           Others(w), LocalOK(w)', net' = net
    PROVE  Core'
<1>1. \A m \in net : m.from # w
  BY NotWaiting
<1>2. QED BY <1>1, LocalAll, MessagesFrame DEF Core

\* The same for a plain transfer of control inside the fulfilment of an award.
LEMMA GotoCore ==
    ASSUME Core, Keeps, OneInterval', Projected', TypeOK', NEW w \in Workers,
           NEW pc \in PCs, Goto(w, pc), net' = net,
           wk[w].pc \notin {"idle", "prepareWait", "commitWait"},
           pc # "save",
           pc \in SavedPCs => wk[w].pc \in SavedPCs,
           pc \in OpPCs /\ wk[w].ref # None => op'[wk[w].award] # None,
           pc \in ProtectPCs => wk[w].ref # None
    PROVE  Core'
<1>1. wk \in [Workers -> Local] /\ wk[w].award \in Awards
  BY DEF Core, TypeOK, LocalOK
<1>2. /\ Others(w) /\ wk'[w].pc = pc /\ wk'[w].award = wk[w].award
      /\ wk'[w].plan = wk[w].plan /\ wk'[w].ref = wk[w].ref
  BY <1>1, GotoFacts
<1>3. wk[w].pc \in SavedPCs => /\ wk[w].plan \in Interval
                               /\ wk[w].plan = plan[wk[w].award]
                               /\ plan'[wk[w].award] = plan[wk[w].award]
  BY <1>1, IntervalType DEF Core, LocalOK, Keeps
<1>4. LocalOK(w)'
  BY <1>1, <1>2, <1>3 DEF LocalOK
<1>5. QED BY <1>2, <1>4, StepCore

LEMMA PrizeIntervalType ==
    ASSUME NEW a \in Awards, NEW start \in Nat, NEW rule \in Rules
    PROVE  PrizeInterval(start, Months[a], rule) \in Interval
<1>1. Months[a] \in Nat
  BY RowsAssumption
<1>2. QED BY <1>1 DEF PrizeInterval, Interval

LEMMA PlanAwardCore ==
    ASSUME Core, NEW w \in Workers, PlanAward(w)
    PROVE  Core'
<1> DEFINE a == wk[w].award
           acc == account[UserOf[a]]
           rule == IntervalRuleFor(acc.ref)
<1>0. /\ TypeOK /\ wk \in [Workers -> Local] /\ wk[w] \in Local
      /\ wk[w].pc = "plan" /\ a \in Awards
  BY DEF Core, TypeOK, PlanAward, InTime, At, LocalOK
<1>1. UserOf[a] \in Users /\ acc \in Account
  BY <1>0, RowsAssumption DEF TypeOK
<1>2. UNCHANGED <<now, faults, usersVars, alert, queueVars, pay, net>>
  BY DEF PlanAward
<1>3. PICK start \in CoverageStart(UserOf[a]) :
        \/ NeedsReview(w, wk[w].version)
        \/ /\ wk' = [wk EXCEPT
                ![w].pc = "save",
                ![w].plan = IF plan[a] # None THEN plan[a]
                            ELSE PrizeInterval(start, Months[a], rule),
                ![w].fresh = (plan[a] = None),
                ![w].ref = acc.ref,
                ![w].unsure = (acc.uncertain \/ acc.cancel)]
           /\ UNCHANGED <<award, plan, op>>
  BY DEF PlanAward
<1>4. CASE NeedsReview(w, wk[w].version)
  BY <1>0, <1>2, <1>4, NeedsReviewCore
<1>5. CASE ~NeedsReview(w, wk[w].version)
  <2> DEFINE i == IF plan[a] # None THEN plan[a] ELSE PrizeInterval(start, Months[a], rule)
             f == (plan[a] = None)
             s == (acc.uncertain \/ acc.cancel)
             row == [wk[w] EXCEPT !.pc = "save", !.plan = i, !.fresh = f, !.ref = acc.ref,
                                  !.unsure = s]
  <2>1. start \in Nat /\ rule \in Rules
    BY <1>1, CoverageStartType DEF IntervalRuleFor, Rules
  <2>2. i \in Interval
    BY <1>0, <2>1, PrizeIntervalType DEF TypeOK
  <2>3. f \in BOOLEAN /\ s \in BOOLEAN /\ acc.ref \in Refs \cup {None}
    BY <1>1 DEF Account
  <2>4. "save" \in PCs
    BY DEF PCs, WorkPCs
  <2>5. row \in Local /\ row.pc = "save" /\ row.plan = i /\ row.award = a
    <3> HIDE DEF i, f, s, acc
    <3>1. QED BY <1>0, <2>2, <2>3, <2>4 DEF Local
  <2>6. wk' = [wk EXCEPT ![w] = row]
    <3> HIDE DEF acc
    <3>1. QED BY <1>0, <1>3, <1>5
  <2>7. wk' \in [Workers -> Local] /\ Others(w) /\ wk'[w] = row
    <3> HIDE DEF row
    <3>1. QED BY <1>0, <2>5, <2>6 DEF Others
  <2>8. Dates
    BY <1>2, <1>3, <1>5 DEF Dates, usersVars
  <2>9. TypeOK'
    BY <1>0, <1>2, <1>3, <1>5, <2>7 DEF TypeOK, usersVars, queueVars
  <2>10. LocalOK(w)'
    <3> HIDE DEF row, i, a
    <3>1. QED BY <1>0, <2>2, <2>5, <2>7 DEF LocalOK, SavedPCs, OpPCs, ProtectPCs
  <2>11. QED BY <1>0, <1>2, <2>7, <2>8, <2>9, <2>10, DatesFrame, StepCore
<1>6. QED BY <1>4, <1>5

\* The transaction that stores and projects a plan: the plan row is new or as
\* it was, and the award's dates become those of the plan.
LEMMA ProjectCore ==
    ASSUME Core, NEW w \in Workers, wk[w].pc = "save", PlanMatches(w),
           ProjectFulfillmentPlan(w, EnsurePlanRow(w)), op' = op,
           UNCHANGED <<now, faults, usersVars, alert, queueVars, pay, net>>
    PROVE  Core'
<1> DEFINE a == wk[w].award
           i == EnsurePlanRow(w)
           arow == [award[a] EXCEPT !.planned = SpanOf(i), !.state = "preparing",
                                    !.billing = "pending",
                                    !.version = award[a].version + 1]
           wrow == [wk[w] EXCEPT !.pc = "billing", !.version = wk[w].version + 1]
<1>0. /\ TypeOK /\ wk \in [Workers -> Local] /\ wk[w] \in Local /\ a \in Awards
      /\ award \in [Awards -> AwardRow] /\ award[a] \in AwardRow
      /\ plan \in [Awards -> Interval \cup {None}]
  BY DEF Core, TypeOK, LocalOK
<1>1. i \in Interval /\ wk[w].plan = i /\ (plan[a] # None => i = plan[a])
  BY <1>0 DEF Core, LocalOK, PlanMatches, EnsurePlanRow
<1>2. SpanOf(i) \in Span /\ SpanOf(i) # None /\ i # None
  BY <1>1, IntervalType
<1>3. CASE award[a].version # wk[w].version
  <2>1. Return(w, "fail") /\ UNCHANGED <<award, plan>>
    BY <1>3 DEF ProjectFulfillmentPlan
  <2>2. wk' \in [Workers -> Local] /\ Others(w) /\ wk'[w].pc = "fail" /\ wk'[w].award = wk[w].award
    BY <1>0, <2>1, ReturnFacts DEF PCs
  <2>3. Dates
    BY <2>1 DEF Dates, usersVars
  <2>4. TypeOK'
    BY <1>0, <2>1, <2>2 DEF TypeOK, usersVars, queueVars
  <2>5. QED BY <2>2, <2>3, <2>4, DatesFrame, BackCore
<1>4. CASE award[a].version = wk[w].version
  <2>1. /\ plan' = [plan EXCEPT ![a] = i]
        /\ award' = [award EXCEPT ![a] = arow]
        /\ wk' = [wk EXCEPT ![w] = wrow]
    <3> HIDE DEF i
    <3>1. ProjectFulfillmentPlan(w, i)
      BY DEF i
    <3>2. QED BY <1>0, <1>4, <3>1 DEF ProjectFulfillmentPlan
  <2>2. /\ arow \in AwardRow /\ arow.planned = SpanOf(i)
        /\ arow.confirmed = award[a].confirmed
    <3>1. award[a].version + 1 \in Nat
      BY <1>0 DEF AwardRow
    <3> HIDE DEF a, i
    <3>2. QED BY <1>0, <1>2, <3>1 DEF AwardRow, AwardStates, BillingStates
  <2>3. /\ wrow \in Local /\ wrow.pc = "billing" /\ wrow.plan = wk[w].plan
        /\ wrow.award = a /\ wrow.ref = wk[w].ref
    <3>1. wk[w].version + 1 \in Nat /\ "billing" \in PCs
      BY <1>0 DEF Local, PCs, WorkPCs
    <3>2. QED BY <1>0, <3>1 DEF Local
  <2>4. award' \in [Awards -> AwardRow] /\ plan' \in [Awards -> Interval \cup {None}]
    <3> HIDE DEF i, a, arow
    <3>1. QED BY <1>0, <1>1, <2>1, <2>2
  <2>5. wk' \in [Workers -> Local] /\ Others(w) /\ wk'[w] = wrow
    <3> HIDE DEF wrow
    <3>1. QED BY <1>0, <2>1, <2>3 DEF Others
  <2>6. TypeOK'
    BY <1>0, <2>4, <2>5 DEF TypeOK, usersVars, queueVars
  <2>7. Keeps
    <3> HIDE DEF i, a
    <3>1. QED BY <1>0, <1>1, <2>1 DEF Keeps
  <2>8. OneInterval' /\ Projected'
    <3> SUFFICES ASSUME NEW b \in Awards
                 PROVE  /\ award'[b].planned # None =>
                              plan'[b] # None /\ award'[b].planned = SpanOf(plan'[b])
                        /\ award'[b].confirmed # None => award'[b].confirmed = award'[b].planned
                        /\ op[b] # None => /\ plan'[b] # None
                                           /\ op[b].start = plan'[b].start
                                           /\ op[b].end = plan'[b].end
                        /\ grant[b].state # "none" => plan'[b] # None /\ grant[b].span = plan'[b]
                        /\ plan'[b] # None => award'[b].planned # None
      BY DEF OneInterval, Projected, SpanOf, usersVars
    <3>1. CASE b # a
      <4> HIDE DEF i, a, arow
      <4>1. award'[b] = award[b] /\ plan'[b] = plan[b]
        BY <1>0, <2>1, <3>1
      <4>2. QED BY <4>1 DEF Core, OneInterval, Projected
    <3>2. CASE b = a
      <4> HIDE DEF i, a, arow
      <4>1. award'[a] = arow /\ plan'[a] = i
        BY <1>0, <2>1
      <4>2. award[a].confirmed # None => award[a].confirmed = SpanOf(i)
        BY <1>0, <1>1 DEF Core, OneInterval, Projected
      <4>3. QED BY <1>0, <1>1, <1>2, <2>2, <3>2, <4>1, <4>2 DEF Core, OneInterval, Projected
    <3>3. QED BY <3>1, <3>2
  <2>9. LocalOK(w)'
    <3>1. plan'[a] = wk[w].plan /\ wk[w].plan \in Interval
      <4> HIDE DEF i, a
      <4>1. QED BY <1>0, <1>1, <2>1
    <3>2. QED
      <4> HIDE DEF wrow, i
      <4>1. QED BY <1>0, <2>3, <2>5, <3>1 DEF LocalOK, SavedPCs, OpPCs, ProtectPCs
  <2>10. QED BY <1>0, <2>5, <2>6, <2>7, <2>8, <2>9, StepCore
<1>5. QED BY <1>3, <1>4

LEMMA SaveFulfillmentPlanCore ==
    ASSUME Core, NEW w \in Workers, SaveFulfillmentPlan(w)
    PROVE  Core'
BY ProjectCore, NeedsReviewCore DEF SaveFulfillmentPlan, At

LEMMA RecoverFulfillmentPlanCore ==
    ASSUME Core, NEW w \in Workers, RecoverFulfillmentPlan(w)
    PROVE  Core'
<1> DEFINE a == wk[w].award
           row == [wk[w] EXCEPT !.pc = "billing", !.version = award[a].version]
<1>0. /\ TypeOK /\ wk \in [Workers -> Local] /\ wk[w] \in Local /\ a \in Awards
      /\ wk[w].pc = "save" /\ award[a] \in AwardRow /\ plan[a] # None
      /\ UNCHANGED <<now, faults, usersVars, alert, queueVars, pay, net>>
  BY DEF Core, TypeOK, LocalOK, RecoverFulfillmentPlan, At
<1>1. CASE NeedsReview(w, wk[w].version)
  BY <1>0, <1>1, NeedsReviewCore
<1>2. CASE ~NeedsReview(w, wk[w].version)
  <2>1. /\ PlanMatches(w)
        /\ wk' = [wk EXCEPT ![w].pc = "billing", ![w].version = award[a].version]
        /\ UNCHANGED <<award, plan, op>>
    BY <1>2 DEF RecoverFulfillmentPlan
  <2>2. wk' = [wk EXCEPT ![w] = row]
    BY <1>0, <2>1
  <2>3. /\ row \in Local /\ row.pc = "billing" /\ row.plan = wk[w].plan /\ row.award = a
    <3> DEFINE v == award[a].version
    <3>1. v \in Nat /\ "billing" \in PCs
      BY <1>0 DEF AwardRow, PCs, WorkPCs
    <3> HIDE DEF v
    <3>2. QED BY <1>0, <3>1 DEF Local, v
  <2>4. wk' \in [Workers -> Local] /\ Others(w) /\ wk'[w] = row
    <3> HIDE DEF row
    <3>1. QED BY <1>0, <2>2, <2>3 DEF Others
  <2>5. Dates
    BY <1>0, <2>1 DEF Dates, usersVars
  <2>6. TypeOK'
    BY <1>0, <2>1, <2>4 DEF TypeOK, usersVars, queueVars
  <2>7. wk[w].plan \in Interval /\ wk[w].plan = plan'[a]
    BY <1>0, <2>1 DEF Core, LocalOK, PlanMatches, EnsurePlanRow
  <2>8. LocalOK(w)'
    <3> HIDE DEF row
    <3>1. QED BY <1>0, <2>3, <2>4, <2>7 DEF LocalOK, SavedPCs, OpPCs, ProtectPCs
  <2>9. QED BY <1>0, <2>4, <2>5, <2>6, <2>8, DatesFrame, StepCore
<1>3. QED BY <1>1, <1>2

(***************************************************************************)
(* Core is kept by the billing operation and the requests to Users.        *)
(***************************************************************************)
LEMMA PrepareBillingCore ==
    ASSUME Core, NEW w \in Workers, PrepareBilling(w)
    PROVE  Core'
<1> DEFINE a == wk[w].award
           new == [ref |-> wk[w].ref, start |-> wk[w].plan.start,
                   end |-> wk[w].plan.end, state |-> "pending"]
<1>0. /\ TypeOK /\ wk \in [Workers -> Local] /\ wk[w] \in Local /\ a \in Awards
      /\ wk[w].pc = "billing" /\ op \in [Awards -> Operation \cup {None}]
      /\ wk[w].plan \in Interval /\ wk[w].plan = plan[a]
      /\ UNCHANGED <<now, faults, usersVars, alert, queueVars, pay, net>>
  BY DEF Core, TypeOK, LocalOK, PrepareBilling, InTime, At, SavedPCs
<1>1. CASE NeedsReview(w, wk[w].version)
  BY <1>0, <1>1, NeedsReviewCore
<1>2. ASSUME Goto(w, "preparing"), UNCHANGED <<award, plan, op>>,
             wk[w].ref # None => op[a] # None
      PROVE  Core'
  <2>1. wk' \in [Workers -> Local] /\ "preparing" \in PCs
    BY <1>0, <1>2, GotoFacts DEF PCs, WorkPCs
  <2>2. Dates
    BY <1>0, <1>2 DEF Dates, usersVars
  <2>3. TypeOK'
    BY <1>0, <1>2, <2>1 DEF TypeOK, usersVars, queueVars
  <2>4. QED BY <1>0, <1>2, <2>1, <2>2, <2>3, DatesFrame, GotoCore DEF SavedPCs, ProtectPCs
<1>3. ASSUME wk[w].ref # None, op[a] = None, op' = [op EXCEPT ![a] = new],
             Goto(w, "preparing"), UNCHANGED <<award, plan>>
      PROVE  Core'
  <2>1. wk' \in [Workers -> Local] /\ "preparing" \in PCs
    BY <1>0, <1>3, GotoFacts DEF PCs, WorkPCs
  <2>2. new \in Operation /\ new # None
    BY <1>0, <1>3, OperationType DEF Operation, OpStates, Interval, Local
  <2>3. op' \in [Awards -> Operation \cup {None}] /\ op'[a] = new
    <3> HIDE DEF new
    <3>1. QED BY <1>0, <1>3, <2>2
  <2>4. TypeOK'
    BY <1>0, <1>3, <2>1, <2>3 DEF TypeOK, usersVars, queueVars
  <2>5. Keeps
    <3> HIDE DEF new
    <3>1. QED BY <1>0, <1>3, <2>2 DEF Keeps
  <2>6. plan[a] # None
    BY <1>0, IntervalType
  <2>7. OneInterval' /\ Projected'
    <3>1. new.start = plan[a].start /\ new.end = plan[a].end
      BY <1>0
    <3> HIDE DEF new
    <3>2. \A b \in Awards : b # a => op'[b] = op[b]
      BY <1>0, <1>3
    <3>3. plan' = plan /\ award' = award /\ grant' = grant
      BY <1>0, <1>3 DEF usersVars
    <3>4. QED BY <2>3, <2>6, <3>1, <3>2, <3>3 DEF Core, OneInterval, Projected, SpanOf
  <2>8. QED BY <1>0, <1>3, <2>1, <2>2, <2>3, <2>4, <2>5, <2>7, GotoCore DEF SavedPCs, ProtectPCs
<1>4. QED BY <1>1, <1>2, <1>3 DEF PrepareBilling

\* A step that sets one field of one award row other than its dates.
LEMMA AwardStateFacts ==
    ASSUME TypeOK, NEW a \in Awards, NEW s \in AwardStates,
           award' = [award EXCEPT ![a].state = s]
    PROVE  /\ award' \in [Awards -> AwardRow]
           /\ \A b \in Awards : /\ award'[b].planned = award[b].planned
                                /\ award'[b].confirmed = award[b].confirmed
BY DEF TypeOK, AwardRow

LEMMA PreparingCore ==
    ASSUME Core, NEW w \in Workers, Preparing(w)
    PROVE  Core'
<1> DEFINE a == wk[w].award
           row == [wk[w] EXCEPT !.pc = "prepare", !.plan = plan[a]]
<1>0. /\ TypeOK /\ wk \in [Workers -> Local] /\ wk[w] \in Local /\ a \in Awards
      /\ wk[w].pc = "preparing"
      /\ wk[w].plan \in Interval /\ wk[w].plan = plan[a]
      /\ wk[w].ref # None => op[a] # None
      /\ UNCHANGED <<now, faults, usersVars, plan, op, alert, queueVars, pay, net>>
  BY DEF Core, TypeOK, LocalOK, Preparing, InTime, At, SavedPCs, OpPCs
<1>1. /\ award' \in [Awards -> AwardRow]
      /\ \A b \in Awards : /\ award'[b].planned = award[b].planned
                           /\ award'[b].confirmed = award[b].confirmed
  <2>1. "preparing" \in AwardStates
    BY DEF AwardStates
  <2>2. QED BY <1>0, <2>1, AwardStateFacts DEF Preparing
<1>2. Goto(w, "prepare")
  <2>1. row = [wk[w] EXCEPT !.pc = "prepare"]
    BY <1>0 DEF Local
  <2>2. wk' = [wk EXCEPT ![w] = row]
    BY <1>0 DEF Preparing
  <2>3. QED BY <1>0, <2>1, <2>2 DEF Goto
<1>3. "prepare" \in PCs
  BY DEF PCs, WorkPCs
<1>4. Dates
  BY <1>0, <1>1 DEF Dates, usersVars
<1>5. TypeOK'
  <2>1. wk' \in [Workers -> Local]
    BY <1>0, <1>2, <1>3, GotoFacts
  <2>2. QED BY <1>0, <1>1, <2>1 DEF TypeOK, usersVars, queueVars
<1>6. QED BY <1>0, <1>2, <1>3, <1>4, <1>5, DatesFrame, GotoCore DEF SavedPCs, ProtectPCs

\* A request carries the stored plan, and its sender waits for it.
LEMMA SendCore ==
    ASSUME Core, NEW w \in Workers, NEW kind \in {"prepare", "commit"},
           wk[w].pc = kind, Send(w, kind),
           Goto(w, IF kind = "prepare" THEN "prepareWait" ELSE "commitWait"),
           UNCHANGED <<now, faults, usersVars, awardVars, queueVars, pay>>
    PROVE  Core'
<1> DEFINE a == wk[w].award
           pc == IF kind = "prepare" THEN "prepareWait" ELSE "commitWait"
           msg == [kind |-> kind, award |-> a, span |-> wk[w].plan, from |-> w]
<1>0. /\ TypeOK /\ wk \in [Workers -> Local] /\ wk[w] \in Local /\ a \in Awards
      /\ wk[w].plan \in Interval /\ wk[w].plan = plan[a]
      /\ wk[w].ref # None => op[a] # None
  BY DEF Core, TypeOK, LocalOK, SavedPCs, OpPCs
<1>1. pc \in PCs /\ pc \in {"prepareWait", "commitWait"}
  BY DEF PCs, WorkPCs
<1>2. /\ wk' \in [Workers -> Local] /\ Others(w) /\ wk'[w].pc = pc
      /\ wk'[w].award = a /\ wk'[w].plan = wk[w].plan /\ wk'[w].ref = wk[w].ref
  BY <1>0, <1>1, GotoFacts
<1>3. msg \in Request /\ net' = net \cup {msg}
  BY <1>0 DEF Request, Send
<1>4. TypeOK'
  BY <1>0, <1>2, <1>3 DEF TypeOK, usersVars, awardVars, queueVars
<1>5. Dates
  BY DEF Dates, usersVars, awardVars
<1>6. LocalOK(w)'
  BY <1>0, <1>1, <1>2 DEF LocalOK, SavedPCs, OpPCs, ProtectPCs, awardVars
<1>7. \A m \in net : m.from # w
  BY NotWaiting
<1>8. Messages'
  <2> SUFFICES ASSUME NEW m \in net'
               PROVE  /\ m.span = plan[m.award]
                      /\ m.from # None => /\ wk'[m.from].award = m.award
                                          /\ wk'[m.from].pc = WaitPC(m)
    BY DEF Messages, WaitPC, awardVars
  <2>1. CASE m = msg
    BY <1>0, <1>2, <2>1 DEF WaitPC
  <2>2. CASE m \in net
    <3>1. m \in Request
      BY <2>2 DEF Core, TypeOK
    <3>2. QED BY <1>2, <1>7, <2>2, <3>1 DEF Core, Messages, Others, Request
  <2>3. QED BY <1>3, <2>1, <2>2
<1>9. QED BY <1>2, <1>4, <1>5, <1>6, <1>8, DatesFrame, LocalAll DEF Core

LEMMA SendPrepareCore ==
    ASSUME Core, NEW w \in Workers, SendPrepare(w) PROVE Core'
BY SendCore DEF SendPrepare, InTime, At

LEMMA SendCommitCore ==
    ASSUME Core, NEW w \in Workers, SendCommit(w) PROVE Core'
BY SendCore DEF SendCommit, InTime, At

(***************************************************************************)
(* Core is kept by provider protection.                                    *)
(***************************************************************************)
\* A transfer of control that writes no row but, perhaps, the provider's.
LEMMA ControlCore ==
    ASSUME Core, NEW w \in Workers, NEW pc \in PCs, Goto(w, pc),
           wk[w].pc \in ProtectPCs, pc \in ProtectPCs \cup {"commit", "review"},
           pc = "commit" => wk[w].pc # "pauseError",
           pc \in ProtectPCs \ {"pauseError"} => wk[w].pc # "pauseError",
           UNCHANGED <<now, usersVars, awardVars, queueVars, net>>,
           faults' \in Nat, pay' \in [Refs -> Payment]
    PROVE  Core'
<1>1. Dates
  BY DEF Dates, usersVars, awardVars
<1>2. wk \in [Workers -> Local]
  BY DEF Core, TypeOK
<1>3. wk' \in [Workers -> Local]
  BY <1>2, GotoFacts
<1>4. TypeOK'
  BY <1>3 DEF Core, TypeOK, usersVars, awardVars, queueVars
<1>5. wk[w].ref # None /\ op'[wk[w].award] # None
  BY DEF Core, LocalOK, OpPCs, awardVars
<1>6. /\ pc \in SavedPCs => wk[w].pc \in SavedPCs
      /\ wk[w].pc \notin {"idle", "prepareWait", "commitWait"}
      /\ pc # "save"
  BY DEF ProtectPCs, SavedPCs
<1>7. net' = net
  OBVIOUS
<1>8. QED BY <1>1, <1>4, <1>5, <1>6, <1>7, DatesFrame, GotoCore

LEMMA ProviderPCs ==
    /\ {"inspect", "protecting", "pauseRead", "put", "verify", "pauseError"} \subseteq PCs
    /\ {"commit", "review", "alertBilling", "fail", "complete"} \subseteq PCs
BY DEF PCs, WorkPCs

LEMMA CounterType ==
    ASSUME Core, faults' = faults \/ Fault PROVE faults' \in Nat
BY DEF Core, TypeOK, Fault

LEMMA InspectCore ==
    ASSUME Core, NEW w \in Workers, Inspect(w) \/ InspectFails(w) PROVE Core'
<1>1. PICK pc \in {"review", "commit", "protecting"} : Goto(w, pc)
  BY DEF Inspect, InspectFails
<1>2. /\ wk[w].pc = "inspect" /\ (faults' = faults \/ Fault)
      /\ UNCHANGED <<now, usersVars, awardVars, queueVars, pay, net>>
  BY DEF Inspect, InspectFails, InTime, At
<1>3. pay' \in [Refs -> Payment] /\ pc \in PCs
  BY <1>2, ProviderPCs DEF Core, TypeOK
<1>4. QED BY <1>1, <1>2, <1>3, CounterType, ControlCore DEF ProtectPCs

LEMMA PauseReadCore ==
    ASSUME Core, NEW w \in Workers, PauseRead(w) \/ PauseReadFails(w) PROVE Core'
<1>1. PICK pc \in {"put", "commit", "pauseError"} : Goto(w, pc)
  BY DEF PauseRead, PauseReadFails
<1>2. /\ wk[w].pc = "pauseRead" /\ (faults' = faults \/ Fault)
      /\ UNCHANGED <<now, usersVars, awardVars, queueVars, pay, net>>
  BY DEF PauseRead, PauseReadFails, InTime, At
<1>3. pay' \in [Refs -> Payment] /\ pc \in PCs
  BY <1>2, ProviderPCs DEF Core, TypeOK
<1>4. QED BY <1>1, <1>2, <1>3, CounterType, ControlCore DEF ProtectPCs

LEMMA PausePutCore ==
    ASSUME Core, NEW w \in Workers, PausePut(w) PROVE Core'
<1>1. Goto(w, "verify") /\ wk[w].pc = "put" /\ (faults' = faults \/ Fault)
  BY DEF PausePut, InTime, At
<1>2. UNCHANGED <<now, usersVars, awardVars, queueVars, net>>
  BY DEF PausePut
<1>3. pay' \in [Refs -> Payment]
  <2> DEFINE r == wk[w].ref
  <2>1. /\ wk[w] \in Local /\ wk[w].ref # None /\ wk[w].plan \in Interval
        /\ pay \in [Refs -> Payment]
    BY <1>1 DEF Core, TypeOK, LocalOK, ProtectPCs, SavedPCs
  <2>2. r \in Refs /\ pay[r] \in Payment /\ wk[w].plan.end \in Nat
    BY <2>1 DEF Local, Interval
  <2>3. Paused(pay[r], wk[w].plan.end) \in Payment
    BY <2>2 DEF Paused, Payment, Later
  <2>4. QED BY <2>1, <2>2, <2>3 DEF PausePut
<1>4. QED BY <1>1, <1>2, <1>3, ProviderPCs, CounterType, ControlCore DEF ProtectPCs

LEMMA PauseVerifyCore ==
    ASSUME Core, NEW w \in Workers, PauseVerify(w) PROVE Core'
<1>1. PICK pc \in {"commit", "pauseError"} : Goto(w, pc)
  BY DEF PauseVerify
<1>2. /\ wk[w].pc = "verify" /\ (faults' = faults \/ Fault)
      /\ UNCHANGED <<now, usersVars, awardVars, queueVars, pay, net>>
  BY DEF PauseVerify, InTime, At
<1>3. pay' \in [Refs -> Payment] /\ pc \in PCs
  BY <1>2, ProviderPCs DEF Core, TypeOK
<1>4. QED BY <1>1, <1>2, <1>3, CounterType, ControlCore DEF ProtectPCs

\* Moving a billing operation to another state keeps its dates.
LEMMA OpStateFacts ==
    ASSUME Core, NEW a \in Awards, NEW s \in OpStates, op[a] # None,
           op' = [op EXCEPT ![a].state = s], plan' = plan, grant' = grant,
           \A b \in Awards : /\ award'[b].planned = award[b].planned
                             /\ award'[b].confirmed = award[b].confirmed
    PROVE  /\ op' \in [Awards -> Operation \cup {None}]
           /\ op'[a] # None
           /\ Keeps /\ OneInterval' /\ Projected'
<1> DEFINE row == [op[a] EXCEPT !.state = s]
<1>1. op \in [Awards -> Operation \cup {None}] /\ op[a] \in Operation
  BY DEF Core, TypeOK
<1>2. /\ row \in Operation /\ row # None
      /\ row.start = op[a].start /\ row.end = op[a].end
  BY <1>1, OperationType DEF Operation
<1>3. op' = [op EXCEPT ![a] = row]
  BY <1>1
<1> HIDE DEF row
<1>4. op'[a] = row /\ \A b \in Awards : b # a => op'[b] = op[b]
  BY <1>1, <1>3
<1>5. op' \in [Awards -> Operation \cup {None}] /\ Keeps
  BY <1>1, <1>2, <1>3, <1>4 DEF Keeps
<1>6. OneInterval' /\ Projected'
  BY <1>2, <1>4 DEF Core, OneInterval, Projected, SpanOf
<1>7. QED BY <1>2, <1>4, <1>5, <1>6

LEMMA MarkCore ==
    ASSUME Core, NEW w \in Workers, MarkProtecting(w) \/ MarkUncertain(w) PROVE Core'
<1> DEFINE a == wk[w].award
<1>1. PICK pc \in {"pauseRead", "review"}, s \in OpStates :
         /\ Goto(w, pc) /\ op' = [op EXCEPT ![a].state = s]
         /\ pc = "pauseRead" => wk[w].pc = "protecting"
  BY DEF MarkProtecting, MarkUncertain, SetOp, InTime, At, OpStates
<1>2. /\ wk[w].pc \in {"protecting", "pauseError"}
      /\ UNCHANGED <<now, faults, usersVars, award, plan, alert, queueVars, pay, net>>
  BY DEF MarkProtecting, MarkUncertain, InTime, At
<1>3. /\ wk \in [Workers -> Local] /\ a \in Awards /\ wk[w].ref # None /\ op[a] # None
  BY <1>2 DEF Core, TypeOK, LocalOK, ProtectPCs, OpPCs
<1>4. /\ op' \in [Awards -> Operation \cup {None}] /\ op'[a] # None
      /\ Keeps /\ OneInterval' /\ Projected'
  BY <1>1, <1>2, <1>3, OpStateFacts DEF usersVars
<1>5. pc \in PCs /\ wk' \in [Workers -> Local]
  BY <1>1, <1>3, ProviderPCs, GotoFacts
<1>6. TypeOK'
  BY <1>2, <1>4, <1>5 DEF Core, TypeOK, usersVars, queueVars
<1>7. QED BY <1>1, <1>2, <1>3, <1>4, <1>5, <1>6, GotoCore DEF SavedPCs, ProtectPCs

LEMMA WorkerReviewCore ==
    ASSUME Core, NEW w \in Workers, WorkerReview(w) PROVE Core'
<1> DEFINE a == wk[w].award
<1>1. /\ wk[w].pc = "review" /\ Goto(w, "alertBilling")
      /\ award' = [award EXCEPT ![a].state = "needs_review"]
      /\ op' = IF op[a] = None THEN op ELSE [op EXCEPT ![a].state = "needs_review"]
      /\ UNCHANGED <<now, faults, usersVars, plan, alert, queueVars, pay, net>>
  BY DEF WorkerReview, InTime, At
<1>2. TypeOK /\ wk \in [Workers -> Local] /\ a \in Awards
  BY <1>1 DEF Core, TypeOK, LocalOK
<1>3. /\ award' \in [Awards -> AwardRow]
      /\ \A b \in Awards : /\ award'[b].planned = award[b].planned
                           /\ award'[b].confirmed = award[b].confirmed
  <2>1. "needs_review" \in AwardStates
    BY DEF AwardStates
  <2>2. QED BY <1>1, <1>2, <2>1, AwardStateFacts
<1>4. op' \in [Awards -> Operation \cup {None}] /\ Keeps /\ OneInterval' /\ Projected'
  <2>1. CASE op[a] = None
    <3>1. Dates
      BY <1>1, <1>3, <2>1 DEF Dates, usersVars
    <3>2. QED BY <1>2, <3>1, DatesFrame DEF Dates, TypeOK
  <2>2. CASE op[a] # None
    <3>1. "needs_review" \in OpStates
      BY DEF OpStates
    <3>2. QED BY <1>1, <1>2, <1>3, <2>2, <3>1, OpStateFacts DEF usersVars
  <2>3. QED BY <2>1, <2>2
<1>5. /\ wk' \in [Workers -> Local] /\ Others(w)
      /\ wk'[w].pc = "alertBilling" /\ wk'[w].award = wk[w].award
  BY <1>1, <1>2, ProviderPCs, GotoFacts
<1>6. TypeOK'
  BY <1>1, <1>2, <1>3, <1>4, <1>5 DEF TypeOK, usersVars, queueVars
<1>7. QED BY <1>1, <1>4, <1>5, <1>6, BackCore

\* The confirmed dates are the planned ones.
LEMMA ScheduledCore ==
    ASSUME Core, NEW w \in Workers, Scheduled(w) PROVE Core'
<1> DEFINE a == wk[w].award
           required == wk[w].ref # None
           row == [award[a] EXCEPT !.state = "scheduled",
                        !.billing = IF required THEN "protected" ELSE "not_required",
                        !.confirmed = IF award[a].planned # None
                                      THEN award[a].planned ELSE award[a].confirmed]
<1>1. /\ wk[w].pc = "schedule" /\ Return(w, "complete")
      /\ alert' = [alert EXCEPT ![a] = @ \ {"fulfillment"}]
      /\ op' = IF required /\ op[a] # None THEN [op EXCEPT ![a].state = "verified"] ELSE op
      /\ UNCHANGED <<now, faults, usersVars, plan, queueVars, pay, net>>
  BY DEF Scheduled, InTime, At
<1>2. /\ TypeOK /\ wk \in [Workers -> Local] /\ a \in Awards
      /\ award \in [Awards -> AwardRow] /\ award[a] \in AwardRow
  BY <1>1 DEF Core, TypeOK, LocalOK
<1>3. award' = [award EXCEPT ![a] = row]
  BY <1>2 DEF Scheduled
<1>4. /\ row \in AwardRow
      /\ row.planned = award[a].planned
      /\ row.confirmed = award[a].confirmed \/ row.confirmed = award[a].planned
  <2> HIDE DEF a, required
  <2>1. QED BY <1>2 DEF AwardRow, AwardStates, BillingStates
<1>5. award'[a] = row /\ \A b \in Awards : b # a => award'[b] = award[b]
  <2> HIDE DEF row
  <2>1. QED BY <1>2, <1>3
<1>6. award' \in [Awards -> AwardRow] /\ alert' \in [Awards -> SUBSET Categories]
  <2>1. award' \in [Awards -> AwardRow]
    <3> HIDE DEF row, a
    <3>1. QED BY <1>2, <1>3, <1>4
  <2>2. alert' \in [Awards -> SUBSET Categories]
    BY <1>1, <1>2 DEF TypeOK
  <2>3. QED BY <2>1, <2>2
<1>7. /\ op' \in [Awards -> Operation \cup {None}] /\ Keeps
      /\ \A b \in Awards : /\ op[b] # None <=> op'[b] # None
                           /\ op[b] # None => op'[b].start = op[b].start /\ op'[b].end = op[b].end
  <2>0. op \in [Awards -> Operation \cup {None}] /\ plan' = plan
    BY <1>1, <1>2 DEF TypeOK
  <2>1. CASE required /\ op[a] # None
    <3> DEFINE orow == [op[a] EXCEPT !.state = "verified"]
    <3>1. op[a] \in Operation
      BY <1>2, <2>0, <2>1
    <3>2. /\ orow \in Operation /\ orow # None
          /\ orow.start = op[a].start /\ orow.end = op[a].end
      BY <3>1, OperationType DEF Operation, OpStates
    <3>3. op' = [op EXCEPT ![a] = orow]
      BY <1>1, <1>2, <2>0, <2>1
    <3> HIDE DEF orow
    <3>4. op'[a] = orow /\ \A b \in Awards : b # a => op'[b] = op[b]
      BY <1>2, <2>0, <3>3
    <3>5. QED BY <1>2, <2>0, <2>1, <3>2, <3>3, <3>4 DEF Keeps
  <2>2. CASE ~(required /\ op[a] # None)
    BY <1>1, <2>0, <2>2 DEF Keeps
  <2>3. QED BY <2>1, <2>2
<1>8. OneInterval' /\ Projected'
  <2>1. plan' = plan /\ grant' = grant
    BY <1>1 DEF usersVars
  <2>2. \A b \in Awards : /\ award'[b].planned = award[b].planned
                          /\ award'[b].confirmed # None => award'[b].confirmed = award[b].planned
    <3> HIDE DEF row
    <3>1. QED BY <1>4, <1>5 DEF Core, OneInterval
  <2>3. QED BY <1>7, <2>1, <2>2 DEF Core, OneInterval, Projected, SpanOf
<1>9. /\ wk' \in [Workers -> Local] /\ Others(w)
      /\ wk'[w].pc = "complete" /\ wk'[w].award = wk[w].award
  BY <1>1, <1>2, ProviderPCs, ReturnFacts
<1>10. TypeOK'
  BY <1>1, <1>2, <1>6, <1>7, <1>9 DEF TypeOK, usersVars, queueVars
<1>11. QED BY <1>1, <1>7, <1>8, <1>9, <1>10, BackCore

(***************************************************************************)
(* Core is kept by Users.                                                  *)
(***************************************************************************)
\* A replica waits for one request only.
LEMMA OneRequest ==
    ASSUME Core, NEW m \in net, NEW n \in net, m.from # None, n.from = m.from
    PROVE  n = m
<1>1. m \in Request /\ n \in Request
  BY DEF Core, TypeOK
<1>2. m.award = n.award /\ m.span = n.span /\ WaitPC(m) = WaitPC(n)
  BY DEF Core, Messages
<1>3. m.kind = n.kind
  BY <1>1, <1>2 DEF WaitPC, Request
<1>4. QED BY <1>1, <1>2, <1>3 DEF Request

LEMMA ReplyCore ==
    ASSUME Core, NEW m \in net, NEW ok, NEW pc \in {"inspect", "commit", "schedule"},
           Reply(m, ok, pc),
           pc = "inspect" => m.from # None /\ wk[m.from].ref # None,
           grant' \in [Awards -> GrantRow], OneInterval',
           UNCHANGED <<now, account, awardVars, queueVars, pay>>
    PROVE  Core'
<1>1. m \in Request /\ net' = net \ {m} /\ wk \in [Workers -> Local] /\ faults \in Nat
  BY DEF Core, TypeOK, Reply
<1>2. Keeps /\ Projected'
  BY DEF Core, Keeps, Projected, awardVars
<1>3. CASE m.from = None
  <2>1. wk' = wk /\ faults' = faults
    BY <1>3 DEF Reply
  <2>2. TypeOK'
    BY <1>1, <2>1 DEF Core, TypeOK, awardVars, queueVars
  <2>3. \A v \in Workers : LocalOK(v)'
    BY <1>2, <2>1, LocalFrame DEF Core
  <2>4. Messages'
    BY <1>1, <2>1 DEF Core, Messages, WaitPC, awardVars
  <2>5. QED BY <1>2, <2>2, <2>3, <2>4 DEF Core
<1>4. CASE m.from # None
  <2> DEFINE w == m.from
  <2>1. /\ w \in Workers /\ wk[w].award = m.award /\ m.award \in Awards
        /\ wk[w].pc \in {"prepareWait", "commitWait"}
    BY <1>1, <1>4 DEF Core, Messages, WaitPC, Request
  <2>2. /\ wk[w].plan \in Interval /\ wk[w].plan = plan[m.award]
        /\ wk[w].ref # None => op[m.award] # None
    BY <2>1 DEF Core, LocalOK, SavedPCs, OpPCs
  <2>3. faults' \in Nat
    BY <1>1, <1>4 DEF Reply, Fault
  <2>4. /\ wk' \in [Workers -> Local] /\ Others(w) /\ LocalOK(w)'
    <3>1. CASE Goto(w, pc)
      <4>1. pc \in PCs
        BY DEF PCs, WorkPCs
      <4>2. /\ wk' \in [Workers -> Local] /\ Others(w) /\ wk'[w].pc = pc
            /\ wk'[w].award = wk[w].award
            /\ wk'[w].plan = wk[w].plan /\ wk'[w].ref = wk[w].ref
        <5> HIDE DEF w
        <5>1. QED BY <1>1, <2>1, <3>1, <4>1, GotoFacts
      <4>3. plan' = plan /\ op' = op
        BY DEF awardVars
      <4>4. pc = "inspect" => wk[w].ref # None
        OBVIOUS
      <4>5. LocalOK(w)'
        <5> HIDE DEF w
        <5>1. QED BY <2>1, <2>2, <4>2, <4>3, <4>4 DEF LocalOK, SavedPCs, OpPCs, ProtectPCs
      <4>6. QED BY <4>2, <4>5
    <3>2. CASE Return(w, "fail")
      <4> HIDE DEF w
      <4>1. /\ wk' \in [Workers -> Local] /\ Others(w)
            /\ wk'[w].pc = "fail" /\ wk'[w].award = wk[w].award
        BY <1>1, <2>1, <3>2, ProviderPCs, ReturnFacts
      <4>2. QED BY <2>1, <4>1, LocalReturned
    <3>3. QED BY <1>4, <3>1, <3>2 DEF Reply
  <2>5. TypeOK'
    BY <1>1, <2>3, <2>4 DEF Core, TypeOK, awardVars, queueVars
  <2>6. \A v \in Workers : LocalOK(v)'
    <3> HIDE DEF w
    <3>1. QED BY <1>2, <2>1, <2>4, LocalAll
  <2>7. Messages'
    <3> SUFFICES ASSUME NEW n \in net, n # m
                 PROVE  /\ n.span = plan[n.award]
                        /\ n.from # None => /\ wk'[n.from].award = n.award
                                            /\ wk'[n.from].pc = WaitPC(n)
      BY <1>1 DEF Messages, WaitPC, awardVars
    <3>1. n \in Request /\ n.from # w
      BY <1>4, OneRequest DEF Core, TypeOK
    <3>2. n.from # None => wk'[n.from] = wk[n.from]
      BY <2>4, <3>1 DEF Others, Request
    <3>3. QED BY <3>2 DEF Core, Messages
  <2>8. QED BY <1>2, <2>5, <2>6, <2>7 DEF Core
<1>5. QED BY <1>3, <1>4

\* The grant of an award is created with the stored plan and keeps it.
LEMMA GrantStateFacts ==
    ASSUME Core, NEW a \in Awards, NEW s \in GrantStates \ {"none"},
           grant[a].state # "none", grant' = [grant EXCEPT ![a].state = s],
           UNCHANGED awardVars
    PROVE  grant' \in [Awards -> GrantRow] /\ OneInterval'
<1>1. grant \in [Awards -> GrantRow]
  BY DEF Core, TypeOK
<1>2. grant' \in [Awards -> GrantRow]
  BY <1>1 DEF GrantRow
<1>3. \A b \in Awards : /\ grant'[b].span = grant[b].span
                        /\ grant'[b].state # "none" <=> grant[b].state # "none"
  BY <1>1 DEF GrantRow
<1>4. QED BY <1>2, <1>3 DEF Core, OneInterval, awardVars, SpanOf

LEMMA PreparePremiumGrantCore ==
    ASSUME Core, NEW m \in net, PreparePremiumGrant(m) PROVE Core'
<1> DEFINE a == m.award
           pc == AfterPrepare(m)
<1>1. /\ m \in Request /\ m.span = plan[a] /\ m.span \in Interval /\ a \in Awards
      /\ plan[a] # None
      /\ UNCHANGED <<now, account, awardVars, queueVars, pay>>
  BY IntervalType DEF Core, TypeOK, Messages, PreparePremiumGrant, Request
<1>2. /\ pc \in {"inspect", "commit", "schedule"}
      /\ pc = "inspect" => m.from # None /\ wk[m.from].ref # None
  BY DEF AfterPrepare
<1>3. PICK ok : Reply(m, ok, pc)
  BY DEF PreparePremiumGrant
<1>4. grant' \in [Awards -> GrantRow] /\ OneInterval'
  <2>0. grant \in [Awards -> GrantRow]
    BY DEF Core, TypeOK
  <2>1. CASE grant' = grant
    <3>1. OneInterval'
      BY <1>1, <2>1 DEF Core, OneInterval, awardVars, SpanOf
    <3>2. QED BY <2>0, <2>1, <3>1
  <2>2. CASE grant' = [grant EXCEPT ![a] = [state |-> "prepared", span |-> m.span]]
    <3> DEFINE row == [state |-> "prepared", span |-> m.span]
    <3>1. row \in GrantRow /\ row.span = plan[a]
      BY <1>1 DEF GrantRow, GrantStates
    <3> HIDE DEF row, a
    <3>2. grant' = [grant EXCEPT ![a] = row]
      BY <2>2 DEF row
    <3>3. grant'[a] = row /\ \A b \in Awards : b # a => grant'[b] = grant[b]
      BY <1>1, <2>0, <3>2
    <3>4. grant' \in [Awards -> GrantRow]
      BY <2>0, <3>1, <3>2
    <3>5. OneInterval'
      BY <1>1, <3>1, <3>3 DEF Core, OneInterval, awardVars, SpanOf
    <3>6. QED BY <3>4, <3>5
  <2>3. QED BY <2>1, <2>2 DEF PreparePremiumGrant
<1> HIDE DEF pc
<1>5. QED BY <1>1, <1>2, <1>3, <1>4, ReplyCore

LEMMA CommitPremiumGrantCore ==
    ASSUME Core, NEW m \in net, CommitPremiumGrant(m) PROVE Core'
<1> DEFINE a == m.award
<1>1. /\ a \in Awards /\ Reply(m, Live(a), "schedule")
      /\ UNCHANGED <<now, account, awardVars, queueVars, pay>>
  BY DEF Core, TypeOK, CommitPremiumGrant, Request
<1>2. grant' \in [Awards -> GrantRow] /\ OneInterval'
  <2>1. CASE grant[a].state = "prepared"
    <3>1. "committed" \in GrantStates \ {"none"}
      BY DEF GrantStates
    <3>2. QED BY <1>1, <2>1, <3>1, GrantStateFacts DEF CommitPremiumGrant
  <2>2. CASE grant[a].state # "prepared"
    <3>1. grant' = grant
      BY <2>2 DEF CommitPremiumGrant
    <3>2. OneInterval'
      BY <1>1, <3>1 DEF Core, OneInterval, awardVars, SpanOf
    <3>3. QED BY <3>1, <3>2 DEF Core, TypeOK
  <2>3. QED BY <2>1, <2>2
<1>3. QED BY <1>1, <1>2, ReplyCore

(***************************************************************************)
(* Core is kept by failures, timers and the outside world.                 *)
(***************************************************************************)
\* A step that moves no replica and no request.
LEMMA WorldCore ==
    ASSUME Core, OneInterval', Projected', Keeps, TypeOK', wk' = wk, net' = net
    PROVE  Core'
<1>1. \A v \in Workers : LocalOK(v)'
  BY LocalFrame DEF Core
<1>2. Messages'
  <2> SUFFICES ASSUME NEW m \in net PROVE m.span = plan'[m.award]
    BY DEF Core, Messages, WaitPC
  <2>1. m \in Request /\ m.span = plan[m.award]
    BY DEF Core, TypeOK, Messages
  <2>2. QED BY <2>1, IntervalType DEF Keeps, Request
<1>3. QED BY <1>1, <1>2 DEF Core

LEMMA ExpirePremiumGrantCore ==
    ASSUME Core, NEW a \in Awards, ExpirePremiumGrant(a) PROVE Core'
<1>1. "expired" \in GrantStates \ {"none"}
  BY DEF GrantStates
<1>2. grant' \in [Awards -> GrantRow] /\ OneInterval'
  BY <1>1, GrantStateFacts DEF ExpirePremiumGrant
<1>3. TypeOK' /\ Projected' /\ Keeps
  BY <1>2 DEF ExpirePremiumGrant, Core, TypeOK, Projected, Keeps, awardVars, queueVars
<1>4. QED BY <1>2, <1>3, WorldCore DEF ExpirePremiumGrant

\* A replica that stops leaves its requests in flight without a sender.
LEMMA OrphanCore ==
    ASSUME Core, NEW w \in Workers, Others(w), wk' \in [Workers -> Local], LocalOK(w)',
           net' = Orphaned(w), faults' \in Nat,
           UNCHANGED <<now, usersVars, awardVars, queueVars, pay>>
    PROVE  Core'
<1>1. Dates
  BY DEF Dates, usersVars, awardVars
<1>2. TypeOK'
  BY OrphanedType DEF Core, TypeOK, usersVars, awardVars, queueVars
<1>3. Messages'
  <2> SUFFICES ASSUME NEW n \in Orphaned(w)
               PROVE  /\ n.span = plan[n.award]
                      /\ n.from # None => /\ wk'[n.from].award = n.award
                                          /\ wk'[n.from].pc = WaitPC(n)
    BY DEF Messages, WaitPC, awardVars
  <2>1. PICK m \in net : n = IF m.from = w THEN [m EXCEPT !.from = None] ELSE m
    BY DEF Orphaned
  <2>2. m \in Request /\ m.span = plan[m.award]
    BY DEF Core, TypeOK, Messages
  <2>3. CASE m.from = w
    BY <2>1, <2>2, <2>3 DEF Request
  <2>4. CASE m.from # w
    <3>1. m.from # None => wk'[m.from] = wk[m.from]
      BY <2>2, <2>4 DEF Others, Request
    <3>2. QED BY <2>1, <2>2, <2>4, <3>1 DEF Core, Messages
  <2>5. QED BY <2>3, <2>4
<1>4. QED BY <1>1, <1>2, <1>3, DatesFrame, LocalAll DEF Core

LEMMA CrashCore ==
    ASSUME Core, NEW w \in Workers, Crash(w) PROVE Core'
<1>1. wk \in [Workers -> Local] /\ faults' \in Nat
  BY DEF Core, TypeOK, Crash, Fault
<1>2. wk' \in [Workers -> Local] /\ Others(w) /\ wk'[w].pc = "idle"
  BY <1>1, IdleType DEF Crash, Others, Idle
<1>3. QED BY <1>1, <1>2, LocalIdle, OrphanCore DEF Crash

LEMMA StepFailsCore ==
    ASSUME Core, NEW w \in Workers, StepFails(w) PROVE Core'
<1>1. wk \in [Workers -> Local] /\ faults' \in Nat /\ wk[w].award \in Awards
  BY DEF Core, TypeOK, StepFails, Fault, LocalOK, WorkPCs
<1>2. /\ wk' \in [Workers -> Local] /\ Others(w)
      /\ wk'[w].pc = "fail" /\ wk'[w].award = wk[w].award
  BY <1>1, ProviderPCs, ReturnFacts DEF StepFails
<1>3. QED BY <1>1, <1>2, LocalReturned, OrphanCore DEF StepFails

LEMMA SaveStallsCore ==
    ASSUME Core, NEW w \in Workers, SaveStalls(w) PROVE Core'
<1>1. /\ wk \in [Workers -> Local] /\ faults' \in Nat /\ wk[w].award \in Awards
      /\ wk[w].pc = "save" /\ wk[w].plan \in Interval
  BY DEF Core, TypeOK, SaveStalls, Fault, LocalOK, InTime, At
<1>2. /\ wk' \in [Workers -> Local] /\ Others(w) /\ wk'[w].pc = "save"
      /\ wk'[w].award = wk[w].award /\ wk'[w].plan = wk[w].plan
  BY <1>1 DEF SaveStalls, Others, Local
<1>3. Dates
  BY DEF SaveStalls, Dates, usersVars, awardVars
<1>4. TypeOK'
  BY <1>1, <1>2 DEF Core, SaveStalls, TypeOK, usersVars, awardVars, queueVars
<1>5. LocalOK(w)'
  BY <1>1, <1>2 DEF LocalOK, SavedPCs, OpPCs, ProtectPCs
<1>6. net' = net
  BY DEF SaveStalls
<1>7. QED BY <1>1, <1>2, <1>3, <1>4, <1>5, <1>6, DatesFrame, StepCore

LEMMA ReconcileLifecycleCore ==
    ASSUME Core, ReconcileLifecycle PROVE Core'
<1>1. TypeOK
  BY DEF Core
<1>2. Dates
  BY <1>1, LifecycleType DEF ReconcileLifecycle, Dates, usersVars
<1>3. TypeOK'
  BY <1>1, LifecycleType DEF ReconcileLifecycle, TypeOK, usersVars, queueVars
<1>4. QED BY <1>2, <1>3, DatesFrame, WorldCore DEF ReconcileLifecycle

\* Lease expiry, back-off and an administrator's retry change queue rows only.
LEMMA OutboxCore ==
    ASSUME Core, NEW a \in Awards,
           OutboxLeaseExpires(a) \/ BackoffElapses(a) \/ RetryAward(a)
    PROVE  Core'
<1>1. outbox \in [Awards -> OutboxRow]
  BY DEF Core, TypeOK
<1>2. outbox' \in [Awards -> OutboxRow]
  <2>1. CASE OutboxLeaseExpires(a)
    BY <1>1, <2>1 DEF OutboxLeaseExpires, OutboxRow
  <2>2. CASE BackoffElapses(a)
    BY <1>1, <2>2 DEF BackoffElapses, OutboxRow
  <2>3. CASE RetryAward(a)
    BY <1>1, <2>3 DEF RetryAward, OutboxRow, OutboxStates
  <2>4. QED BY <2>1, <2>2, <2>3
<1>3. faults' \in Nat
  BY CounterType DEF OutboxLeaseExpires, BackoffElapses, RetryAward
<1>4. UNCHANGED <<now, usersVars, awardVars, lease, pay, net, wk>>
  BY DEF OutboxLeaseExpires, BackoffElapses, RetryAward
<1>5. Dates
  BY <1>4 DEF Dates, usersVars, awardVars
<1>6. TypeOK'
  BY <1>2, <1>3, <1>4 DEF Core, TypeOK, usersVars, awardVars
<1>7. QED BY <1>4, <1>5, <1>6, DatesFrame, WorldCore

LEMMA UserLeaseExpiresCore ==
    ASSUME Core, NEW u \in Users, UserLeaseExpires(u) PROVE Core'
<1>1. lease' \in [Users -> LeaseRow]
  BY DEF Core, TypeOK, UserLeaseExpires, LeaseRow
<1>2. Dates
  BY DEF UserLeaseExpires, Dates, usersVars, awardVars
<1>3. TypeOK'
  BY <1>1 DEF Core, TypeOK, UserLeaseExpires, usersVars, awardVars
<1>4. QED BY <1>2, <1>3, DatesFrame, WorldCore DEF UserLeaseExpires

LEMMA AccountChangesCore ==
    ASSUME Core, NEW u \in Users, AccountChanges(u) PROVE Core'
<1>1. account' \in [Users -> Account] /\ faults' \in Nat
  BY RowsAssumption, CounterType DEF Core, TypeOK, AccountChanges
<1>2. Dates
  BY DEF AccountChanges, Dates, awardVars
<1>3. TypeOK'
  BY <1>1 DEF Core, TypeOK, AccountChanges, awardVars, queueVars
<1>4. QED BY <1>2, <1>3, DatesFrame, WorldCore DEF AccountChanges

LEMMA TickCore == ASSUME Core, Tick PROVE Core'
<1>1. Dates
  BY DEF Tick, Dates, usersVars, awardVars
<1>2. TypeOK'
  BY DEF Core, TypeOK, Tick, usersVars, awardVars, queueVars
<1>3. QED BY <1>1, <1>2, DatesFrame, WorldCore DEF Tick

LEMMA PaymentCore ==
    ASSUME Core, NEW r \in Refs, CustomerCancels(r) \/ CollectionDue(r) PROVE Core'
<1>1. pay \in [Refs -> Payment] /\ pay[r] \in Payment /\ now + 1 \in Nat
  BY DEF Core, TypeOK
<1>2. pay' \in [Refs -> Payment]
  <2>1. CASE CustomerCancels(r)
    BY <1>1, <2>1 DEF CustomerCancels, Payment
  <2>2. CASE CollectionDue(r)
    <3> DEFINE active == [pay[r] EXCEPT !.status = "Active", !.next = now + 1]
               collected == [pay[r] EXCEPT !.next = now + 1]
    <3>1. active \in Payment /\ collected \in Payment
      BY <1>1 DEF Payment
    <3>2. pay' = [pay EXCEPT ![r] = active] \/ pay' = [pay EXCEPT ![r] = collected]
      BY <1>1, <2>2 DEF CollectionDue
    <3> HIDE DEF active, collected
    <3>3. QED BY <1>1, <3>1, <3>2
  <2>3. QED BY <2>1, <2>2
<1>3. UNCHANGED <<now, usersVars, awardVars, queueVars, net, wk>> /\ faults' \in Nat
  BY CounterType DEF CustomerCancels, CollectionDue
<1>4. Dates
  BY <1>3 DEF Dates, usersVars, awardVars
<1>5. TypeOK'
  BY <1>2, <1>3 DEF Core, TypeOK, usersVars, awardVars, queueVars
<1>6. QED BY <1>3, <1>4, <1>5, DatesFrame, WorldCore

(***************************************************************************)
(* Core is inductive.                                                      *)
(***************************************************************************)
LEMMA StepOfReplicaCore ==
    ASSUME Core, NEW w \in Workers, Step(w) PROVE Core'
<1>1. CASE ReadAward(w) \/ AcquireUserLease(w) \/ Complete(w) \/ FailOutbox(w) \/ RaiseAlert(w)
  BY <1>1, ReadAwardCore, AcquireUserLeaseCore, CompleteCore, FailOutboxCore, RaiseAlertCore
<1>2. CASE PlanAward(w) \/ SaveFulfillmentPlan(w) \/ RecoverFulfillmentPlan(w)
  BY <1>2, PlanAwardCore, SaveFulfillmentPlanCore, RecoverFulfillmentPlanCore
<1>3. CASE PrepareBilling(w) \/ Preparing(w) \/ SendPrepare(w) \/ SendCommit(w)
  BY <1>3, PrepareBillingCore, PreparingCore, SendPrepareCore, SendCommitCore
<1>4. CASE \/ Inspect(w) \/ MarkProtecting(w) \/ PauseRead(w) \/ PausePut(w)
           \/ PauseVerify(w) \/ MarkUncertain(w)
  BY <1>4, InspectCore, MarkCore, PauseReadCore, PausePutCore, PauseVerifyCore
<1>5. CASE WorkerReview(w) \/ Scheduled(w)
  BY <1>5, WorkerReviewCore, ScheduledCore
<1>6. QED BY <1>1, <1>2, <1>3, <1>4, <1>5 DEF Step

LEMMA CoreNext == Core /\ [Next]_vars => Core'
<1> SUFFICES ASSUME Core, [Next]_vars PROVE Core'
  OBVIOUS
<1>1. ASSUME NEW w \in Workers, Step(w) PROVE Core'
  BY <1>1, StepOfReplicaCore
<1>2. ASSUME NEW w \in Workers, NEW a \in Awards, Claim(w, a) PROVE Core'
  BY <1>2, ClaimCore
<1>3. ASSUME NEW w \in Workers,
             Crash(w) \/ StepFails(w) \/ InspectFails(w) \/ PauseReadFails(w) \/ SaveStalls(w)
      PROVE  Core'
  BY <1>3, CrashCore, StepFailsCore, InspectCore, PauseReadCore, SaveStallsCore
<1>4. ASSUME Serve PROVE Core'
  BY <1>4, PreparePremiumGrantCore, CommitPremiumGrantCore DEF Serve
<1>5. ASSUME ReconcileLifecycle \/ Tick PROVE Core'
  BY <1>5, ReconcileLifecycleCore, TickCore
<1>6. ASSUME NEW a \in Awards, \/ ExpirePremiumGrant(a) \/ OutboxLeaseExpires(a)
                               \/ BackoffElapses(a) \/ RetryAward(a)
      PROVE  Core'
  BY <1>6, ExpirePremiumGrantCore, OutboxCore
<1>7. ASSUME NEW u \in Users, UserLeaseExpires(u) \/ AccountChanges(u) PROVE Core'
  BY <1>7, UserLeaseExpiresCore, AccountChangesCore
<1>8. ASSUME NEW r \in Refs, CustomerCancels(r) \/ CollectionDue(r) PROVE Core'
  BY <1>8, PaymentCore
<1>9. ASSUME UNCHANGED vars PROVE Core'
  <2>1. Dates /\ wk' = wk /\ net' = net
    BY <1>9 DEF vars, Dates
  <2>2. TypeOK'
    BY <1>9 DEF vars, Core, TypeOK
  <2>3. QED BY <2>1, <2>2, DatesFrame, WorldCore
<1>10. QED BY <1>1, <1>2, <1>3, <1>4, <1>5, <1>6, <1>7, <1>8, <1>9 DEF Next

\* The inductive invariant holds in every reachable state.
THEOREM CoreInvariant == Spec => []Core
BY CoreInit, CoreNext, PTL DEF Spec

\* Every row, request and local state keeps its type: no award leaves the
\* states of its schema, whatever replicas, webhooks and failures do.
THEOREM TypeCorrect == Spec => []TypeOK
<1>1. Core => TypeOK
  BY DEF Core
<1>2. QED BY <1>1, CoreInvariant, PTL

\* One absolute interval per award in plan, award, billing operation and grant.
THEOREM IntervalUnique == Spec => []OneInterval
<1>1. Core => OneInterval
  BY DEF Core
<1>2. QED BY <1>1, CoreInvariant, PTL

(***************************************************************************)
(* A stored plan is never replaced.  saveFulfillmentPlan is the only       *)
(* writer, and ensurePlanRow hands it the stored row.                      *)
(***************************************************************************)
LEMMA PlanWriters ==
    ASSUME [Next]_vars
    PROVE  plan' = plan \/ \E w \in Workers : SaveFulfillmentPlan(w)
<1> USE DEF awardVars
<1>2. ASSUME NEW w \in Workers, Step(w), ~SaveFulfillmentPlan(w) PROVE plan' = plan
  <2>1. CASE ReadAward(w) \/ AcquireUserLease(w) \/ Complete(w) \/ FailOutbox(w) \/ RaiseAlert(w)
    BY <2>1 DEF ReadAward, AcquireUserLease, Complete, FailOutbox, RaiseAlert
  <2>2. CASE PlanAward(w) \/ RecoverFulfillmentPlan(w) \/ PrepareBilling(w) \/ Preparing(w)
    BY <2>2 DEF PlanAward, RecoverFulfillmentPlan, PrepareBilling, Preparing, NeedsReview
  <2>3. CASE SendPrepare(w) \/ SendCommit(w) \/ WorkerReview(w) \/ Scheduled(w)
    BY <2>3 DEF SendPrepare, SendCommit, WorkerReview, Scheduled
  <2>4. CASE \/ Inspect(w) \/ MarkProtecting(w) \/ PauseRead(w) \/ PausePut(w)
             \/ PauseVerify(w) \/ MarkUncertain(w)
    BY <2>4 DEF Inspect, MarkProtecting, PauseRead, PausePut, PauseVerify, MarkUncertain
  <2>5. QED BY <1>2, <2>1, <2>2, <2>3, <2>4 DEF Step
<1>3. ASSUME NEW w \in Workers, \/ Crash(w) \/ StepFails(w) \/ InspectFails(w)
                                \/ PauseReadFails(w) \/ SaveStalls(w)
                                \/ \E a \in Awards : Claim(w, a)
      PROVE  plan' = plan
  BY <1>3 DEF Crash, StepFails, InspectFails, PauseReadFails, SaveStalls, Claim
<1>4. ASSUME Serve \/ ReconcileLifecycle \/ Tick \/ UNCHANGED vars PROVE plan' = plan
  BY <1>4 DEF Serve, PreparePremiumGrant, CommitPremiumGrant, ReconcileLifecycle, Tick, vars
<1>5. ASSUME NEW a \in Awards, \/ ExpirePremiumGrant(a) \/ OutboxLeaseExpires(a)
                               \/ BackoffElapses(a) \/ RetryAward(a)
      PROVE  plan' = plan
  BY <1>5 DEF ExpirePremiumGrant, OutboxLeaseExpires, BackoffElapses, RetryAward
<1>6. ASSUME NEW u \in Users, UserLeaseExpires(u) \/ AccountChanges(u) PROVE plan' = plan
  BY <1>6 DEF UserLeaseExpires, AccountChanges
<1>7. ASSUME NEW r \in Refs, CustomerCancels(r) \/ CollectionDue(r) PROVE plan' = plan
  BY <1>7 DEF CustomerCancels, CollectionDue
<1>8. QED BY <1>2, <1>3, <1>4, <1>5, <1>6, <1>7 DEF Next

LEMMA PlanSaved ==
    ASSUME NEW w \in Workers, SaveFulfillmentPlan(w)
    PROVE  plan' = plan \/ plan' = [plan EXCEPT ![wk[w].award] = EnsurePlanRow(w)]
BY DEF SaveFulfillmentPlan, ProjectFulfillmentPlan, NeedsReview

LEMMA PlanKept ==
    ASSUME Core, [Next]_vars PROVE \A a \in Awards : plan[a] # None => plan'[a] = plan[a]
<1>1. plan \in [Awards -> Interval \cup {None}]
  BY DEF Core, TypeOK
<1>2. QED BY <1>1, PlanWriters, PlanSaved DEF EnsurePlanRow

\* A retry, on whichever replica and however late, delivers the first stored
\* absolute dates.
THEOREM PlanNeverReplaced == Spec => PlanImmutable
<1>1. Core /\ [Next]_vars => [\A a \in Awards : plan[a] # None => plan'[a] = plan[a]]_vars
  BY PlanKept
<1>2. QED BY <1>1, CoreInvariant, PTL DEF Spec, PlanImmutable

(***************************************************************************)
(* Live grants of one winner are disjoint: the overlap query of            *)
(* prepareGrantTx guards every insertion, and no later step moves a span.  *)
(***************************************************************************)
LEMMA GrantWriters ==
    ASSUME Core, [Next]_vars
    PROVE  \/ grant' = grant
           \/ \E m \in net : PreparePremiumGrant(m) \/ CommitPremiumGrant(m)
           \/ \E a \in Awards : ExpirePremiumGrant(a)
<1> USE DEF usersVars
<1>2. ASSUME NEW w \in Workers, Step(w) PROVE grant' = grant
  <2>1. CASE ReadAward(w) \/ AcquireUserLease(w) \/ Complete(w) \/ FailOutbox(w) \/ RaiseAlert(w)
    BY <2>1 DEF ReadAward, AcquireUserLease, Complete, FailOutbox, RaiseAlert
  <2>2. CASE \/ PlanAward(w) \/ SaveFulfillmentPlan(w) \/ RecoverFulfillmentPlan(w)
             \/ PrepareBilling(w) \/ Preparing(w)
    BY <2>2 DEF PlanAward, SaveFulfillmentPlan, RecoverFulfillmentPlan, PrepareBilling, Preparing
  <2>3. CASE SendPrepare(w) \/ SendCommit(w) \/ WorkerReview(w) \/ Scheduled(w)
    BY <2>3 DEF SendPrepare, SendCommit, WorkerReview, Scheduled
  <2>4. CASE \/ Inspect(w) \/ MarkProtecting(w) \/ PauseRead(w) \/ PausePut(w)
             \/ PauseVerify(w) \/ MarkUncertain(w)
    BY <2>4 DEF Inspect, MarkProtecting, PauseRead, PausePut, PauseVerify, MarkUncertain
  <2>5. QED BY <1>2, <2>1, <2>2, <2>3, <2>4 DEF Step
<1>3. ASSUME NEW w \in Workers, \/ Crash(w) \/ StepFails(w) \/ InspectFails(w)
                                \/ PauseReadFails(w) \/ SaveStalls(w)
                                \/ \E a \in Awards : Claim(w, a)
      PROVE  grant' = grant
  BY <1>3 DEF Crash, StepFails, InspectFails, PauseReadFails, SaveStalls, Claim
<1>4. ASSUME ReconcileLifecycle \/ Tick \/ UNCHANGED vars PROVE grant' = grant
  BY <1>4 DEF ReconcileLifecycle, Tick, vars
<1>5. ASSUME NEW a \in Awards, OutboxLeaseExpires(a) \/ BackoffElapses(a) \/ RetryAward(a)
      PROVE  grant' = grant
  BY <1>5 DEF OutboxLeaseExpires, BackoffElapses, RetryAward
<1>6. ASSUME NEW u \in Users, UserLeaseExpires(u) \/ AccountChanges(u) PROVE grant' = grant
  BY <1>6 DEF UserLeaseExpires, AccountChanges
<1>7. ASSUME NEW r \in Refs, CustomerCancels(r) \/ CollectionDue(r) PROVE grant' = grant
  BY <1>7 DEF CustomerCancels, CollectionDue
<1>8. QED BY <1>2, <1>3, <1>4, <1>5, <1>6, <1>7 DEF Next, Serve

\* The life of a grant: prepared where the overlap query found nothing, then
\* committed, then expired.
LEMMA GrantStep ==
    ASSUME Core, [Next]_vars
    PROVE  \/ grant' = grant
           \/ \E a \in Awards, i \in Interval :
                 /\ grant[a].state = "none" /\ OverlappingGrants(a, i) = {}
                 /\ grant' = [grant EXCEPT ![a] = [state |-> "prepared", span |-> i]]
           \/ \E a \in Awards : /\ grant[a].state = "prepared"
                                /\ grant' = [grant EXCEPT ![a].state = "committed"]
           \/ \E a \in Awards : /\ grant[a].state = "committed" /\ grant[a].span.end <= now
                                /\ grant' = [grant EXCEPT ![a].state = "expired"]
<1>1. \A m \in net : m.award \in Awards /\ m.span \in Interval
  BY DEF Core, TypeOK, Request
<1>2. ASSUME NEW m \in net, PreparePremiumGrant(m)
      PROVE  \/ grant' = grant
             \/ /\ grant[m.award].state = "none" /\ OverlappingGrants(m.award, m.span) = {}
                /\ grant' = [grant EXCEPT ![m.award] = [state |-> "prepared", span |-> m.span]]
  BY <1>2 DEF PreparePremiumGrant
<1>3. ASSUME NEW m \in net, CommitPremiumGrant(m)
      PROVE  \/ grant' = grant
             \/ /\ grant[m.award].state = "prepared"
                /\ grant' = [grant EXCEPT ![m.award].state = "committed"]
  BY <1>3 DEF CommitPremiumGrant
<1>4. ASSUME NEW a \in Awards, ExpirePremiumGrant(a)
      PROVE  /\ grant[a].state = "committed" /\ grant[a].span.end <= now
             /\ grant' = [grant EXCEPT ![a].state = "expired"]
  BY <1>4 DEF ExpirePremiumGrant
<1>5. CASE \E m \in net : PreparePremiumGrant(m)
  BY <1>1, <1>2, <1>5
<1>6. CASE \E m \in net : CommitPremiumGrant(m)
  BY <1>1, <1>3, <1>6
<1>7. CASE \E a \in Awards : ExpirePremiumGrant(a)
  BY <1>4, <1>7
<1>8. QED BY <1>5, <1>6, <1>7, GrantWriters

LEMMA DisjointNext ==
    ASSUME Core, GrantsDisjoint, [Next]_vars PROVE GrantsDisjoint'
<1>0. grant \in [Awards -> GrantRow]
  BY DEF Core, TypeOK
<1>1. CASE grant' = grant
  BY <1>1 DEF GrantsDisjoint, Live
<1>2. ASSUME NEW c \in Awards, NEW i \in Interval, OverlappingGrants(c, i) = {},
             grant' = [grant EXCEPT ![c] = [state |-> "prepared", span |-> i]]
      PROVE  GrantsDisjoint'
  <2>1. grant'[c].span = i /\ \A b \in Awards : b # c => grant'[b] = grant[b]
    BY <1>0, <1>2
  <2>2. \A b \in Awards : b # c /\ UserOf[b] = UserOf[c] /\ Live(b)
                             => ~Overlap(grant[b].span, i)
    BY <1>2 DEF OverlappingGrants
  <2>3. \A b \in Awards : b # c /\ UserOf[b] = UserOf[c] /\ Live(b)
                             => ~Overlap(i, grant[b].span)
    BY <2>2 DEF Overlap
  <2>4. QED BY <2>1, <2>2, <2>3 DEF GrantsDisjoint, Live
<1>3. ASSUME NEW c \in Awards, NEW s \in {"committed", "expired"},
             grant[c].state \in {"prepared", "committed"},
             grant' = [grant EXCEPT ![c].state = s]
      PROVE  GrantsDisjoint'
  <2>1. \A b \in Awards : /\ grant'[b].span = grant[b].span
                          /\ Live(b)' => Live(b)
    BY <1>0, <1>3 DEF Live, GrantRow
  <2>2. QED BY <2>1 DEF GrantsDisjoint
<1>4. QED BY <1>1, <1>2, <1>3, GrantStep

\* However stale the plans the replicas send, two prizes of one winner never
\* run at the same time at Users.
THEOREM PrizesDisjoint == Spec => []GrantsDisjoint
<1>1. Init => GrantsDisjoint
  BY DEF Init, GrantsDisjoint, Live
<1>2. Core /\ GrantsDisjoint /\ [Next]_vars => GrantsDisjoint'
  BY DisjointNext
<1>3. QED BY <1>1, <1>2, CoreInvariant, PTL DEF Spec
==============================================================================
