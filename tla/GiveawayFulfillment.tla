------------------------- MODULE GiveawayFulfillment -------------------------
(***************************************************************************)
(* Fulfilment of premium giveaway awards: the outbox dispatcher and the    *)
(* fulfilment worker of Transactions (app/db/transactions/giveaway), the   *)
(* premium grants of Users (app/db/users/repository/giveaways.go) and the  *)
(* recurring-payment client (app/db/transactions/tebex).                   *)
(*                                                                         *)
(* Two or more Transactions replicas run the same loop over one database.  *)
(* Every database statement or transaction and every remote call of a      *)
(* replica is one action, so replicas, crashes, lost replies and webhooks  *)
(* interleave between them.                                                *)
(*                                                                         *)
(* Two time scales are kept apart.  `now' is the calendar on which prize   *)
(* intervals lie.  Leases and back-off last minutes: their expiry is an    *)
(* action of its own, allowed whenever the code's durations allow it.      *)
(***************************************************************************)
EXTENDS Integers, FiniteSets

CONSTANTS
    Awards,      \* award rows created by committed draws
    Users,       \* winners
    Workers,     \* Transactions replicas; each dispatches one row at a time
    Refs,        \* recurring payment references at the provider
    UserOf,      \* award -> winner
    Months,      \* award -> prize length, in calendar units
    CreatedAt,   \* award -> creation order of its outbox row
    MonthEnd,    \* starts whose anniversary would shift into another month
    Accounts,    \* billing facts Users may report: see Account
    None,        \* absent row, reference or owner
    PromotionalGrantsEnabled, IntervalRuleVerified, ProviderMutations,
    MinimumNotice,
    NextPayment, \* reference -> next collection date when the draw commits
    MaxNow, MaxVersion, MaxFaults  \* bounds: calendar, award version, faults

Rules == {"provider-monthly", "promotional-calendar-month"}
Interval == [start : Nat, end : Nat, rule : Rules]
Span == [start : Nat, end : Nat]
Account == [ref : Refs \cup {None}, paid : Nat,
            uncertain : BOOLEAN, cancel : BOOLEAN]

ASSUME RowsAssumption ==
    /\ UserOf \in [Awards -> Users]
    /\ Months \in [Awards -> Nat \ {0}]
    /\ CreatedAt \in [Awards -> Nat]
    /\ MonthEnd \subseteq Nat
    /\ Accounts \subseteq Account

ASSUME ConfigAssumption ==
    /\ PromotionalGrantsEnabled \in BOOLEAN
    /\ IntervalRuleVerified \in BOOLEAN
    /\ ProviderMutations \in BOOLEAN
    /\ MinimumNotice \in Nat
    /\ NextPayment \in [Refs -> Nat]
    /\ MaxNow \in Nat
    /\ MaxVersion \in Nat
    /\ MaxFaults \in Nat

ASSUME NoneAssumption ==
    /\ None \notin Awards
    /\ None \notin Workers
    /\ None \notin Refs
    /\ None \notin Interval
    /\ None \notin Span
    /\ None \notin [ref : Refs, start : Nat, end : Nat,
                    state : {"pending", "protecting", "uncertain",
                             "needs_review", "verified"}]

VARIABLES
    now,      \* calendar
    faults,   \* crashes, lost calls, stalls and account changes so far
    account,  \* Users: billing facts of each winner
    grant,    \* Users: premium_grants row of each award
    outbox,   \* Transactions: award.fulfill row of each award
    award,    \* Transactions: giveaway_awards
    plan,     \* Transactions: immutable fulfilment plan of each award, or None
    op,       \* Transactions: billing operation of each award, or None
    alert,    \* Transactions: categories with an unresolved alert
    lease,    \* Transactions: giveaway_user_leases
    pay,      \* provider: recurring payments
    net,      \* Users requests in flight
    wk        \* local state of the replicas

vars == <<now, faults, account, grant, outbox, award, plan, op, alert, lease,
          pay, net, wk>>
usersVars == <<account, grant>>
awardVars == <<award, plan, op, alert>>
queueVars == <<outbox, lease>>

(***************************************************************************)
(* Rows.                                                                   *)
(***************************************************************************)
AwardStates == {"selected", "preparing", "needs_review",
                "scheduled", "active", "completed"}
Delivered == {"scheduled", "active", "completed"}
BillingStates == {"not_required", "pending", "protected"}
OpStates == {"pending", "protecting", "uncertain", "needs_review", "verified"}
GrantStates == {"none", "prepared", "committed", "expired"}
OutboxStates == {"queued", "processing", "retry", "completed"}
Categories == {"fulfillment", "billing"}

AwardRow == [state : AwardStates, billing : BillingStates, version : Nat,
             planned : Span \cup {None}, confirmed : Span \cup {None}]
Operation == [ref : Refs, start : Nat, end : Nat, state : OpStates]
GrantRow == [state : GrantStates, span : Interval \cup {None}]
OutboxRow == [state : OutboxStates, owner : Workers \cup {None},
              lapsed : BOOLEAN,      \* lease_until is in the past
              ready : BOOLEAN]       \* next_attempt_at is not in the future
LeaseRow == [owner : Workers \cup {None}, live : BOOLEAN]
Payment == [status : {"Active", "Paused"}, until : Nat, next : Nat,
            cancelled : BOOLEAN,
            peak : Nat]  \* latest instant a pause ever reached (history)
Request == [kind : {"prepare", "commit"}, award : Awards, span : Interval,
            from : Workers \cup {None}]

SpanOf(i) == [start |-> i.start, end |-> i.end]
Overlap(i, j) == i.start < j.end /\ i.end > j.start

(***************************************************************************)
(* Replica program counters.  WorkPCs are the steps made under the user    *)
(* lease with the 90 second work context; "save" alone runs on the outer   *)
(* context and may outlive it (`dead').                                    *)
(***************************************************************************)
WorkPCs == {"plan", "save", "billing", "preparing", "prepare", "prepareWait",
            "inspect", "protecting", "pauseRead", "put", "verify", "pauseError",
            "review", "alertReview", "alertBilling", "commit", "commitWait",
            "schedule"}
PCs == WorkPCs \cup {"idle", "read", "lease", "fail", "complete"}

Local == [pc : PCs, award : Awards \cup {None}, version : Nat,
          planned : Span \cup {None}, plan : Interval \cup {None},
          fresh : BOOLEAN, ref : Refs \cup {None}, unsure : BOOLEAN,
          dead : BOOLEAN]
Idle == [pc |-> "idle", award |-> None, version |-> 0, planned |-> None,
         plan |-> None, fresh |-> FALSE, ref |-> None, unsure |-> FALSE,
         dead |-> FALSE]

At(w, pc) == wk[w].pc = pc
InTime(w, pc) == At(w, pc) /\ ~wk[w].dead
Goto(w, pc) == wk' = [wk EXCEPT ![w].pc = pc]
\* A returning handler keeps nothing but the row it must complete or fail.
Return(w, pc) == wk' = [wk EXCEPT ![w] = [Idle EXCEPT !.pc = pc, !.award = wk[w].award]]
Fault == faults < MaxFaults /\ faults' = faults + 1

Init ==
    /\ now = 0
    /\ faults = 0
    /\ account \in [Users -> Accounts]
    /\ grant = [a \in Awards |-> [state |-> "none", span |-> None]]
    /\ outbox = [a \in Awards |-> [state |-> "queued", owner |-> None,
                                   lapsed |-> FALSE, ready |-> TRUE]]
    /\ award = [a \in Awards |-> [state |-> "selected", billing |-> "not_required",
                                  version |-> 1, planned |-> None, confirmed |-> None]]
    /\ plan = [a \in Awards |-> None]
    /\ op = [a \in Awards |-> None]
    /\ alert = [a \in Awards |-> {}]
    /\ lease = [u \in Users |-> [owner |-> None, live |-> FALSE]]
    /\ pay = [r \in Refs |-> [status |-> "Active", until |-> 0, next |-> NextPayment[r],
                               cancelled |-> FALSE, peak |-> 0]]
    /\ net = {}
    /\ wk = [w \in Workers |-> Idle]

(***************************************************************************)
(* DispatchOnce: claim the oldest ready row, read the award, take the      *)
(* per-user lease.                                                         *)
(***************************************************************************)
DueOnlyQueued(a) == outbox[a].ready /\ outbox[a].state \in {"queued", "retry"}
Due(a) == /\ outbox[a].ready
          /\ \/ outbox[a].state \in {"queued", "retry"}
             \/ outbox[a].state = "processing" /\ outbox[a].lapsed

Claim(w, a) ==
    /\ At(w, "idle")
    /\ Due(a)
    /\ \A b \in Awards : Due(b) => CreatedAt[a] <= CreatedAt[b]
    /\ award[a].version < MaxVersion
    /\ outbox' = [outbox EXCEPT ![a] = [state |-> "processing", owner |-> w,
                                        lapsed |-> FALSE, ready |-> TRUE]]
    /\ wk' = [wk EXCEPT ![w] = [Idle EXCEPT !.pc = "read", !.award = a]]
    /\ UNCHANGED <<now, faults, usersVars, awardVars, lease, pay, net>>

\* fulfillmentAward: a delivered award has nothing left to do.  The snapshot
\* is taken before the user lease.
ReadAward(w) ==
    LET a == wk[w].award IN
    /\ At(w, "read")
    /\ \/ /\ award[a].state \in Delivered
          /\ Return(w, "complete")
       \/ /\ award[a].state \notin Delivered
          /\ wk' = [wk EXCEPT ![w].pc = "lease", ![w].version = award[a].version,
                              ![w].planned = award[a].planned]
    /\ UNCHANGED <<now, faults, usersVars, awardVars, queueVars, pay, net>>

LeaseFreeAlways(u) == TRUE
LeaseFree(u) == ~lease[u].live

AcquireUserLease(w) ==
    LET u == UserOf[wk[w].award] IN
    /\ At(w, "lease")
    /\ \/ /\ ~LeaseFree(u)
          /\ Return(w, "fail")
          /\ UNCHANGED lease
       \/ /\ LeaseFree(u)
          /\ lease' = [lease EXCEPT ![u] = [owner |-> w, live |-> TRUE]]
          /\ Goto(w, "plan")
    /\ UNCHANGED <<now, faults, usersVars, awardVars, outbox, pay, net>>

\* The deferred release of the user lease; a no-op for a later owner's lease.
Released(w) ==
    [u \in Users |-> IF lease[u].owner = w THEN [lease[u] EXCEPT !.live = FALSE]
                                           ELSE lease[u]]

\* reconcileLifecycle: scheduled and active awards follow the calendar.
LifecycleStateOfGrant(row) ==
    IF row.state \in {"scheduled", "active"} /\ row.planned # None /\ now >= row.planned.end
    THEN "expired" ELSE row.state
LifecycleState(row) ==
    IF row.state \in {"scheduled", "active"} /\ row.planned # None
    THEN IF now >= row.planned.end THEN "completed"
         ELSE IF now >= row.planned.start THEN "active" ELSE row.state
    ELSE row.state
LifecycleApplied == [a \in Awards |-> [award[a] EXCEPT !.state = LifecycleState(award[a])]]

ReconcileLifecycle ==
    /\ LifecycleApplied # award
    /\ award' = LifecycleApplied
    /\ UNCHANGED <<now, faults, usersVars, plan, op, alert, queueVars, pay, net, wk>>

\* Tail of DispatchOnce: release, reconcileLifecycle, then close the row if it
\* is still this claim's.
Complete(w) ==
    LET a == wk[w].award IN
    /\ At(w, "complete")
    /\ lease' = Released(w)
    /\ award' = LifecycleApplied
    /\ outbox' = IF outbox[a].owner = w
                 THEN [outbox EXCEPT ![a] = [state |-> "completed", owner |-> None,
                                             lapsed |-> FALSE, ready |-> TRUE]]
                 ELSE outbox
    /\ wk' = [wk EXCEPT ![w] = Idle]
    /\ UNCHANGED <<now, faults, usersVars, plan, op, alert, pay, net>>

\* failOutbox: back off if the row is still this claim's.
FailOutbox(w) ==
    LET a == wk[w].award IN
    /\ At(w, "fail")
    /\ lease' = Released(w)
    /\ outbox' = IF outbox[a].owner = w
                 THEN [outbox EXCEPT ![a] = [state |-> "retry", owner |-> None,
                                             lapsed |-> FALSE, ready |-> FALSE]]
                 ELSE outbox
    /\ wk' = [wk EXCEPT ![w] = Idle]
    /\ UNCHANGED <<now, faults, usersVars, awardVars, pay, net>>

(***************************************************************************)
(* Planning.  needsReview rewrites the award from the replica's snapshot,  *)
(* without a version guard; its alert is a second statement.               *)
(***************************************************************************)
NeedsReview(w, version) ==
    /\ award' = [award EXCEPT ![wk[w].award].state = "needs_review",
                              ![wk[w].award].billing = "pending",
                              ![wk[w].award].version = version + 1]
    /\ Goto(w, "alertReview")
    /\ UNCHANGED <<plan, op>>

RaiseAlert(w) ==
    /\ \/ /\ At(w, "alertReview")
          /\ alert' = [alert EXCEPT ![wk[w].award] = @ \cup {"fulfillment"}]
       \/ /\ InTime(w, "alertBilling")
          /\ alert' = [alert EXCEPT ![wk[w].award] = @ \cup {"billing"}]
    /\ Return(w, "fail")
    /\ UNCHANGED <<now, faults, usersVars, award, plan, op, queueVars, pay, net>>

IntervalRuleFor(ref) == IF ref # None THEN "provider-monthly"
                                      ELSE "promotional-calendar-month"
RuleEnabled(ref) == IF ref # None THEN IntervalRuleVerified
                                  ELSE PromotionalGrantsEnabled

\* PremiumCoverage and coverageStart: paid time, then every committed grant
\* that continues it.  The set holds one instant.
CoveringGrants(u) == {a \in Awards : /\ UserOf[a] = u
                                     /\ grant[a].state = "committed"
                                     /\ grant[a].span.end > now}
Later(s, t) == IF s > t THEN s ELSE t
NowOrPaid(u) == Later(now, account[u].paid)
CoverageStart(u) ==
    LET first == NowOrPaid(u)
        ends  == {first} \cup {grant[a].span.end : a \in CoveringGrants(u)}
        \* t continues the coverage if no instant of first .. t - 1 is uncovered
        Reached(t) == \A i \in first .. (t - 1) : \E a \in CoveringGrants(u) :
                          grant[a].span.start <= i /\ i < grant[a].span.end
    IN  {t \in ends : Reached(t) /\ \A s \in ends : s > t => ~Reached(s)}

PrizeInterval(start, months, rule) ==
    [start |-> start, end |-> start + months, rule |-> rule]
PrizeIntervalRefused(start, rule) ==
    rule = "promotional-calendar-month" /\ start \in MonthEnd

\* users.Coverage and planAward: a stored plan is reused as it is, and a new one
\* starts where the coverage read here ends.
PlanRefused(w, rule, start) ==
    LET a == wk[w].award IN
    \/ ~RuleEnabled(account[UserOf[a]].ref)
    \/ /\ plan[a] # None
       /\ \/ plan[a].rule # rule
          \/ wk[w].planned # None /\ wk[w].planned # SpanOf(plan[a])
    \/ /\ plan[a] = None
       /\ wk[w].planned # None \/ PrizeIntervalRefused(start, rule)

PlanAward(w) ==
    LET a    == wk[w].award
        acc  == account[UserOf[a]]
        rule == IntervalRuleFor(acc.ref)
    IN
    /\ InTime(w, "plan")
    /\ \E start \in CoverageStart(UserOf[a]) :
       \/ /\ PlanRefused(w, rule, start)
          /\ NeedsReview(w, wk[w].version)
       \/ /\ ~PlanRefused(w, rule, start)
          /\ wk' = [wk EXCEPT
                ![w].pc = "save",
                ![w].plan = IF plan[a] # None THEN plan[a]
                            ELSE PrizeInterval(start, Months[a], rule),
                ![w].fresh = (plan[a] = None),
                ![w].ref = acc.ref,
                ![w].unsure = (acc.uncertain \/ acc.cancel)]
          /\ UNCHANGED <<award, plan, op>>
    /\ UNCHANGED <<now, faults, usersVars, alert, queueVars, pay, net>>

\* saveFulfillmentPlan: create the plan row or compare with it, and project it
\* on the award row the snapshot came from, in one transaction.
ProjectFulfillmentPlan(w, i) ==
    LET a == wk[w].award IN
    IF award[a].version = wk[w].version
    THEN /\ plan' = [plan EXCEPT ![a] = i]   \* a row just created, or as it was
         /\ award' = [award EXCEPT ![a].planned = SpanOf(i), ![a].state = "preparing",
                                   ![a].billing = "pending", ![a].version = @ + 1]
         /\ wk' = [wk EXCEPT ![w].pc = "billing", ![w].version = @ + 1]
    ELSE Return(w, "fail") /\ UNCHANGED <<award, plan>>

\* ensurePlanRow: the first replica creates the row, later ones read it.
EnsurePlanRow(w) ==
    LET a == wk[w].award IN IF plan[a] = None THEN wk[w].plan ELSE plan[a]

PlanMatchesAny(w) == TRUE
PlanMatches(w) == EnsurePlanRow(w) = wk[w].plan

SaveFulfillmentPlan(w) ==
    /\ At(w, "save")
    /\ \/ /\ PlanMatches(w)
          /\ ProjectFulfillmentPlan(w, EnsurePlanRow(w))
          /\ UNCHANGED op
       \/ /\ ~PlanMatches(w)
          /\ NeedsReview(w, wk[w].version)
    /\ UNCHANGED <<now, faults, usersVars, alert, queueVars, pay, net>>

RecoverFulfillmentPlanUpsert(w) ==
    LET a == wk[w].award IN
    /\ At(w, "save")
    /\ wk[w].fresh
    /\ plan[a] # None
    /\ plan' = [plan EXCEPT ![a] = wk[w].plan]
    /\ wk' = [wk EXCEPT ![w].pc = "billing", ![w].version = award[a].version]
    /\ UNCHANGED <<award, op, now, faults, usersVars, alert, queueVars, pay, net>>

\* recoverFulfillmentPlan: another replica inserted the row between the query
\* and the insert; the award is re-read instead of projected.
RecoverFulfillmentPlan(w) ==
    LET a == wk[w].award IN
    /\ At(w, "save")
    /\ wk[w].fresh
    /\ plan[a] # None
    /\ \/ /\ PlanMatches(w)
          /\ wk' = [wk EXCEPT ![w].pc = "billing", ![w].version = award[a].version]
          /\ UNCHANGED <<award, plan, op>>
       \/ /\ ~PlanMatches(w)
          /\ NeedsReview(w, wk[w].version)
    /\ UNCHANGED <<now, faults, usersVars, alert, queueVars, pay, net>>

(***************************************************************************)
(* Billing operation, grant preparation, provider protection.              *)
(***************************************************************************)
BillingPlanChanged(w) ==
    LET o == op[wk[w].award] IN
    o.start # wk[w].plan.start \/ o.end # wk[w].plan.end \/ o.ref # wk[w].ref

\* prepareBilling and ensureBillingOperation.
PrepareBilling(w) ==
    LET a == wk[w].award
        new == [ref |-> wk[w].ref, start |-> wk[w].plan.start,
                end |-> wk[w].plan.end, state |-> "pending"]
    IN
    /\ InTime(w, "billing")
    /\ \/ /\ wk[w].unsure
          /\ NeedsReview(w, wk[w].version)
       \/ /\ ~wk[w].unsure
          /\ wk[w].ref = None
          /\ Goto(w, "preparing")
          /\ UNCHANGED <<award, plan, op>>
       \/ /\ ~wk[w].unsure
          /\ wk[w].ref # None
          /\ \/ /\ op[a] # None /\ BillingPlanChanged(w)
                /\ NeedsReview(w, wk[w].version)
             \/ /\ op[a] # None /\ ~BillingPlanChanged(w)
                /\ Goto(w, "preparing")
                /\ UNCHANGED <<award, plan, op>>
             \/ /\ op[a] = None
                /\ op' = [op EXCEPT ![a] = new]
                /\ Goto(w, "preparing")
                /\ UNCHANGED <<award, plan>>
    /\ UNCHANGED <<now, faults, usersVars, alert, queueVars, pay, net>>

\* Worker.Fulfill loads the plan and marks the award preparing.
Preparing(w) ==
    /\ InTime(w, "preparing")
    /\ award' = [award EXCEPT ![wk[w].award].state = "preparing"]
    /\ wk' = [wk EXCEPT ![w].pc = "prepare", ![w].plan = plan[wk[w].award]]
    /\ UNCHANGED <<now, faults, usersVars, plan, op, alert, queueVars, pay, net>>

Send(w, kind) ==
    net' = net \cup {[kind |-> kind, award |-> wk[w].award,
                      span |-> wk[w].plan, from |-> w]}

SendPrepare(w) ==
    /\ InTime(w, "prepare")
    /\ Send(w, "prepare")
    /\ Goto(w, "prepareWait")
    /\ UNCHANGED <<now, faults, usersVars, awardVars, queueVars, pay>>

CanProtect(p) == ~p.cancelled
ProtectedThrough(p, until) == CanProtect(p) /\ p.status = "Paused" /\ p.until >= until
EvidenceStates == {"protecting", "uncertain", "verified"}
ProtectionEvidence(w) ==
    LET o == op[wk[w].award] IN
    o # None /\ o.ref = wk[w].ref /\ o.state \in EvidenceStates

\* Worker.protect up to the mutation.  A pause without evidence that this award
\* requested it is ambiguous.
Inspect(w) ==
    LET p == pay[wk[w].ref]
        invalid == ~CanProtect(p) \/ (p.status = "Paused" /\ ~ProtectionEvidence(w))
    IN
    /\ InTime(w, "inspect")
    /\ Goto(w, IF invalid THEN "review"
               ELSE IF ProtectedThrough(p, wk[w].plan.end) THEN "commit"
               ELSE IF ~(ProviderMutations /\ IntervalRuleVerified) THEN "review"
               ELSE "protecting")
    /\ UNCHANGED <<now, faults, usersVars, awardVars, queueVars, pay, net>>

SetOp(a, state) == op' = [op EXCEPT ![a].state = state]

MarkProtecting(w) ==
    /\ InTime(w, "protecting")
    /\ SetOp(wk[w].award, "protecting")
    /\ Goto(w, "pauseRead")
    /\ UNCHANGED <<now, faults, usersVars, award, plan, alert, queueVars, pay, net>>

\* CheckoutClient.PauseRecurring reads, mutates and reads back.
CanPause(p, until) ==
    LET boundary == IF p.status = "Paused" THEN p.until ELSE p.next IN
    CanProtect(p) /\ boundary >= now + MinimumNotice /\ until > boundary

PauseRead(w) ==
    LET p == pay[wk[w].ref] IN
    /\ InTime(w, "pauseRead")
    /\ Goto(w, IF ProtectedThrough(p, wk[w].plan.end) THEN "commit"
               ELSE IF CanPause(p, wk[w].plan.end) THEN "put"
               ELSE "pauseError")
    /\ UNCHANGED <<now, faults, usersVars, awardVars, queueVars, pay, net>>

Paused(p, until) ==
    [p EXCEPT !.status = "Paused", !.until = until, !.peak = Later(p.peak, until)]

\* The provider applies the pause of a live agreement, or the request is lost.
PausePut(w) ==
    LET r == wk[w].ref IN
    /\ InTime(w, "put")
    /\ Goto(w, "verify")
    /\ \/ /\ pay' = IF pay[r].cancelled THEN pay
                    ELSE [pay EXCEPT ![r] = Paused(pay[r], wk[w].plan.end)]
          /\ UNCHANGED faults
       \/ /\ Fault
          /\ UNCHANGED pay
    /\ UNCHANGED <<now, usersVars, awardVars, queueVars, net>>

\* pauseAndVerify: an unreadable or short result is an error, whatever the
\* mutation did.
PauseVerify(w) ==
    /\ InTime(w, "verify")
    /\ \/ /\ Goto(w, IF ProtectedThrough(pay[wk[w].ref], wk[w].plan.end)
                     THEN "commit" ELSE "pauseError")
          /\ UNCHANGED faults
       \/ /\ Fault
          /\ Goto(w, "pauseError")
    /\ UNCHANGED <<now, usersVars, awardVars, queueVars, pay, net>>

\* Protect records the unknown outcome; Worker.review then runs NeedsReview,
\* which also moves the billing operation to needs_review.
MarkUncertain(w) ==
    /\ InTime(w, "pauseError")
    /\ SetOp(wk[w].award, "uncertain")
    /\ Goto(w, "review")
    /\ UNCHANGED <<now, faults, usersVars, award, plan, alert, queueVars, pay, net>>

WorkerReview(w) ==
    LET a == wk[w].award IN
    /\ InTime(w, "review")
    /\ award' = [award EXCEPT ![a].state = "needs_review"]
    /\ op' = IF op[a] = None THEN op ELSE [op EXCEPT ![a].state = "needs_review"]
    /\ Goto(w, "alertBilling")
    /\ UNCHANGED <<now, faults, usersVars, plan, alert, queueVars, pay, net>>

SendCommit(w) ==
    /\ InTime(w, "commit")
    /\ Send(w, "commit")
    /\ Goto(w, "commitWait")
    /\ UNCHANGED <<now, faults, usersVars, awardVars, queueVars, pay>>

\* scheduleInTx: neither checks nor bumps the award version.
Scheduled(w) ==
    LET a == wk[w].award
        required == wk[w].ref # None
    IN
    /\ InTime(w, "schedule")
    /\ award' = [award EXCEPT ![a].state = "scheduled",
                              ![a].billing = IF required THEN "protected" ELSE "not_required",
                              ![a].confirmed = IF award[a].planned # None
                                               THEN award[a].planned ELSE @]
    /\ alert' = [alert EXCEPT ![a] = @ \ {"fulfillment"}]
    /\ op' = IF required /\ op[a] # None THEN [op EXCEPT ![a].state = "verified"] ELSE op
    /\ Return(w, "complete")
    /\ UNCHANGED <<now, faults, usersVars, plan, queueVars, pay, net>>

(***************************************************************************)
(* Users: PreparePremiumGrant and CommitPremiumGrant.  A request may be    *)
(* served after its sender gave up (from = None); a reply may be lost.     *)
(***************************************************************************)
Live(a) == grant[a].state \in {"prepared", "committed"}
OverlappingCommitted(a, i) ==
    {b \in Awards : UserOf[b] = UserOf[a] /\ grant[b].state = "committed"
                                         /\ Overlap(grant[b].span, i)}
OverlappingGrants(a, i) ==
    {b \in Awards : UserOf[b] = UserOf[a] /\ Live(b) /\ Overlap(grant[b].span, i)}
\* The first overlapping row by start decides.
FirstOverlapping(a, i) ==
    {b \in OverlappingGrants(a, i) : \A c \in OverlappingGrants(a, i) :
         grant[b].span.start <= grant[c].span.start}

\* A serving step hands `reply' to the sender that still waits, or the sender
\* sees the call fail.
Reply(m, ok, pc) ==
    /\ net' = net \ {m}
    /\ IF m.from = None THEN UNCHANGED <<wk, faults>>
       ELSE \/ /\ IF ok THEN Goto(m.from, pc) ELSE Return(m.from, "fail")
               /\ UNCHANGED faults
            \/ /\ Fault
               /\ Return(m.from, "fail")

\* What Worker.execute does with a prepared grant.
AfterPrepareSchedules(m) ==
    IF m.from # None /\ wk[m.from].ref # None THEN "inspect" ELSE "schedule"
AfterPrepareCommits(m) == "commit"
AfterPrepare(m) ==
    IF m.from # None /\ wk[m.from].ref # None THEN "inspect" ELSE "commit"

PreparePremiumGrant(m) ==
    LET a == m.award IN
    /\ m \in net /\ m.kind = "prepare"
    /\ \/ /\ OverlappingGrants(a, m.span) = {}
          /\ grant[a].state = "none"
          /\ grant' = [grant EXCEPT ![a] = [state |-> "prepared", span |-> m.span]]
          /\ Reply(m, TRUE, AfterPrepare(m))
       \/ /\ OverlappingGrants(a, m.span) = {}
          /\ grant[a].state # "none"   \* unique (giveaway, award): the stored row
          /\ UNCHANGED grant
          /\ Reply(m, grant[a].span = m.span, AfterPrepare(m))
       \/ \E b \in FirstOverlapping(a, m.span) :
          /\ UNCHANGED grant
          /\ Reply(m, b = a /\ grant[a].span = m.span, AfterPrepare(m))
    /\ UNCHANGED <<now, account, awardVars, queueVars, pay>>

CommitPremiumGrant(m) ==
    LET a == m.award IN
    /\ m \in net /\ m.kind = "commit"
    /\ grant' = IF grant[a].state = "prepared"
                THEN [grant EXCEPT ![a].state = "committed"] ELSE grant
    /\ Reply(m, Live(a), "schedule")
    /\ UNCHANGED <<now, account, awardVars, queueVars, pay>>

\* ExpirePremiumGrants closes a committed grant at its end.
ExpirePremiumGrant(a) ==
    /\ grant[a].state = "committed"
    /\ grant[a].span.end <= now
    /\ grant' = [grant EXCEPT ![a].state = "expired"]
    /\ UNCHANGED <<now, faults, account, awardVars, queueVars, pay, net, wk>>

(***************************************************************************)
(* Failures, timers and the outside world.                                 *)
(***************************************************************************)
Orphaned(w) == {IF m.from = w THEN [m EXCEPT !.from = None] ELSE m : m \in net}

\* The replica dies; its rows stay as they are.
Crash(w) ==
    /\ ~At(w, "idle")
    /\ Fault
    /\ wk' = [wk EXCEPT ![w] = Idle]
    /\ net' = Orphaned(w)
    /\ UNCHANGED <<now, usersVars, awardVars, queueVars, pay>>

\* A statement or call fails, or the work context ends; nothing is written.
\* A request already sent may still be served.
StepFails(w) ==
    /\ wk[w].pc \in WorkPCs \cup {"read", "lease"}
    /\ IF wk[w].dead /\ wk[w].pc \notin {"save", "alertReview"}
       THEN UNCHANGED faults ELSE Fault
    /\ Return(w, "fail")
    /\ net' = Orphaned(w)
    /\ UNCHANGED <<now, usersVars, awardVars, queueVars, pay>>

\* A provider read fails: the worker sends the award to review.
InspectFails(w) ==
    /\ InTime(w, "inspect")
    /\ Fault
    /\ Goto(w, "review")
    /\ UNCHANGED <<now, usersVars, awardVars, queueVars, pay, net>>

PauseReadFails(w) ==
    /\ InTime(w, "pauseRead")
    /\ Fault
    /\ Goto(w, "pauseError")
    /\ UNCHANGED <<now, usersVars, awardVars, queueVars, pay, net>>

\* The plan transaction hangs past the 90 second work context.
SaveStalls(w) ==
    /\ InTime(w, "save")
    /\ Fault
    /\ wk' = [wk EXCEPT ![w].dead = TRUE]
    /\ UNCHANGED <<now, usersVars, awardVars, queueVars, pay, net>>

Holds(w, a) == ~At(w, "idle") /\ wk[w].award = a /\ outbox[a].owner = w

\* Two minutes after the claim; while the claimer still runs, a stall.
OutboxLeaseExpires(a) ==
    /\ outbox[a].state = "processing" /\ ~outbox[a].lapsed
    /\ IF \E w \in Workers : Holds(w, a) THEN Fault ELSE UNCHANGED faults
    /\ outbox' = [outbox EXCEPT ![a].lapsed = TRUE]
    /\ UNCHANGED <<now, usersVars, awardVars, lease, pay, net, wk>>

\* Two minutes after the acquisition, when the 90 second work context that
\* started under it has ended.
Working(w, u) == /\ wk[w].pc \in WorkPCs
                 /\ ~wk[w].dead
                 /\ UserOf[wk[w].award] = u
UserLeaseExpires(u) ==
    /\ lease[u].live
    /\ ~\E w \in Workers : lease[u].owner = w /\ Working(w, u)
    /\ lease' = [lease EXCEPT ![u].live = FALSE]
    /\ UNCHANGED <<now, faults, usersVars, awardVars, outbox, pay, net, wk>>

BackoffElapses(a) ==
    /\ outbox[a].state = "retry" /\ ~outbox[a].ready
    /\ outbox' = [outbox EXCEPT ![a].ready = TRUE]
    /\ UNCHANGED <<now, faults, usersVars, awardVars, lease, pay, net, wk>>

\* RetryAward: an administrator re-queues the row unless its claim is live.
RetryAward(a) ==
    /\ ~(outbox[a].state = "processing" /\ ~outbox[a].lapsed)
    /\ outbox' = [outbox EXCEPT ![a] = [state |-> "queued", owner |-> None,
                                        lapsed |-> FALSE, ready |-> TRUE]]
    /\ UNCHANGED <<now, faults, usersVars, awardVars, lease, pay, net, wk>>

Tick ==
    /\ now < MaxNow
    /\ now' = now + 1
    /\ UNCHANGED <<faults, usersVars, awardVars, queueVars, pay, net, wk>>

\* A billing webhook or an administrator changes what Users reports.
AccountChanges(u) ==
    /\ Fault
    /\ \E acc \in Accounts : account' = [account EXCEPT ![u] = acc]
    /\ UNCHANGED <<now, grant, awardVars, queueVars, pay, net, wk>>

CustomerCancels(r) ==
    /\ ~pay[r].cancelled
    /\ Fault
    /\ pay' = [pay EXCEPT ![r].cancelled = TRUE]
    /\ UNCHANGED <<now, usersVars, awardVars, queueVars, net, wk>>

\* A collection settles, or a pause runs out.
CollectionDue(r) ==
    /\ ~pay[r].cancelled
    /\ \/ /\ pay[r].status = "Active" /\ pay[r].next <= now
          /\ pay' = [pay EXCEPT ![r].next = now + 1]
       \/ /\ pay[r].status = "Paused" /\ pay[r].until <= now
          /\ pay' = [pay EXCEPT ![r].status = "Active", ![r].next = now + 1]
    /\ UNCHANGED <<now, faults, usersVars, awardVars, queueVars, net, wk>>

Step(w) ==
    \/ ReadAward(w) \/ AcquireUserLease(w) \/ PlanAward(w)
    \/ SaveFulfillmentPlan(w) \/ RecoverFulfillmentPlan(w)
    \/ PrepareBilling(w) \/ Preparing(w) \/ SendPrepare(w)
    \/ Inspect(w) \/ MarkProtecting(w) \/ PauseRead(w) \/ PausePut(w)
    \/ PauseVerify(w) \/ MarkUncertain(w) \/ WorkerReview(w) \/ RaiseAlert(w)
    \/ SendCommit(w) \/ Scheduled(w) \/ Complete(w) \/ FailOutbox(w)

Serve == \E m \in net : PreparePremiumGrant(m) \/ CommitPremiumGrant(m)

Next ==
    \/ \E w \in Workers : Step(w) \/ \E a \in Awards : Claim(w, a)
    \/ \E w \in Workers : Crash(w) \/ StepFails(w) \/ InspectFails(w)
                          \/ PauseReadFails(w) \/ SaveStalls(w)
    \/ Serve
    \/ ReconcileLifecycle
    \/ Tick
    \/ \E a \in Awards : ExpirePremiumGrant(a) \/ OutboxLeaseExpires(a)
                         \/ BackoffElapses(a) \/ RetryAward(a)
    \/ \E u \in Users : UserLeaseExpires(u) \/ AccountChanges(u)
    \/ \E r \in Refs : CustomerCancels(r) \/ CollectionDue(r)

Spec == Init /\ [][Next]_vars

\* The dispatch loop runs on every replica, Users serves its subjects, and the
\* wall clock lets leases and back-off run out.
Fairness ==
    /\ \A w \in Workers : WF_vars(Step(w)) /\ WF_vars(\E a \in Awards : Claim(w, a))
    /\ \A w \in Workers : WF_vars(StepFails(w) /\ UNCHANGED faults)
    /\ WF_vars(Serve)
    /\ \A a \in Awards : WF_vars(OutboxLeaseExpires(a)) /\ WF_vars(BackoffElapses(a))
    /\ \A u \in Users : WF_vars(UserLeaseExpires(u))

FairSpec == Spec /\ Fairness

(***************************************************************************)
(* Properties.                                                             *)
(***************************************************************************)
TypeOK ==
    /\ now \in Nat
    /\ faults \in Nat
    /\ account \in [Users -> Account]
    /\ grant \in [Awards -> GrantRow]
    /\ outbox \in [Awards -> OutboxRow]
    /\ award \in [Awards -> AwardRow]
    /\ plan \in [Awards -> Interval \cup {None}]
    /\ op \in [Awards -> Operation \cup {None}]
    /\ alert \in [Awards -> SUBSET Categories]
    /\ lease \in [Users -> LeaseRow]
    /\ pay \in [Refs -> Payment]
    /\ net \subseteq Request
    /\ wk \in [Workers -> Local]

\* Two prizes of one winner never run at the same time: the live grants of a
\* user (prepared or committed) are pairwise disjoint.  PreparePremiumGrant
\* alone keeps this, whatever stale plans the replicas send it.
GrantsDisjoint ==
    \A a, b \in Awards :
        a # b /\ UserOf[a] = UserOf[b] /\ Live(a) /\ Live(b)
            => ~Overlap(grant[a].span, grant[b].span)

\* One absolute interval per award: the award's projection, the billing
\* operation and the Users grant all carry the dates of the stored plan,
\* however many replicas, retries and late requests took part.
OneInterval ==
    \A a \in Awards :
        /\ award[a].planned # None => plan[a] # None /\ award[a].planned = SpanOf(plan[a])
        /\ award[a].confirmed # None => award[a].confirmed = award[a].planned
        /\ op[a] # None => /\ plan[a] # None
                           /\ op[a].start = plan[a].start /\ op[a].end = plan[a].end
        /\ grant[a].state # "none" => plan[a] # None /\ grant[a].span = plan[a]

\* An award is shown as delivered, and its outbox row closed, only when Users
\* holds the committed grant for the confirmed dates.
DeliveredIsCommitted ==
    \A a \in Awards :
        /\ award[a].state \in Delivered \/ outbox[a].state = "completed"
              => grant[a].state \in {"committed", "expired"}
        /\ award[a].state \in Delivered
              => award[a].confirmed # None /\ award[a].confirmed = SpanOf(grant[a].span)

\* An unprotected prize is never committed: a grant planned under the provider
\* rule is committed only after the provider's pause reached the prize end.
NoUnprotectedCommit ==
    \A a \in Awards :
        grant[a].state \in {"committed", "expired"} /\ grant[a].span.rule = "provider-monthly"
            => op[a] # None /\ pay[op[a].ref].peak >= grant[a].span.end

\* At most one replica at a time works on the awards of a user inside its work
\* context, so coverage cannot be planned twice from the same reading.
OneWorkerPerUser ==
    \A v, w \in Workers : \A u \in Users :
        Working(v, u) /\ Working(w, u) => v = w

\* A provider pause in force may be extended for a later prize but is never
\* shortened: what an earlier prize relies on stays, although the end is read
\* some time before it is overwritten.
PauseNotShortened ==
    [][\A r \in Refs : pay[r].status = "Paused" /\ pay'[r].status = "Paused"
                           => pay'[r].until >= pay[r].until]_vars

\* What a winner is promised is kept as the stored plan, the grant of Users, the
\* pauses that reached the prize end and the awards shown as delivered.
GrantedStates == [a \in Awards |-> grant[a].state]
CoveredAwards == {a \in Awards : op[a] # None /\ pay[op[a].ref].peak >= op[a].end}
ShownDates == [a \in Awards |-> IF award[a].state \in Delivered THEN award[a].confirmed
                                ELSE None]

Promised == INSTANCE PrizePromise WITH
    today <- now, prize <- plan, granted <- GrantedStates, covered <- CoveredAwards,
    shown <- ShownDates

\* The fulfilment honours its promise whatever its replicas, retries and late
\* requests do: dates are fixed once and last the full prize, a grant is made
\* for them alone, runs to their end and is committed only once its
\* subscription is protected, and what is shown has been granted.
PrizeHonoured == Promised!Spec

\* A stored plan is never replaced: a retry delivers the first absolute dates.
PlanImmutable ==
    [][\A a \in Awards : plan[a] # None => plan'[a] = plan[a]]_vars

\* Every award of a winner without billing doubts is delivered, without the
\* winner asking for it, through crashes, lost replies, lapsed leases and retries.
EventuallyDelivered == \A a \in Awards : <>(award[a].state \in Delivered)

(***************************************************************************)
(* What the specification of the feature promises and the code does not    *)
(* keep; each is refuted by a run of its own.                              *)
(***************************************************************************)

\* "serialize awards for the account and append each award's full duration
\* once": the planned intervals of one winner never overlap.  The plan is
\* stored before the grant is prepared, and coverage counts committed grants
\* only.
PlansDisjoint ==
    \A a, b \in Awards :
        a # b /\ UserOf[a] = UserOf[b] /\ plan[a] # None /\ plan[b] # None
            => ~Overlap(plan[a], plan[b])

\* A pause this award requested and the provider still holds remains evidence
\* for the retry ("A timeout can mean the provider applied it").
PauseEvidenceKept ==
    \A a \in Awards :
        op[a] # None /\ op[a].state # "pending"
                     /\ ProtectedThrough(pay[op[a].ref], op[a].end)
            => op[a].state \in EvidenceStates

\* "follows the saved intent forward": a delivered award stays delivered.
NeverUndelivered ==
    [][\A a \in Awards : award[a].state \in Delivered
                             => award'[a].state \in Delivered]_vars
=============================================================================
