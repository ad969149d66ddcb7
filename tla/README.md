# Verification of ItsBagelBot

ItsBagelBot is a Twitch and Discord bot built as small services that share a
message bus, MySQL databases (one per data service) and Valkey.  This directory
holds TLA+ modules that model its protocols, the TLC configurations that check
them on small instances, and TLAPS proofs.  `PROJECT.json` links every
definition to the lines it models, every property to its runs, and every hazard
of the code to the properties that watch it.

Run everything from this directory, for example

    tlc -workers 2 -config Lifecycle.cfg MCChannelLifecycle
    tlapm ChannelLifecycleProofs.tla

## 1. Inventory

| Component | State | Operations | What is hard | What makes it correct | Here |
|---|---|---|---|---|---|
| Giveaway fulfilment (`app/db/transactions/giveaway`: `engine.go`, `planning.go`, `billing.go`, `worker.go`) | outbox rows, awards, plans, billing operations, alerts, user leases | dispatch, plan, prepare, protect, commit, schedule, review, lifecycle | two replicas, leases that lapse, crashes between remote calls, unknown outcomes | one absolute interval per award; nothing delivered before it is committed, nothing committed before it is protected; every award delivered or under review | `GiveawayFulfillment` |
| Premium grants (`app/db/users/repository/giveaways.go`) | `premium_grants` | prepare, commit, expire, coverage | late and repeated requests | live grants of a user are disjoint; commit is idempotent | `GiveawayFulfillment` |
| Recurring-payment client (`app/db/transactions/tebex`) | none (the provider's) | read, pause, verify | applied but unconfirmed mutations | a pause in force is never moved; success only after read-back | `GiveawayFulfillment` |
| Account row and its projection (`users.go`, `lifecycle_store.go`, `erasure_ledger.go`; `internal/projection`, `internal/channelruntime`, `app/projector`) | the row with its revision and outbox flag, the view cache of each pod, account events, the admission key (fence) and the settings hash in Valkey | commit, publish, clear, sweep, replay of erasures, fold, restore, gate scripts | four writers of one hash, late and repeated snapshots, deletion and new registration of one identity, publications that die half way | no late write undoes a newer one or a deletion; the projection shows an answer of the revision it names, and in the end the last one | `AccountProjection` |
| Channel lifecycle (`app/db/users/repository/lifecycle_*.go`, `app/twitch/outgress/internal/worker/lifecycle*.go`) | desired state, chat restriction, grant, recovery, incident and retractions of a channel | enable, disable, retry, ban, timeout, unban, grant lost and restored, claim, verify, enrol, finish, degrade | moderation events out of order, recoveries that outlive their reason, workers that die, attempts that run out | the newest fact governs; service only after a recovery that is younger than the last stop; nothing drops out of the sweep | `ChannelLifecycle` |
| Write-behind batcher (`pkg/batch/batcher.go`) | pending map, kick channel, the window being flushed | add, requeue, flush on a tick or when full, close | failed or unanswered flushes against newer values; Close against the last window | the newest value per key is never forgotten; the store only moves forward | `Batcher` |
| Commands data service (`app/db/commands`) | commands table, use receipts, one batcher per replica | edit (buffered), delete, rename, restore, record uses, erase (direct) | direct writes against buffered ones, two replicas, redelivered uses | totals are exact; a window's items all settle | `CommandStore` |
| Read cache (`pkg/cache/keyed.go`) | an entry per key with a fresh and a stale period, the flight loading it | get, load, invalidate | a load that races an invalidation, lost broadcasts, failing sources | staleness is bounded; nobody joins an outdated flight; every call returns | `KeyedCache` |
| Idempotency guard and durable subscriber (`pkg/idempotency`, `pkg/bus/concurrent_subscriber.go`) | claim in Valkey and in each pod's memory; the message at the broker | deliver, look up, claim, handle, release, answer | redelivery next to a running handler, failing store, crashes, lost acknowledgements | at most one run per claim; what is acknowledged was handled; no message is delivered for ever | `GuardedDelivery` |
| Campaigns and draw (`store.go`, `draw.go`) | campaigns, candidates, draws, awards | create, freeze, draw, acknowledge, retry | concurrent freeze and draw, replays | one frozen set, one draw per campaign | the rows it leaves |
| Award email (`engine_email.go`), provider drift (`reconcile.go`) | email ledger; operations and agreements | prepare, deliver, confirm; claim, probe, finish | lost receipts; claims by version next to unversioned writers | one confirmation; a drift is always shown | — |
| Account billing (`billing.go`, `grant_access.go`, `users_admin.go`) | the billing columns of the row | apply event, project access, set status | late and repeated events | the newest event wins | coverage only |
| Rate limits (`pkg/ratelimit`), Discord gateway (`app/discord/ingress`) | leased budgets, shard owners | lease, borrow, resume | split ownership after expiry | the shared limit holds; one owner per shard | — |
| Sesame, loyalty, watch time, Discord engine and outgress, other data services, ingress, gossip, tooling, user interfaces | see `PROJECT.json` | | | | — |

How the giveaway parts interact.  A draw commits awards together with their
`award.fulfill` outbox rows.  Each Transactions replica (`deploy/k8s/transactions.yaml`
runs two) dispatches the oldest ready row: it reads the award, takes the winner's
lease in the database, asks Users for the winner's coverage over the bus, stores
an immutable plan, records a billing operation if the winner subscribes, prepares
the grant at Users, pauses the subscription at the payment provider and reads it
back, commits the grant and marks the award scheduled.  Administrators, webhooks,
customers and the calendar act at any moment.

How the command parts interact.  The dashboard's requests and the bus's messages
reach either replica of Commands (`deploy/k8s/commands.yaml`).  Edits go to the
replica's batcher and answer at once; its goroutine writes a window with one
statement and, when that fails, item by item.  Deletions, renames and restores
write the shared table in the request, the account's erasure and the use counts
in their consumers.  Users buffers preferences in the same batcher.

How the account parts interact.  Users commits every change of a row under a new
revision, reads the row back through its view cache and publishes it.  The
projector folds the event into Valkey, whose admission key every Twitch consumer
reads; a consumer that misses asks Users and writes the answer itself; an outgress
worker writes the lifecycle it was given.  All of them pass the same fence.  The
outgress workers also carry moderation and grant events to Users and bring
channels back.  Events arrive through the durable subscriber behind the guard.

## 2. Modules

### Giveaways

`GiveawayFulfillment` models this whole path.  State and code:

| Variable | Code |
|---|---|
| `outbox` | `giveaway_outbox` row of each award; `owner`, `lapsed` and `ready` stand for `lease_owner`, `lease_until` and `next_attempt_at` |
| `award`, `plan`, `op`, `alert` | `giveaway_awards`, `giveaway_fulfillment_plans`, `billing_operations`, `giveaway_alerts` |
| `lease` | `giveaway_user_leases` |
| `grant`, `account` | `premium_grants` and the billing facts of `PremiumCoverage` at Users |
| `pay` | recurring payments at the provider (external) |
| `net` | prepare and commit requests in flight; `from = None` when the sender gave up |
| `wk` | what a replica keeps between two statements; `pc` names the next one |

There is one action per database statement, transaction or remote call; their
names follow the functions they model.  `Step(w)` lists the path of a replica,
`Serve` the Users side, the rest are failures (`Crash`, `StepFails`,
`InspectFails`, `PauseReadFails`, `SaveStalls`), timers, and the outside world.

Abstractions:

- *Time.* `now` is a calendar in prize units.  Leases (two minutes), the work
  context (ninety seconds) and back-off are shorter than one unit: their ends are
  actions.  `UserLeaseExpires` waits for the work context of the owner to end,
  because the code sets it thirty seconds shorter; the plan transaction, which
  runs on the outer context, may outlive both (`SaveStalls`, `dead`).  The lease
  end is computed before the row lock is waited for; the model assumes this wait
  and clock differences stay below those thirty seconds.
- *Merged statements.* Query and compare-and-set of a claim; the coverage reply
  and the planning done with it; the award and operation updates of a review
  (alerts are separate steps); the read and the writes of `reconcileLifecycle`;
  release, lifecycle and close at the end of a dispatch.  A crash between merged
  statements reaches a state that a crash before them and a lease expiry also reach.
- *Provider.* A pause is applied before its call returns or not at all.
- *Payloads.* Months are consecutive units; `MonthEnd` marks the starts whose
  anniversary the promotional rule refuses.  Identifiers, texts, metrics and email
  rows are left out.  Awards stored before plans existed (a projection without a
  plan row) are not initial states.

`MCGiveawayFulfillment` gives the constants small values.
`GiveawayFulfillmentProofs` holds the theorems that rest on `Core`, and
`GiveawayDeliveryProofs` those that need more.

`PrizePromise` is what all of this promises a winner, without replicas, requests, leases or
retries: an award's dates, its grant, whether its subscription is paused to the end, and the
dates it is shown with.  `PrizeHonoured` (`INSTANCE PrizePromise`) says that the fulfilment
implements it.  Its `Withdraw` is there because a late replica can send a delivered award back
to review (`AwardRegress.cfg`); what was granted stays granted all the same.

### Write-behind

`WriteBehind` is the promise: an accepted write per key is numbered, the store moves
only forward through accepted writes, and never past a newer one.  `Batcher`
implements it (`KeepsPromise` is `INSTANCE WriteBehind`), and `CommandStore` uses
one `Batcher` per replica: `FlushIsCallback` says that each replica, with the
repository's flush as callback, takes only steps of `Batcher`.

| Variable of `Batcher` | Code |
|---|---|
| `pending`, `kick` | `b.pending`, the one-slot `b.kick` |
| `pc`, `taken`, `left` | where `run()` and `Close` stand, the window each has taken, and its items the callback has yet to settle |
| `stored`, `dropped` | what the callback wrote or gave up per key |
| `newest`, `expired`, `failures` | history: the last `Add`, a Close whose context ended, the bound on failures |

| Variable of `CommandStore` | Code |
|---|---|
| `rows`, `receipts` | tables `commands` and `command_use_batches`; a row keeps the number of its edit, `uses`, and whether `created_at` is before the erasure's cutoff |
| `erased` | `data.users.deleted` is on the bus |
| `newest`, `pending`, `pc`, `cur`, `taken`, `left` | the batcher of each replica and where its flush stands |
| `last`, `written`, `dropped`, `base`, `credited` | history |

Abstractions:

- *Values* are the numbers of their writes, so "older" and "newer" are visible.
- *Callbacks* (`Batcher`): a commit of the whole window or of one item, with or
  without an answer; items dropped or requeued; or an error for the whole window.
  This covers the callbacks of commands and preferences.  A statement is not
  applied after its call returned: one that the server still runs when the
  deadline of the flush cancels it is outside the model.
- *Closing.* Services stop their intake before they close the repository and call
  Close once (`defer closeIntake()` in `app/db/commands/main.go`), so `Add` ends when
  Close begins.  A killed pod loses its window, as the code's documentation says; a
  crash is therefore no action.
- *Table* (`CommandStore`): each statement is one step.  `createIfAbsent` is one step, since
  its read and its failed insert both answer "not restored".  `AnswerLost` is a statement of
  `upsertEach` that took effect without an answer; requests whose answer is lost
  leave what the same request without that loss leaves.  Erasure compares
  `created_at` with a cutoff five seconds after the deletion: a row created after
  it may or may not be swept (`CreatedAt`).
- *Left out*: columns an edit owns, the list cache, change events, analytics, the
  start-up backfill, and fetch definitions.  A full window (256 keys) only wakes the goroutine
  earlier, so `kick` is mapped to `FALSE`.

### One account's projection

`AccountProjection` is one Twitch identity, from the commit at Users to the key the
consumers read.  `MCAccountProjection` states its properties.

| Variable | Code |
|---|---|
| `row`, `pending` | the `users` row: creation instant (`inc`), `state_revision`, whether its lifecycle admits work; `lifecycle_projection_pending` |
| `views`, `flights` | the view cache of each pod; loads that read the row and have not stored the view |
| `publishers` | calls of `publishChanged`, `publishLifecycleProjection` and `erase`, at their next step |
| `ledger` | the erasure ledger, a record per registration: none, nothing told (`open`), told, or its hour over with nothing told (`missed`) |
| `bus` | change and deletion events |
| `arriving`, `restored` | snapshots before and after `RestoreAccount`, from events and from owner replies |
| `replies` | lifecycle replies an outgress worker is about to write |
| `fence`, `settings` | the admission key (incarnation, revision, deleted) and the settings hash |
| `registered`, `lifecycleRev`, `admits`, `refilled` | history |

Each Lua script of `pkg/valkey/script_hash_revision_gate.go` and
`pkg/valkey/script_instance_fence.go` is one step, as Valkey runs it.
A script that only reads and refuses is the branch that leaves the hash alone.
The fields of the hash are reduced to the lifecycle and to whether the whole user is
there (`full`); modules and commands have hashes of their own and are left out.
`Register` and `Update` publish without an outbox, `CommitLifecycle` with one, as in the
code.

*Erasure.*  `Delete` records the erasure in the ledger, which lies outside the database, then
runs the transaction (`Erase`) and publishes the event (`PublishDeleted`); a pod may die before
either.  The 15-minute job (`ReplayErasures`) repeats the erasure of every recorded row that
is still there, however old the record (`EraseRestored`), and then tells the erasures of the
last hour whose identity nobody holds (`republishRecent`, `erasureRepublishWindow`).  Four
passes fall into that hour.  `ReplayErasure` is therefore fair for the first telling only, and
`WindowMissed`, a fault, is the hour in which every pass failed, found the row, or stopped
at the failing erasure of another account.  After it, only the TTL of the settings hash (a
day) ends the projection, and the admission key is never told.  How often a record is told
within its hour is left open, and a telling may also come late: that only adds behaviour to
the safety properties.  `Ledger` switches the store off, as the repository allows; the service itself always wires
one (`wireErasure`).  A database restored from a backup,
the other reason for `eraseRestored`, is not modelled.

*Slow readers.*  `refilled` says that since the last lifecycle transition a cache was filled with a
row read before it (`Overtaken`).  `publishChanged` then takes the old view for the new one and
the flag is cleared all the same: this is the case the properties except, see *Known
divergences*.

### One channel's lifecycle

`ChannelLifecycle` is the record of one channel and everybody who changes it.  A
transition at Users is a compare-and-swap that is retried on a conflict, hence one
step; what a worker does between two of its calls is a step of its own.

| Variable | Code |
|---|---|
| `acc` | the lifecycle columns: desired state, runtime state, chat restriction and its deadline, newest moderation and grant event, attempts, `NextAttemptAt` (`due`), incident, retractions |
| `service` | `User.banned` |
| `workers` | `Worker.recoverLifecycle` of each outgress worker: claim, current record, check of the ban, verification, enrolment, answer |
| `observer` | `Worker.observeGrant` between its read and its transition |
| `twitch`, `ends`, `consent` | whether the bot is restricted at Twitch and the owner's authorization is there (external) |
| `bus` | moderation and grant events that are not acknowledged for the last time |
| `lifted`, `handled`, `earned`, `parked` | history |

Abstractions:

- *Generations* are compared for equality only and never come back; the model keeps which
  requests still carry the record's own (`fresh`), and `Bump` makes all of them old.
  Operation ids change with the generation.
- *Moments.* Events happen at distinct, even moments; a worker that asks about the ban
  notes an odd one.  Different events with one time stamp are outside the model, although
  `AmbiguousUnban` is kept where the code has it.
- *Timeouts* end at Twitch by themselves and without an event.
- *The authorization* at Twitch (`consent`) changes with the event that tells of it, while the
  record's `acc.grant` changes when the event is heeded; an event whose record moved on in
  between is acknowledged without effect, and the two disagree from then on.  `Enroll` asks
  Twitch: without the authorization every enrolment is refused (403), whatever the record says.
  Without it the bot's moderation is not heard of either.  That the control subscriptions
  come back only with the next enrolment or repair is left out, and so is the dead token
  found by another call (`setGrantState`), a second source of a lost grant.
- *Grant events* are observed one at a time (`observer`); moderation events of any pod interleave.
  A moderation event that matches no subscription of the channel is dropped by the code before
  it reaches the record, and is not modelled.
- *Revoked chat subscriptions.* Once `Enroll` recorded the new one, events about the old
  one find nothing to revoke and leave the bus.
- *Left out*: dormancy and engagement, repair of the control subscriptions, clean-up,
  seeding from the old registry, delivery of notices, erasure.

### The read cache

`KeyedCache` is one key of `Keyed`, its readers and the repository behind it.

| Variable | Code |
|---|---|
| `entry` | the stored entry: version, ticks until `freshUntil`, ticks until the cache library drops it |
| `group`, `on`, `pc`, `loaded` | `singleflight.Group`, and where each caller of `GetOrLoadTTL` stands |
| `forgetting` | `Invalidate` between `group.Forget` and `client.Delete` |
| `source`, `owed` | committed versions and the broadcasts of them under way (external) |
| `outdated`, `announced`, `slow` | history |

Hits change nothing and are no action.  A version read is the newest committed one; what
makes an answer old is the time between the read and the use.  `slow` records that a load
outlasted a tick, which the staleness bound excludes: `Keyed` itself sets no limit on its loader.

### Guarded delivery

`GuardedDelivery` follows one message through the durable subscriber and the guard.

| Variable | Code |
|---|---|
| `lane` | what the subscriber knows of the lane: `data` lanes (BAGEL_DATA) defer and keep dead letters, `work` lanes (work-queue streams) confirm acknowledgements, `plain` ones do neither |
| `status`, `delivered` | the message at JetStream (external), up to `MaxDeliver` |
| `at`, `pod` | where each delivery stands: `Tiered.Seen` in memory, `ValkeyStore.Seen`, the handler with or without a claim, `Release`, `ack` or `nack`, `terminate` |
| `watched` | deliveries whose `resultWatch` still reports progress and will answer |
| `letter` | the dead letter stream holds the message |
| `claim`, `cached` | the key in Valkey; the pods whose memory has it |
| `succeeded`, `failed`, `deferred`, `unrun`, `lapses`, `faults`, `happened` | history and bounds |

The `SET NX` of the claim is one step.  A failing store comes in two kinds: the key was
not set, or it was and the answer was lost.  `Faults` selects the kinds a run allows.
A handler that outlives the keep-alive (`GiveUp`) is what brings a second delivery next to a
first one that still runs.

- *Deliveries without a run.*  A full queue, a subscription that stops and the unwind of what it
  had queued spend a delivery before the guard sees it (`Deliver`, `Unwind`: fault `unrun`);
  the broker comes back after `AckWait`.
- *Limits.*  A lane with deferral is provisioned with one delivery more than an ordinary failure
  may use: `Limit` is `MaxDeliver - 1` there, and only an error with `RetryAfter` reaches the
  last delivery (`Spent`).  Elsewhere both limits are `MaxDeliver`.
- *Dead letters.*  `Park` publishes the letter before it terminates; TERM follows also when that
  publication failed (fault `letter`), and then nothing holds the message.
- *Age.*  Streams drop messages at their `MaxAge` (`AgesOut`).
- *Confirmed acknowledgements.*  On a work lane an acknowledgement the broker did not confirm
  becomes a refusal (`AckLost`, `unsure`).

In the repository `Guard` wraps the commands of the Discord engine, whose stream is a
`plain` lane with a `MaxAge` of a minute; the other two kinds are what the same subscriber does
on the lanes of the data services and the work queues, so that the guard is checked on all
three.  Marking the last delivery for the handler (`FinalDelivery`) is not modelled: the guarded
handlers do not ask for it.

## 3. Runs

| Run | Instance | Shows |
|---|---|---|
| `fulfill_one` | one award, winner free, subscribed or leaving and free to change, two replicas, calendar to 2, three faults | `TypeOK`, `OneInterval`, `DeliveredIsCommitted`, `NoUnprotectedCommit`, `OneWorkerPerUser`, `PrizeHonoured` |
| `fulfill_two` | two awards (two months, then one) of one subscriber whose paid time may move by two months, two replicas, calendar at its start, two faults | `GrantsDisjoint`, `PauseNotShortened` |
| `fulfill_live` | one award of a free winner, two replicas, two faults, fair | `EventuallyDelivered` |
| `evidence_lost` | one award of a subscriber, two faults | refutes `PauseEvidenceKept` |
| `batcher` | two keys, writes 1 to 3 of each, windows of two, three failures, fair | `TypeOK`, `NewestKept`, `CloseDrains`, `KeepsPromise`, `EverythingSettles` |
| `commands` | two replicas, two names, two batches of uses, totals up to 3, two edits, two direct changes, two failures | `TypeOK`, `UsesExact`, `ReplayCreditsNothing`, `FlushIsCallback` |
| `delete_undone` | one replica, one deletion | refutes `DeleteIsFinal` |
| `cache` | three readers, two versions, one lost broadcast or failed load, fair | `TypeOK`, `JoinableIsCurrent`, `StalenessBounded`, `CallsReturn`, `EventuallyCurrent` |
| `guard` | each kind of lane, two pods, three deliveries, two faults of any kind, three failing runs, fair | `TypeOK`, `RunsAccounted`, `AckedWasHandled`, `EventuallyHandled`, `EventuallySettled` |
| `projection_fenced` | two registrations of one identity, two revisions each, two snapshots being written, no ledger, one fault | `TypeOK`, `RetiredStaysRetired`, `AdmissionOfRevision`, `FenceAdvances` |
| `projection_live` | one registration, two revisions, slow readers, the ledger, two publications at a time, one fault, fair | `ClearedWasPublished`, `EventuallyProjected`, `EventuallyRetired` |
| `lifecycle` | two workers, two events at Twitch, one command, one fault, two attempts, one retraction, fair | `TypeOK`, `NewestFactGoverns`, `ServingIsEarned`, `NeverForgotten`, `EventuallyResumes` |

*Bounds: giveaways.* `MaxFaults` counts crashes, lost calls and replies, stalls, lapses of a
running claim, account changes and cancellations together; three are enough for a
stalled replica, its successor and a second failure of either.  An award is not
claimed once its version reached `MaxVersion`: 3 leaves room for the plan and for a
planning review before it, besides any number of claims in between, for crashes and
reviews by the worker do not move the version.
`MaxNow` lets a one-unit prize begin, end and expire; in `fulfill_two` the calendar
stands still and paid time moves instead, which is what sets the two prizes apart.  Two replicas are what the
deployment runs; more of them only queue for the same lease.  Replicas are
interchangeable, so the safety runs use symmetry; the liveness run does not.

*Bounds: write-behind.* Two keys separate a window from a part of it, and three writes of a
key put one in the store, one in a window and one in the map.  Failures are
counted because each may be repeated for ever.  In `commands` a rename, a
restore or an erasure can follow a deletion, and the two batches together fill the
counter (`MaxCounter` stands for the largest 64-bit total).  `CHECK_DEADLOCK FALSE`:
requests are bounded and the systems come to rest when all are served.

*Bounds: the others.* In `cache` one reader leads an old flight, one a new one, and the third
joins either; two versions make one change that a load can miss.  Ticks never stop, so
the model has no deadlock.  In `guard` three failing runs are as many as the deliveries of any lane, so that
failures, deferrals and a delivery nobody ran can use them up in every mixture; two faults
combine a lapse with a loss.  In
`projection_fenced` a snapshot of the first registration can arrive at any point of the
second; the run leaves out slow readers, which matter only for what is published, and
`projection_live` has them but one registration.  In `lifecycle` two events let a newer
fact overtake an older one or a check; one command is an owner's change of mind during
a recovery; `MaxAttempts` is not smaller than the number of workers, as in the deployment
(three attempts, three outgress pods), so that workers that merely overlap cannot
degrade a channel again and again.  Withdrawing the authorization and restoring it are two
events, so a lost grant that nobody heeded, the enrolments it fails and the recovery after
it are within the bounds; a ban nobody heard of between the two needs a third, which is
within reach with one worker only (`MaxEvents = 3`, three minutes more; it finds nothing).

*Fairness: giveaways and write-behind.* Every replica runs its loop (`Step`, `Claim`), Users serves its
subject, and leases, work contexts and back-off end as the clock advances.  Faults
are never fair and finite in number.  The calendar stays inside the prize: a
committed grant that expires before its award is scheduled cannot be committed
again, and the award then waits for an administrator for ever.  A winner with
billing doubts goes to review by design and is outside this property; so does the
second prize of a subscriber whose pause is already in force (`fulfill_two`).
In the batcher the goroutine is fair (its ticker fires for ever), and so is a
Close under way; calling Close and the end of its context are not.

*Fairness: the others.* In the cache a call under way goes on, time passes and an invalidation
ends; nobody has to call.  JetStream delivers until it is answered, and a delivery takes
its next step; a queue that overflows is a fault and not a habit.  In the projection a
publication and a read under way go on, the 30-second sweep and the erasure job run, events are
handled in the end and views expire; the job tells an erasure once, and not after its hour.
The hash of an account that is gone reaches its TTL, as nobody extends it for ever; that of
a living one need not.  Commits, new reads and reloads are never fair.  In the lifecycle the sweep runs, a call to Twitch ends one way or the other and
time passes; nobody has to act at Twitch or to command.

*Findings.*

1. `evidence_lost`.  A pause that was applied but not confirmed is recorded as
   `uncertain`, then overwritten with `needs_review`, which is not accepted as
   evidence; every later attempt sends the award back to review.
2. `delete_undone`.  `context.md` calls deletions immediate, but a pending edit of the
   same name is flushed afterwards and inserts the row again.  Renames away and
   the erasure of an account (rows flushed after the sweep) meet the same window.

*Known divergences.*  What a reader might expect of the code and what the code does not
promise.  Four configurations that are not among the runs demonstrate them; TLC refutes each.

- `PlansOverlap.cfg` (`PlansDisjoint`, MCGiveawayFulfillment): a plan is stored before any
  grant exists, and coverage counts committed grants only, so after a failure the next
  award of the same winner plans the same months.  `GrantsDisjoint` holds all the same.
- `AwardRegress.cfg` (`NeverUndelivered`): the delivered check precedes the lease and
  `scheduleInTx` does not move the version, so a replica with an old snapshot returns a
  delivered award to `preparing`.
- `EditClobbered.cfg` (`NewestEditWins`, MCCommandStore): a retried window does not clobber
  newer writes of its own batcher; with two replicas the older of two edits may land last.
- A lifecycle transition can be lost to a slow reader (`users.go`, `publishChanged`, and
  `lifecycle_store.go`, `publishCommittedLifecycle`): a view read before the transition and
  stored between `Invalidate` and `Get` is published in its place, and the flag is cleared
  for the revision of the new row.  Nothing repeats the transition then; the next commit or
  the expiry of the hash repairs it.  `ClearedWasPublished` and `EventuallyProjected` say so by
  the exception `refilled`; without it TLC refutes both in `projection_live`.
- `CacheRefilled.cfg` (`InvalidationSticks`, MCKeyedCache): a load that read the source before
  a change stores its value after the invalidation; only the TTL ends that
  (`StalenessBounded`).

Reading the lifecycle for its model showed further corners, which its properties are worded
around.  A grant event whose record was read under a generation that moved on is
acknowledged without effect (`ObserveGrant`); if it was a lost grant, the record stays healthy,
every enrolment is refused and the channel is degraded and probed every hour until a
newer grant event.  `EventuallyResumes` therefore asks of record and Twitch that they agree.
The revocation of the chat subscription that
overtakes its timeout is taken for a ban.  Lifting a service-level ban does not resume
a channel by itself, hence `parked`.  An explicit retry during a confirmed ban ends as a
degraded record that is probed every hour.  Disabling the bot clears the next notice
attempt even while a retraction is pending (outside the model).  A service-level ban has
no outbox flag, so a failed publication is repaired only by the expiry of the hash.

## 4. Proofs

All theorems hold for all values of the constants that satisfy the named assumptions of
their modules: sets of any size, any bounds.

*Giveaways* (`GiveawayFulfillmentProofs`, then `GiveawayDeliveryProofs`).  `Core` is the inductive invariant.  `OneInterval` alone is not
inductive: a replica that prepares a grant uses the plan it holds, so `Core` adds

- `LocalOK`: from the saved plan on, a replica holds the stored plan; while it
  talks to the provider it has a reference and the billing operation exists;
- `Messages`: a request in flight carries the stored plan, and a sender it names
  waits for exactly this request;
- `Projected`: a stored plan is projected on its award (one transaction).

`CoreInit` and one lemma per action give `CoreInvariant`; `TypeCorrect` and
`IntervalUnique` follow.  `PlanNeverReplaced` adds that `ensurePlanRow` returns the
stored row.  `PrizesDisjoint` adds the life of a grant (`GrantStep`): insertions
only where the overlap query is empty, spans never move.  `LeaseExclusive` rests on
`LeaseHeld`: who works owns the live lease of the winner.  `DeliverySound` rests on
`DeliveryOK`: a replica reaches `schedule` only through a successful commit and
closes a row only after that or after reading a delivered award, and granted stays
granted.  `ProtectedBeforeCommit` (`NoUnprotectedCommit`) rests on `ShieldOK`: the property
speaks of the grant and the provider; in between lie the replica that read the pause and
the commit request it sent, which may arrive long after.  `ShieldOK` therefore says that
the highest end a pause ever reached bounds the present one (`PeakReached`), that the
rule of a plan follows from the reference the replica read, that replica and
operation name the same reference and that a replica at its commit has seen the end
reached (`ShieldLocal`), and the same of requests in flight and committed grants.
`PauseOnlyExtended` (`PauseNotShortened`) needs that what `PauseRead` compared is still so at
`PausePut` (`Extends`): nobody comes to `put` another way (`ElsewhereNext`), and who pauses
in between would hold the same user lease (`PauseOwned`).  It assumes that a reference
at work is that of one winner (`OneWinnerPerReference`), as the unique index of the
agreements has it (`ent/schema/tebexagreement.go`).  The end may well move forward: an
award that lost its pause to a crash and finds that of another prize in force puts its
own later end.

`FulfilsPromise` (`PrizeHonoured`) shows that the whole fulfilment implements `PrizePromise`.
Under the refinement mapping (the stored plan, the state of the grant, the awards whose
pause reached their end, the confirmed dates of awards shown as delivered) most steps
stutter, and the others change one variable of the promise: a first saved plan is
`Promise`, the three writes of a grant are `Prepare`, `Commit` and `Expire` (`GrantKept`),
a new operation or a longer pause is `Cover` (`CoverKept`), a rewritten award row is
`Show` or `Withdraw` (`ShowKept`), a lifecycle sweep shows nothing new.  The guards of the
promise are what the earlier theorems give in the state reached: `GrantsDisjoint` that a
prepared prize lies apart, `NoUnprotectedCommit` that a committed one is covered,
`DeliveredIsCommitted` with `OneInterval` that the dates shown are the granted ones.  That a
promise lasts the full prize needs an invariant of its own (`PlansWhole`): a replica may
save long after it planned, and nobody comes to `save` but through `PlanAward`
(`PlannedNext`).  That covering never recedes (`CoveredGrows`) rests on the operations, which
keep their reference and end (`OpsStand`), and on the peak of the provider's pauses.

*Batcher* (`BatcherProofs`).  `NewestKept` is not inductive: a late window could put an old
value over the newest one.  `Inv` adds `OneFlush` (Close flushes only after the goroutine has
ended), `LeftOK` (only a flush under way has items left, and they have values), `Ordered`
(per key: settled writes are at most the one in the window, that one at most the pending
one, that one at most the newest) and `Drained` (a Close that did not expire leaves nothing
pending).  `PromiseKept` shows that each step of `Batcher` under `Inv` is a step of
`WriteBehind` or a stutter.

*Commands* (`CommandStoreProofs`).  The types say that no total leaves its column: a restore sends
one that fits, an edit keeps it, and `RecordUse` has room for what it adds.
`TotalsExact` (`UsesExact`) speaks of a sum over the batches a row received, which the model folds
over a finite set in an arbitrary order.  The proof takes an element out of the sum wherever it
is: that the fold has a value at all, and the same in any order, follows from a smallest
counterexample among the finite subsets (`FiniteSetTheorems`, `WellFoundedInduction`).  With
it `RecordUse` adds exactly the batches a row had not received, and edits, renames and
conflicting inserts carry total and receipts together.
`EditsNeverForgotten` says of each replica and name that the newest edit is pending, in the
window, stored or dropped, and that what is settled is not newer than what is in the
window, that not newer than what is pending, and that not newer than the newest
(`EditKept`).  `KeptInv` is inductive with the numbers of one name at a time (`EditMoves`: a newer
edit, a taken window, a landed, dropped or requeued item).  Unlike `BufferIsBatcher`
it holds for any number of names.
`NeverCreditedTwice` needs that what a row has received it received itself or took over
from the row it was renamed from (`RowsInherit`), and that `RecordUse` alone credits, only a
batch that had no receipt (`CreditStep`).  `BufferIsBatcher` maps each step of a replica's flush to
one of `Batcher` and every other step to a stutter of its buffer (`FlushMaps`, `AddMaps`,
`OthersStutter`); it needs that the statement under way is about an item not settled
(`ItemOpen`) and that buffered edits are not newer than the clock (`Dated`).  It assumes
fewer names than `flushMaxSize` (`FewNames`), as the model has no early wake-up; `Batcher`
has, and `PromiseKept` covers it.

*Read cache* (`KeyedCacheProofs`).  `CacheInv` adds to the types: `InHand` (a flight that stores
has a version in hand), `Committed` (nothing is announced or being forgotten that was not
committed), `Joinable` strengthened by the change that `Invalidate` is at work for (between
`Forget` and `Delete` a flight must already be as new as what is announced next), and `Ages`:
how long a version has been superseded and what is left of the entry that holds it are together
no more than its lifetime, and while no load was slow a version about to be stored is not
superseded for a whole tick.

*Guarded delivery* (`GuardedDeliveryProofs`).  `RunsPaidFor` counts: `ClaimAccounted` says that
runs that succeeded, are under way or have yet to release are at most one more than the
lapses, and at most the lapses while the claim is free, which is the room the next claim
takes (`ActiveMoves`, `Counts`).  `AckedHandled` needs `OneAtATime`: without a lossy fault
only the last delivery is alive, and a claim known anywhere is held by it or belongs to a run
that succeeded.

*Projection* (`AccountProjectionProofs`).  `FenceNeverBack` follows from the types, as each script
compares before it writes.  `AdmissionFollowsTheRow` and `RetiredHasNothing` do not: the writer
has a snapshot that some pod read long ago.  `ProjectionInv` says that every copy of a
snapshot, wherever it is (views, loads, events, writers, replies), is what the row was at
the revision it names and not of a newer incarnation or revision than the row
(`CopiesTruthful`), that deletions are told only of incarnations that are gone
(`DeletionsTruthful`), and the same of fence and settings (`FenceTruthful`,
`SettingsTruthful`).  That there is one snapshot per revision is what lets two scripts of
different scope write in either order.
`ClearedIsToldOrOvertaken` (`ClearedWasPublished`) follows the calls that publish: the flag is cleared by one of
them, which may have been overtaken by commits and by other calls.  `OutboxInv` says that a call
that saw the last lifecycle commit finds nothing older than it in its pod's cache between
`Invalidate` and `Publish`, and that by `Clear` somebody has been told (`Underway`); that
what was told stays on its way or is behind the fence (`Arrived`) needs that
a snapshot past `RestoreAccount` is not ahead of the fence (`RestoredFenced`), and
that only incarnations that are gone are retired (`FenceGone`).

*Lifecycle* (`ChannelLifecycleProofs`).  Types need `Times`: the deadlines stay within
`Horizon`, which holds because each event spends at most one moment and one timeout of it.
`ServiceEarned` and `NothingForgotten` rest on `FreshIsClean` (a recovery that carries the
record's generation began after the last stop; every stop makes all of them old) and
`Sound` (what the two properties ask of the record alone, kept by each transition).
`NewestGoverns` rests on `Governed`: the record's moderation moment bounds every event
handled and everything lifted, the chat is free up to it or restricted by the event of
exactly that moment; `EventsDistinct` and `SeenOdd` keep an event and a check from
sharing a moment.

*Only model-checked.*  Liveness (`EventuallyDelivered`, `EverythingSettles`, `CallsReturn`,
`EventuallyCurrent`, `EventuallyHandled`, `EventuallySettled`, `EventuallyProjected`,
`EventuallyRetired`, `EventuallyResumes`) needs ENABLED, which the prover does not handle.
Every other property of the passing runs is a theorem.  The four configurations under *Known
divergences* and the two `violation` runs are refutations and have no theorem.

## 5. Plan

1. An abstract specification of the account's projection (what a consumer may read after
   which commit) and the refinement of it, as for the fulfilment.
2. Billing events and administrator status as commits of `AccountProjection`: an older event
   never overwrites a newer one, access equals subscription or active grant.
3. The award's email ledger and the draw next to `GiveawayFulfillment`; provider drift with a
   finer `ReconcileLifecycle`, its read and writes apart.
4. Dormancy, notices and erasure next to `ChannelLifecycle`, and the lifecycle's record as
   the row of `AccountProjection`.
5. Leases: rate-limit budgets and the Discord gateway's shards.
6. Change events of Commands and the read models built from them.

## 6. Not modelled

Rendering and transport (mail templates, HTTP encodings, signature checks), the
web and desktop clients, third-party lookups and deployment tooling have no state a
property speaks of.  Generated code makes up most of the lines of the repository: the `ent`
packages of six data services (query builders, mutations, predicates), protocol and client
bindings and test doubles.  Each of their calls is one statement, which appears as one step
of the repository that makes it; mapping the generated lines would say nothing more.  That
is why the map names a small share of the whole and a large share of the files the
inventory lists as modelled.  The components `PROJECT.json` marks `not_modelled` have the
reason there.
