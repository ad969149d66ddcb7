-------------------------- MODULE AccountProjection --------------------------
(***************************************************************************)
(* How the Users row of one Twitch identity reaches the runtime projection *)
(* every Twitch consumer admits work from.  Users commits under a revision, *)
(* publishes what its view cache holds and clears the row's outbox flag;    *)
(* the projector, the owner fallback and the outgress worker write the      *)
(* settings hash behind the fence of the admission key (incarnation,        *)
(* revision, deleted).  Accounts are deleted and registered again.          *)
(***************************************************************************)
EXTENDS Naturals, FiniteSets

CONSTANTS Pods,            \* Users pods, each with a view cache of its own
          None,
          SlowReaders,     \* a read of the row may still be on its way to the cache
          Ledger,          \* the erasure ledger is configured
          MaxIncarnation,  \* bound: registrations
          MaxRevision,     \* bound: revisions of one incarnation
          MaxFaults,       \* bound: publications that die half way, expiries of a living
                           \* account's hash, events delivered again, windows missed
          MaxPublishers,   \* bound: publications under way when a commit starts
          MaxWriters       \* bound: snapshots being written at a time

ASSUME CountAssumption == /\ MaxIncarnation \in Nat \ {0} /\ MaxRevision \in Nat \ {0}
                          /\ MaxFaults \in Nat /\ MaxPublishers \in Nat \ {0}
                          /\ MaxWriters \in Nat \ {0}
ASSUME SwitchAssumption == SlowReaders \in BOOLEAN /\ Ledger \in BOOLEAN

Incarnations == 1 .. MaxIncarnation
Revisions == 1 .. MaxRevision
\* A snapshot of the row: lc says whether its lifecycle admits work.
Snapshots == [inc : Incarnations, rev : Revisions, lc : BOOLEAN]
Deletions == [deleted : Incarnations]

ASSUME NoneAssumption == None \notin Snapshots

Stages == {"invalidate", "publish", "clear", "erase", "retire"}
\* The ledger's record of an erasure: nothing of it was told yet ("open"), its
\* event was told and is perhaps told again ("told"), or the hour in which it may
\* be told ended before ("missed").
Records == {"none", "open", "told", "missed"}

VARIABLES row, registered,   \* the row, and registrations so far
          pending,           \* lifecycle_projection_pending
          lifecycleRev,      \* revision of its last lifecycle commit (history)
          admits,            \* lc of every revision committed (history)
          ledger,            \* the record of every incarnation's erasure
          views, flights,    \* what each view cache holds; reads not stored yet
          refilled,          \* since the last lifecycle transition, a cache was filled
                             \* with a row read before it (history)
          publishers,        \* publications under way
          bus,               \* account events not handled for the last time
          arriving,          \* snapshots before RestoreAccount
          restored,          \* snapshots past it, before the gate script
          replies,           \* lifecycle replies on their way to SetLifecycle
          fence,             \* the admission key
          settings,          \* the settings hash
          faults

vars == <<row, registered, pending, lifecycleRev, admits, ledger, views, flights,
          refilled, publishers, bus, arriving, restored, replies, fence, settings, faults>>
rowVars == <<row, registered, pending, lifecycleRev, admits, ledger>>
podVars == <<views, flights, refilled, publishers>>
writeVars == <<arriving, restored, replies>>
hashVars == <<fence, settings>>

TypeOK ==
    /\ row \in Snapshots \cup {None} /\ registered \in 0 .. MaxIncarnation
    /\ row # None => row.inc = registered
    /\ pending \in BOOLEAN /\ lifecycleRev \in 0 .. MaxRevision
    /\ admits \in [Incarnations -> [Revisions -> BOOLEAN]]
    /\ ledger \in [Incarnations -> Records]
    /\ views \in [Pods -> Snapshots \cup {None}]
    /\ flights \in [Pods -> Snapshots \cup {None}]
    /\ refilled \in BOOLEAN
    /\ publishers \subseteq [pod : Pods, inc : Incarnations, rev : Revisions,
                             outbox : BOOLEAN, at : Stages]
    /\ bus \subseteq Snapshots \cup Deletions
    /\ arriving \subseteq Snapshots /\ restored \subseteq Snapshots
    /\ replies \subseteq Snapshots
    /\ fence \in [inc : 0 .. MaxIncarnation, rev : 0 .. MaxRevision, deleted : BOOLEAN]
    /\ settings \in [inc : Incarnations, lc : BOOLEAN, full : BOOLEAN]
                    \cup {None}
    /\ faults \in 0 .. MaxFaults

Init ==
    /\ row = None /\ registered = 0 /\ pending = FALSE /\ lifecycleRev = 0
    /\ admits = [i \in Incarnations |-> [r \in Revisions |-> FALSE]]
    /\ ledger = [i \in Incarnations |-> "none"] /\ refilled = FALSE
    /\ views = [p \in Pods |-> None] /\ flights = [p \in Pods |-> None]
    /\ publishers = {} /\ bus = {} /\ arriving = {} /\ restored = {} /\ replies = {}
    /\ fence = [inc |-> 0, rev |-> 0, deleted |-> FALSE] /\ settings = None
    /\ faults = 0

Fault == faults < MaxFaults /\ faults' = faults + 1

-----------------------------------------------------------------------------
(* Commits.  Every one of them is followed by publishChanged on its pod.     *)

Publisher(p, snapshot, outbox, stage) ==
    [pod |-> p, inc |-> snapshot.inc, rev |-> snapshot.rev, outbox |-> outbox, at |-> stage]

Publishable == Cardinality(publishers) < MaxPublishers

Committed(p, snapshot, outbox) ==
    /\ Publishable
    /\ row' = snapshot
    /\ admits' = [admits EXCEPT ![snapshot.inc][snapshot.rev] = snapshot.lc]
    /\ publishers' = publishers \cup {Publisher(p, snapshot, outbox, "invalidate")}
    /\ UNCHANGED <<ledger, views, flights, bus, faults>>
    /\ UNCHANGED writeVars /\ UNCHANGED hashVars

Register(p) ==
    /\ row = None /\ registered < MaxIncarnation
    /\ registered' = registered + 1 /\ pending' = FALSE /\ lifecycleRev' = 0
    /\ UNCHANGED refilled
    /\ Committed(p, [inc |-> registered + 1, rev |-> 1, lc |-> TRUE], FALSE)

\* commitLifecycle: the transition and the outbox flag are one statement.
CommitLifecycle(p, allows) ==
    /\ row # None /\ row.rev < MaxRevision
    /\ pending' = TRUE /\ lifecycleRev' = row.rev + 1 /\ refilled' = FALSE
    /\ UNCHANGED registered
    /\ Committed(p, [row EXCEPT !.rev = @ + 1, !.lc = allows], TRUE)

\* updateAndPublish: any other write of the row; it takes a revision as well.
Update(p) ==
    /\ row # None /\ row.rev < MaxRevision
    /\ UNCHANGED <<registered, pending, lifecycleRev, refilled>>
    /\ Committed(p, [row EXCEPT !.rev = @ + 1], FALSE)

\* recordErasure: PutNew, in a store outside the database.
Recorded(i) ==
    IF Ledger /\ ledger[i] = "none" THEN [ledger EXCEPT ![i] = "open"] ELSE ledger

\* An erasure is of the registration, whatever its revision.
Eraser(p) == Publisher(p, [row EXCEPT !.rev = 1], FALSE, "erase")

\* The ledger comes first; the transaction follows in Erase.
Delete(p) ==
    /\ row # None /\ Publishable /\ ledger' = Recorded(row.inc)
    /\ publishers' = publishers \cup {Eraser(p)}
    /\ UNCHANGED <<row, registered, pending, lifecycleRev, admits>>
    /\ UNCHANGED <<views, flights, refilled, bus, faults>>
    /\ UNCHANGED writeVars /\ UNCHANGED hashVars

-----------------------------------------------------------------------------
(* publishChanged, publishLifecycleProjection and erase                      *)

Advance(w, stage) == publishers' = (publishers \ {w}) \cup {[w EXCEPT !.at = stage]}

\* Variant: the cached view is published as it is.
InvalidateNothing(w) == views

Invalidated(w) == [views EXCEPT ![w.pod] = None]

Invalidate(w) ==
    /\ w.at = "invalidate" /\ Advance(w, "publish") /\ views' = Invalidated(w)
    /\ UNCHANGED <<flights, refilled, bus, faults>>
    /\ UNCHANGED rowVars /\ UNCHANGED writeVars /\ UNCHANGED hashVars

\* Users.Get: the cached view, or the row, which is then cached.
Seen(p) == IF views[p] # None THEN views[p] ELSE row

Publish(w) ==
    /\ w.at = "publish" /\ Seen(w.pod) # None
    /\ views' = [views EXCEPT ![w.pod] = Seen(w.pod)]
    /\ bus' = bus \cup {Seen(w.pod)}
    /\ IF w.outbox THEN Advance(w, "clear") ELSE publishers' = publishers \ {w}
    /\ UNCHANGED <<flights, refilled, faults>>
    /\ UNCHANGED rowVars /\ UNCHANGED writeVars /\ UNCHANGED hashVars

\* The row is gone, or another one: Get or the transaction fails, and so does
\* the call.
FindNothing(w) ==
    /\ \/ w.at = "publish" /\ Seen(w.pod) = None
       \/ w.at = "erase" /\ (row # None => row.inc # w.inc)
    /\ publishers' = publishers \ {w}
    /\ UNCHANGED <<views, flights, refilled, bus, faults>>
    /\ UNCHANGED rowVars /\ UNCHANGED writeVars /\ UNCHANGED hashVars

Cleared(w) ==
    IF row # None /\ row.inc = w.inc /\ row.rev = w.rev THEN FALSE ELSE pending

Clear(w) ==
    /\ w.at = "clear" /\ publishers' = publishers \ {w} /\ pending' = Cleared(w)
    /\ UNCHANGED <<row, registered, lifecycleRev, admits, ledger>>
    /\ UNCHANGED <<views, flights, refilled, bus, faults>>
    /\ UNCHANGED writeVars /\ UNCHANGED hashVars

Erase(w) ==
    /\ w.at = "erase" /\ row # None /\ row.inc = w.inc /\ Advance(w, "retire")
    /\ row' = None /\ pending' = FALSE /\ lifecycleRev' = 0
    /\ UNCHANGED <<registered, admits, ledger, views, flights, refilled, bus, faults>>
    /\ UNCHANGED writeVars /\ UNCHANGED hashVars

PublishDeleted(w) ==
    /\ w.at = "retire" /\ publishers' = publishers \ {w}
    /\ views' = [views EXCEPT ![w.pod] = None]
    /\ bus' = bus \cup {[deleted |-> w.inc]}
    /\ UNCHANGED <<flights, refilled, faults>>
    /\ UNCHANGED rowVars /\ UNCHANGED writeVars /\ UNCHANGED hashVars

\* The process dies, or the database, NATS or the caller's deadline fails it.
Crash(w) ==
    /\ Fault /\ publishers' = publishers \ {w}
    /\ UNCHANGED <<views, flights, refilled, bus>>
    /\ UNCHANGED rowVars /\ UNCHANGED writeVars /\ UNCHANGED hashVars

\* Variant: the sweep looks at due dates only.
NeverDue == FALSE

ProjectionDue == row # None /\ pending

\* lifecycleDue: replayLifecycleProjection publishes what is still pending.
Replay(p) ==
    /\ ProjectionDue /\ Publishable
    /\ \A w \in publishers : w.inc = row.inc /\ w.outbox => w.rev # row.rev
    /\ publishers' = publishers \cup {Publisher(p, row, TRUE, "invalidate")}
    /\ UNCHANGED <<views, flights, refilled, bus, faults>>
    /\ UNCHANGED rowVars /\ UNCHANGED writeVars /\ UNCHANGED hashVars

-----------------------------------------------------------------------------
(* ReplayErasures, every 15 minutes                                          *)

\* eraseRestored: an erasure recorded a minute ago or earlier (erasureSettle)
\* whose row is still there is done again, however old the record.
EraseRestored(p) ==
    /\ row # None /\ ledger[row.inc] # "none" /\ Publishable
    /\ \A w \in publishers : w.at # "erase"
    /\ publishers' = publishers \cup {Eraser(p)}
    /\ UNCHANGED <<views, flights, refilled, bus, faults>>
    /\ UNCHANGED rowVars /\ UNCHANGED writeVars /\ UNCHANGED hashVars

\* Variant: the deletion is told once.
NeverTold(i) == FALSE

\* The job read that nobody holds the identity; somebody may have registered since.
Tellable(i) == ledger[i] \in {"open", "told"} /\ (row # None => row.inc > i)

\* republishRecent.  How often it tells within the hour is left open.
ReplayErasure(i) ==
    /\ Tellable(i) /\ bus' = bus \cup {[deleted |-> i]}
    /\ ledger' = [ledger EXCEPT ![i] = "told"]
    /\ UNCHANGED <<row, registered, pending, lifecycleRev, admits>>
    /\ UNCHANGED podVars /\ UNCHANGED faults
    /\ UNCHANGED writeVars /\ UNCHANGED hashVars

\* erasureRepublishWindow is over and nothing was told: all of the job's four
\* passes in that hour have failed or found the row.
WindowMissed(i) ==
    /\ ledger[i] = "open" /\ Fault /\ ledger' = [ledger EXCEPT ![i] = "missed"]
    /\ UNCHANGED <<row, registered, pending, lifecycleRev, admits, bus>>
    /\ UNCHANGED podVars /\ UNCHANGED writeVars /\ UNCHANGED hashVars

-----------------------------------------------------------------------------
(* Readers of the view cache                                                 *)

\* A load has read the row and has not stored the view yet.
StartLoad(p) ==
    /\ SlowReaders /\ row # None /\ views[p] = None /\ flights[p] = None
    /\ flights' = [flights EXCEPT ![p] = row]
    /\ UNCHANGED <<views, refilled, publishers, bus, faults>>
    /\ UNCHANGED rowVars /\ UNCHANGED writeVars /\ UNCHANGED hashVars

\* Read before the last lifecycle transition, or of another registration.
Overtaken(v) == row # None => v.inc # row.inc \/ v.rev < lifecycleRev

StoreView(p) ==
    /\ flights[p] # None
    /\ views' = [views EXCEPT ![p] = flights[p]] /\ flights' = [flights EXCEPT ![p] = None]
    /\ refilled' = (refilled \/ Overtaken(flights[p]))
    /\ UNCHANGED <<publishers, bus, faults>>
    /\ UNCHANGED rowVars /\ UNCHANGED writeVars /\ UNCHANGED hashVars

ViewExpires(p) ==
    /\ views[p] # None /\ views' = [views EXCEPT ![p] = None]
    /\ UNCHANGED <<flights, refilled, publishers, bus, faults>>
    /\ UNCHANGED rowVars /\ UNCHANGED writeVars /\ UNCHANGED hashVars

-----------------------------------------------------------------------------
(* Snapshots on their way to Valkey                                          *)

\* An event leaves the bus when it was handled, or is delivered again later.
Handled(m, again) ==
    /\ bus' = IF again THEN bus ELSE bus \ {m}
    /\ IF again THEN Fault ELSE UNCHANGED faults

IsDeletion(m) == "deleted" \in DOMAIN m

Writable == Cardinality(arriving) + Cardinality(restored) < MaxWriters

\* HandleUserChanged
FoldChanged(m, again) ==
    /\ ~IsDeletion(m) /\ Writable /\ arriving' = arriving \cup {m} /\ Handled(m, again)
    /\ UNCHANGED <<restored, replies>>
    /\ UNCHANGED rowVars /\ UNCHANGED podVars /\ UNCHANGED hashVars

Missing == settings # None => ~settings.full

\* Client.loadOwner, and the projector's cold reads: a miss asks a Users pod.
LoadOwner(p) ==
    /\ Missing /\ Writable /\ Seen(p) # None
    /\ views' = [views EXCEPT ![p] = Seen(p)] /\ arriving' = arriving \cup {Seen(p)}
    /\ UNCHANGED <<flights, refilled, publishers, bus, restored, replies, faults>>
    /\ UNCHANGED rowVars /\ UNCHANGED hashVars

\* A worker has a lifecycle reply, changed or not, and will apply it.
Reply ==
    /\ row # None /\ replies = {} /\ replies' = {row}
    /\ UNCHANGED <<arriving, restored, bus, faults>>
    /\ UNCHANGED rowVars /\ UNCHANGED podVars /\ UNCHANGED hashVars

Restorable(v) == v.inc > fence.inc \/ (v.inc = fence.inc /\ ~fence.deleted)

\* RestoreAccount: a newer incarnation takes the fence and drops the old hash.
RestoreAccount(v) ==
    /\ v \in arriving /\ arriving' = arriving \ {v}
    /\ restored' = IF Restorable(v) THEN restored \cup {v} ELSE restored
    /\ IF v.inc > fence.inc
       THEN fence' = [inc |-> v.inc, rev |-> 0, deleted |-> FALSE] /\ settings' = None
       ELSE UNCHANGED hashVars
    /\ UNCHANGED <<replies, bus, faults>> /\ UNCHANGED rowVars /\ UNCHANGED podVars

\* Variant: what RestoreAccount allowed is written.
AdmitsAll(v) == TRUE
\* Variant: the gate trusts RestoreAccount with the deletion.
AdmitsDeleted(v) == v.inc = fence.inc /\ v.rev >= fence.rev

Admits(v) == ~fence.deleted /\ v.inc = fence.inc /\ v.rev >= fence.rev

\* hashRevisionGateUser: the whole snapshot.
SetUser(v) ==
    /\ v \in restored /\ restored' = restored \ {v}
    /\ IF Admits(v)
       THEN /\ fence' = [fence EXCEPT !.rev = v.rev]
            /\ settings' = [inc |-> v.inc, lc |-> v.lc, full |-> TRUE]
       ELSE UNCHANGED hashVars
    /\ UNCHANGED <<arriving, replies, bus, faults>> /\ UNCHANGED rowVars /\ UNCHANGED podVars

\* Variant: the lifecycle is written under the revision that was there.
LifecycleUnstamped(v) == [fence EXCEPT !.inc = v.inc]
\* Variant: the gate counts writes instead of taking the revision of the row.
LifecycleCounted(v) == [fence EXCEPT !.inc = v.inc, !.rev = @ + 1]

LifecycleFence(v) == [fence EXCEPT !.inc = v.inc, !.rev = v.rev]

\* hashRevisionGateRuntime: the lifecycle alone; a fresh fence takes the
\* incarnation of the reply.
SetLifecycle(v) ==
    /\ v \in replies /\ replies' = replies \ {v}
    /\ IF ~fence.deleted /\ fence.inc \in {0, v.inc} /\ v.rev >= fence.rev
       THEN /\ fence' = LifecycleFence(v)
            /\ settings' = IF settings = None
                           THEN [inc |-> v.inc, lc |-> v.lc, full |-> FALSE]
                           ELSE [settings EXCEPT !.inc = v.inc, !.lc = v.lc]
       ELSE UNCHANGED hashVars
    /\ UNCHANGED <<arriving, restored, bus, faults>> /\ UNCHANGED rowVars /\ UNCHANGED podVars

\* HandleUserDeleted: DeleteAccount retires the incarnation it names.
FoldDeleted(m, again) ==
    /\ IsDeletion(m) /\ Handled(m, again)
    /\ IF m.deleted >= fence.inc
       THEN /\ fence' = [fence EXCEPT !.inc = m.deleted, !.deleted = TRUE]
            /\ settings' = None
       ELSE UNCHANGED hashVars
    /\ UNCHANGED rowVars /\ UNCHANGED podVars /\ UNCHANGED writeVars

\* The settings hash has a TTL, the admission key has none.  While the account
\* lives its writers keep extending it.
SettingsExpire ==
    /\ settings # None /\ settings' = None
    /\ IF row = None THEN UNCHANGED faults ELSE Fault
    /\ UNCHANGED <<fence, bus>>
    /\ UNCHANGED rowVars /\ UNCHANGED podVars /\ UNCHANGED writeVars

-----------------------------------------------------------------------------

Commit ==
    \E p \in Pods : \/ Register(p) \/ Delete(p) \/ Update(p)
                    \/ \E b \in BOOLEAN : CommitLifecycle(p, b)

PublisherStep ==
    \E w \in publishers : \/ Invalidate(w) \/ Publish(w) \/ FindNothing(w)
                          \/ Clear(w) \/ Erase(w) \/ PublishDeleted(w)

Sweep ==
    \/ \E p \in Pods : Replay(p) \/ EraseRestored(p)
    \/ \E i \in Incarnations : ReplayErasure(i) \/ WindowMissed(i)

CacheStep == \E p \in Pods : StartLoad(p) \/ StoreView(p) \/ ViewExpires(p)

FoldStep(m, again) == FoldChanged(m, again) \/ FoldDeleted(m, again)

HashStep ==
    \/ \E v \in arriving : RestoreAccount(v)
    \/ \E v \in restored : SetUser(v)
    \/ \E v \in replies : SetLifecycle(v)

Next ==
    \/ Commit \/ PublisherStep \/ Sweep \/ CacheStep \/ HashStep
    \/ \E m \in bus, again \in BOOLEAN : FoldStep(m, again)
    \/ \E w \in publishers : Crash(w)
    \/ (\E p \in Pods : LoadOwner(p)) \/ Reply \/ SettingsExpire

Spec == Init /\ [][Next]_vars

\* A publication under way goes on, the 30 s sweep and the erasure job run, and
\* JetStream delivers until an event is handled.  A read ends, a view expires, and
\* the hash of a deleted account, which nobody extends for ever, reaches its TTL.
\* The job tells an erasure once; nobody has to commit, read or reload.
Fairness ==
    /\ WF_vars(PublisherStep)
    /\ WF_vars(\E p \in Pods : Replay(p))
    /\ WF_vars(\E p \in Pods : EraseRestored(p))
    /\ \A i \in Incarnations : WF_vars(ledger[i] = "open" /\ ReplayErasure(i))
    /\ WF_vars(\E m \in bus : FoldStep(m, FALSE))
    /\ WF_vars(\E v \in arriving : RestoreAccount(v))
    /\ WF_vars(\E v \in restored : SetUser(v))
    /\ WF_vars(\E v \in replies : SetLifecycle(v))
    /\ \A p \in Pods : WF_vars(StoreView(p)) /\ WF_vars(ViewExpires(p))
    /\ WF_vars(row = None /\ SettingsExpire)

FairSpec == Spec /\ Fairness
==============================================================================
