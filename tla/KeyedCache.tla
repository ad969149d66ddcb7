----------------------------- MODULE KeyedCache -----------------------------
(***************************************************************************)
(* One key of the read cache of pkg/cache/keyed.go: an entry with a fresh   *)
(* period and a stale-on-error window, loads collapsed by singleflight, and *)
(* Invalidate, which a broadcast of a committed change calls on every pod.  *)
(* The loader reads the newest committed version of the value.              *)
(***************************************************************************)
EXTENDS Naturals

CONSTANTS Readers,      \* goroutines that call GetOrLoad
          TTL,          \* ticks an entry is fresh
          Jitter,       \* ticks SetFor may add
          StaleWindow,  \* ticks an entry outlives its fresh period
          NoReader,
          MaxVersion,   \* bound: versions committed
          MaxFaults     \* bound: broadcasts lost and loads failed

ASSUME PeriodAssumption == TTL \in Nat \ {0} /\ Jitter \in Nat /\ StaleWindow \in Nat
ASSUME ReaderAssumption == NoReader \notin Readers
ASSUME BoundsAssumption == MaxVersion \in Nat \ {0} /\ MaxFaults \in Nat

VARIABLES source,      \* newest committed version
          outdated,    \* ticks since each version was superseded (history)
          owed,        \* versions whose change broadcast is under way
          forgetting,  \* the version Invalidate is at work for, 0 for none
          announced,   \* newest version an Invalidate has ended for (history)
          entry,       \* the cached entry: version, fresh ticks, ticks left
          group,       \* the reader leading the registered flight
          pc, on,      \* where each reader is, and whose flight it waits for
          loaded,      \* version each flight has in hand, 0 for an error
          slow,        \* a load has outlasted a tick (history)
          faults

vars == <<source, outdated, owed, forgetting, announced, entry, group, pc, on,
          loaded, slow, faults>>

Versions == 1 .. MaxVersion
Absent == [ver |-> 0, fresh |-> 0, keep |-> 0]
Longest == TTL + Jitter + StaleWindow
Fresh == entry.fresh > 0
Present == entry.keep > 0

TypeOK ==
    /\ source \in Versions /\ owed \subseteq Versions
    /\ forgetting \in 0 .. MaxVersion /\ announced \in 0 .. MaxVersion
    /\ outdated \in [Versions -> 0 .. Longest + 1]
    /\ entry \in [ver : 0 .. MaxVersion, fresh : 0 .. TTL + Jitter, keep : 0 .. Longest]
    /\ Present <=> entry.ver # 0
    /\ entry.fresh <= entry.keep /\ entry.keep <= entry.fresh + StaleWindow
    /\ group \in Readers \cup {NoReader} /\ on \in [Readers -> Readers]
    /\ pc \in [Readers -> {"idle", "missed", "wait", "check", "load", "store", "finish"}]
    /\ loaded \in [Readers -> 0 .. MaxVersion]
    /\ slow \in BOOLEAN /\ faults \in 0 .. MaxFaults

Init ==
    /\ source = 1 /\ outdated = [v \in Versions |-> 0]
    /\ owed = {} /\ forgetting = 0 /\ announced = 0
    /\ entry = Absent /\ group = NoReader
    /\ pc = [r \in Readers |-> "idle"] /\ on = [r \in Readers |-> r]
    /\ loaded = [r \in Readers |-> 0]
    /\ slow = FALSE /\ faults = 0

Fault == faults < MaxFaults /\ faults' = faults + 1
Go(r, to) == pc' = [pc EXCEPT ![r] = to]
SourceUnchanged == UNCHANGED <<source, outdated, owed, forgetting, announced>>

-----------------------------------------------------------------------------
(* The owner of the data: it commits and then broadcasts the change.        *)

Commit ==
    /\ source < MaxVersion
    /\ source' = source + 1 /\ owed' = owed \cup {source + 1}
    /\ UNCHANGED <<outdated, forgetting, announced, entry, group, pc, on, loaded, slow, faults>>

BroadcastLost(v) ==
    /\ v \in owed /\ Fault /\ owed' = owed \ {v}
    /\ UNCHANGED <<source, outdated, forgetting, announced, entry, group, pc, on, loaded, slow>>

-----------------------------------------------------------------------------
(* Invalidate(key): group.Forget, then client.Delete.                       *)

\* Variant: only the entry is dropped.
ForgetNothing(v) ==
    /\ v \in owed /\ forgetting = 0
    /\ owed' = owed \ {v} /\ forgetting' = v
    /\ UNCHANGED <<source, outdated, announced, entry, group, pc, on, loaded, slow, faults>>

Forget(v) ==
    /\ v \in owed /\ forgetting = 0
    /\ owed' = owed \ {v} /\ forgetting' = v /\ group' = NoReader
    /\ UNCHANGED <<source, outdated, announced, entry, pc, on, loaded, slow, faults>>

Delete ==
    /\ forgetting # 0
    /\ entry' = Absent /\ forgetting' = 0
    /\ announced' = IF forgetting > announced THEN forgetting ELSE announced
    /\ UNCHANGED <<source, outdated, owed, group, pc, on, loaded, slow, faults>>

-----------------------------------------------------------------------------
(* GetOrLoadTTL and load.  A hit answers with a fresh entry and changes      *)
(* nothing.                                                                 *)

Miss(r) ==
    /\ pc[r] = "idle" /\ ~Fresh /\ Go(r, "missed")
    /\ SourceUnchanged /\ UNCHANGED <<entry, group, on, loaded, slow, faults>>

\* group.Do: wait for the registered flight, or lead one.
Join(r) ==
    /\ pc[r] = "missed" /\ group # NoReader
    /\ Go(r, "wait") /\ on' = [on EXCEPT ![r] = group]
    /\ SourceUnchanged /\ UNCHANGED <<entry, group, loaded, slow, faults>>

Lead(r) ==
    /\ pc[r] = "missed" /\ group = NoReader
    /\ Go(r, "check") /\ group' = r
    /\ SourceUnchanged /\ UNCHANGED <<entry, on, loaded, slow, faults>>

\* A flight that ended since the miss may have filled the entry.
Recheck(r) ==
    /\ pc[r] = "check"
    /\ \/ Fresh /\ Go(r, "finish") /\ loaded' = [loaded EXCEPT ![r] = entry.ver]
       \/ ~Fresh /\ Go(r, "load") /\ UNCHANGED loaded
    /\ SourceUnchanged /\ UNCHANGED <<entry, group, on, slow, faults>>

Load(r) ==
    /\ pc[r] = "load" /\ Go(r, "store")
    /\ loaded' = [loaded EXCEPT ![r] = source]
    /\ SourceUnchanged /\ UNCHANGED <<entry, group, on, slow, faults>>

\* Variant: the stale value is cached again when it is served.
StaleOrAgain(r) ==
    /\ loaded' = [loaded EXCEPT ![r] = IF StaleWindow > 0 THEN entry.ver ELSE 0]
    /\ entry' = IF Present THEN [entry EXCEPT !.fresh = TTL + Jitter, !.keep = Longest]
                           ELSE entry

\* staleOr: the entry, if it is still held, answers for the loader.
StaleOr(r) ==
    /\ loaded' = [loaded EXCEPT ![r] = IF StaleWindow > 0 THEN entry.ver ELSE 0]
    /\ UNCHANGED entry

LoadFails(r) ==
    /\ pc[r] = "load" /\ Fault /\ Go(r, "finish") /\ StaleOr(r)
    /\ SourceUnchanged /\ UNCHANGED <<group, on, slow>>

\* SetFor: the lifetime starts when the value is stored.
SetFor(r) ==
    /\ pc[r] = "store" /\ Go(r, "finish")
    /\ \E t \in TTL .. TTL + Jitter :
           entry' = [ver |-> loaded[r], fresh |-> t, keep |-> t + StaleWindow]
    /\ SourceUnchanged /\ UNCHANGED <<group, on, loaded, slow, faults>>

\* Variant: the callers that waited are not woken.
AnsweredAlone(r) == {r}

\* The leader and those that joined its flight.
Answered(r) == {r} \cup {s \in Readers : pc[s] = "wait" /\ on[s] = r}

\* The flight ends: it leaves the group unless Forget has already removed it.
Finish(r) ==
    /\ pc[r] = "finish"
    /\ pc' = [s \in Readers |-> IF s \in Answered(r) THEN "idle" ELSE pc[s]]
    /\ on' = [s \in Readers |-> IF s \in Answered(r) THEN s ELSE on[s]]
    /\ loaded' = [loaded EXCEPT ![r] = 0]
    /\ group' = IF group = r THEN NoReader ELSE group
    /\ SourceUnchanged /\ UNCHANGED <<entry, slow, faults>>

-----------------------------------------------------------------------------
(* The cache library: capacity and time                                     *)

Evict == /\ Present /\ entry' = Absent
         /\ SourceUnchanged /\ UNCHANGED <<group, pc, on, loaded, slow, faults>>

Less(n) == IF n = 0 THEN 0 ELSE n - 1

\* Variant: only the fresh period ends.
AgedSoftly == [entry EXCEPT !.fresh = Less(@)]

Aged == IF entry.keep <= 1 THEN Absent
        ELSE [entry EXCEPT !.fresh = Less(entry.fresh), !.keep = entry.keep - 1]

\* A load between its read and the end of its flight is slow.
Tick ==
    /\ slow' = (slow \/ \E r \in Readers : pc[r] \in {"store", "finish"})
    /\ entry' = Aged
    /\ outdated' = [v \in Versions |-> IF v < source /\ outdated[v] <= Longest
                                       THEN outdated[v] + 1 ELSE outdated[v]]
    /\ UNCHANGED <<source, owed, forgetting, announced, group, pc, on, loaded, faults>>

-----------------------------------------------------------------------------
Flight(r) == Join(r) \/ Lead(r) \/ Recheck(r) \/ Load(r) \/ SetFor(r) \/ Finish(r)

Next ==
    \/ Commit \/ Delete \/ Evict \/ Tick
    \/ \E v \in Versions : BroadcastLost(v) \/ Forget(v)
    \/ \E r \in Readers : Miss(r) \/ Flight(r) \/ LoadFails(r)

Spec == Init /\ [][Next]_vars

\* A call under way goes on and time passes; nobody has to call or to write.
FairSpec == Spec /\ WF_vars(Tick) /\ WF_vars(Delete)
                 /\ \A r \in Readers : WF_vars(Flight(r))

-----------------------------------------------------------------------------
(* Properties                                                               *)

\* A superseded version answers no longer than the lifetime of an entry, also
\* when its broadcast was lost, and past the fresh period only in place of a
\* loader that fails (staleOr does not renew the entry).  For loads that end
\* within a tick.
StalenessBounded ==
    ~slow =>
    /\ Fresh => outdated[entry.ver] <= TTL + Jitter
    /\ Present => outdated[entry.ver] <= Longest
    /\ \A r \in Readers :
          pc[r] = "finish" /\ loaded[r] # 0 => outdated[loaded[r]] <= Longest

\* A flight that callers can still join loads nothing older than the last
\* change Invalidate was called for (Forget unregisters the flights before).
JoinableIsCurrent ==
    group # NoReader /\ pc[group] = "store" => loaded[group] >= announced

\* After Invalidate the cache holds nothing older than the change it was
\* called for, as ADR 0008 says.  SetFor of a forgotten flight breaks it.
InvalidationSticks == Present => entry.ver >= announced

\* Every call returns: the leader's flight ends and wakes those that joined.
CallsReturn == \A r \in Readers : (pc[r] # "idle") ~> (pc[r] = "idle")

\* The cache forgets what is superseded, whatever was lost and raced on the way.
EventuallyCurrent == <>[](Present => entry.ver = source)
=============================================================================
