----------------------- MODULE AccountProjectionProofs -----------------------
(***************************************************************************)
(* What the fence of the admission key and the outbox flag promise, for any *)
(* number of pods, revisions, registrations, writers, faults and slow       *)
(* readers.                                                                 *)
(***************************************************************************)
EXTENDS MCAccountProjection, TLAPS

PublisherType ==
    [pod : Pods, inc : Incarnations, rev : Revisions, outbox : BOOLEAN, at : Stages]
FenceType == [inc : 0 .. MaxIncarnation, rev : 0 .. MaxRevision, deleted : BOOLEAN]
SettingsType == [inc : Incarnations, lc : BOOLEAN, full : BOOLEAN]

\* Everything that holds a snapshot of the row.
Copies == {row} \cup {views[p] : p \in Pods} \cup {flights[p] : p \in Pods}
          \cup bus \cup arriving \cup restored \cup replies

\* The parts of TypeOK: the row, the copies of it, the publications, the hash.
TypeRow == /\ registered \in 0 .. MaxIncarnation
           /\ row # None => row.inc = registered
           /\ lifecycleRev \in 0 .. MaxRevision
           /\ admits \in [Incarnations -> [Revisions -> BOOLEAN]]
TypeLedger == ledger \in [Incarnations -> Records]
TypeFlags == pending \in BOOLEAN /\ refilled \in BOOLEAN
TypeCopies ==
    /\ row \in Snapshots \cup {None}
    /\ views \in [Pods -> Snapshots \cup {None}] /\ flights \in [Pods -> Snapshots \cup {None}]
    /\ bus \subseteq Snapshots \cup Deletions
    /\ arriving \subseteq Snapshots /\ restored \subseteq Snapshots /\ replies \subseteq Snapshots
TypePublishers == publishers \subseteq PublisherType
TypeHash == /\ fence \in FenceType /\ settings \in SettingsType \cup {None}
            /\ faults \in 0 .. MaxFaults

LEMMA Parts ==
  TypeOK <=> TypeRow /\ TypeLedger /\ TypeFlags /\ TypeCopies /\ TypePublishers /\ TypeHash
BY DEF TypeOK, TypeRow, TypeLedger, TypeFlags, TypeCopies, TypePublishers, TypeHash,
   PublisherType, FenceType, SettingsType

\* A message of the bus is a snapshot or a deletion, and IsDeletion tells them apart.
LEMMA Messages ==
  /\ \A m \in Snapshots : ~IsDeletion(m)
  /\ \A m \in Deletions : IsDeletion(m) /\ m.deleted \in Incarnations
BY DEF Snapshots, Deletions, IsDeletion

-----------------------------------------------------------------------------
(* The types                                                                *)

LEMMA TypeInit == Init => TypeOK
<1> SUFFICES ASSUME Init PROVE TypeOK
  OBVIOUS
<1>1. TypeFlags
  BY Zenon DEF Init, TypeFlags
<1>2. TypeRow /\ TypeLedger /\ TypeCopies /\ TypePublishers /\ TypeHash
  BY CountAssumption DEF Init, TypeRow, TypeLedger, Records, TypeCopies, TypePublishers, TypeHash, FenceType,
     Incarnations, Revisions
<1> QED BY <1>1, <1>2, Parts

LEMMA FlagsStep == TypeFlags /\ [Next]_vars => TypeFlags'
<1> SUFFICES ASSUME TypeFlags, [Next]_vars PROVE TypeFlags'
  OBVIOUS
<1>1. ASSUME NEW p \in Pods, StoreView(p) PROVE TypeFlags'
  <2>1. pending' = pending
    BY <1>1, Zenon DEF StoreView, rowVars
  <2>2. refilled' = TRUE \/ refilled' = FALSE
    BY <1>1, Zenon DEF StoreView
  <2> QED BY <2>1, <2>2, Zenon DEF TypeFlags
<1>2. ASSUME NEW w \in publishers, Clear(w) PROVE TypeFlags'
  <2>1. refilled' = refilled
    BY <1>2, Zenon DEF Clear
  <2>2. pending' = FALSE \/ pending' = pending
    BY <1>2, Zenon DEF Clear, Cleared
  <2> QED BY <2>1, <2>2, Zenon DEF TypeFlags
<1>3. \/ refilled' = FALSE /\ pending' = TRUE
      \/ refilled' = refilled /\ (pending' = TRUE \/ pending' = FALSE \/ pending' = pending)
      \/ \E p \in Pods : StoreView(p)
      \/ \E w \in publishers : Clear(w)
  BY Zenon DEF Next, vars, Commit, Register, Delete, Update, CommitLifecycle, Committed,
     PublisherStep, Invalidate, Publish, FindNothing, Erase, PublishDeleted, Sweep, Replay, EraseRestored, WindowMissed,
     ReplayErasure, CacheStep, StartLoad, ViewExpires, HashStep, RestoreAccount, SetUser,
     SetLifecycle, FoldStep, FoldChanged, FoldDeleted, Crash, LoadOwner, Reply, SettingsExpire,
     rowVars, podVars
<1> QED BY <1>1, <1>2, <1>3, Zenon DEF TypeFlags

\* A commit writes the next revision of the row; nothing else writes it.
LEMMA RowStep ==
  ASSUME [Next]_vars
  PROVE  \/ UNCHANGED <<row, registered, lifecycleRev, admits>>
         \/ /\ row = None /\ registered < MaxIncarnation /\ registered' = registered + 1
            /\ lifecycleRev' = 0
            /\ row' = [inc |-> registered + 1, rev |-> 1, lc |-> TRUE]
            /\ admits' = [admits EXCEPT ![row'.inc][row'.rev] = row'.lc]
         \/ /\ row # None /\ row.rev < MaxRevision /\ registered' = registered
            /\ lifecycleRev' \in {lifecycleRev, row.rev + 1}
            /\ \/ \E b \in BOOLEAN : row' = [row EXCEPT !.rev = @ + 1, !.lc = b]
               \/ row' = [row EXCEPT !.rev = @ + 1]
            /\ admits' = [admits EXCEPT ![row'.inc][row'.rev] = row'.lc]
         \/ row # None /\ row' = None /\ lifecycleRev' = 0 /\ UNCHANGED <<registered, admits>>
<1>1. ASSUME NEW p \in Pods, Register(p)
      PROVE  /\ row = None /\ registered < MaxIncarnation /\ registered' = registered + 1
             /\ lifecycleRev' = 0
             /\ row' = [inc |-> registered + 1, rev |-> 1, lc |-> TRUE]
             /\ admits' = [admits EXCEPT ![row'.inc][row'.rev] = row'.lc]
  BY <1>1, Zenon DEF Register, Committed
<1>2. ASSUME NEW p \in Pods, NEW b \in BOOLEAN, CommitLifecycle(p, b)
      PROVE  /\ row # None /\ row.rev < MaxRevision /\ registered' = registered
             /\ lifecycleRev' = row.rev + 1
             /\ row' = [row EXCEPT !.rev = @ + 1, !.lc = b]
             /\ admits' = [admits EXCEPT ![row'.inc][row'.rev] = row'.lc]
  BY <1>2, Zenon DEF CommitLifecycle, Committed
<1>3. ASSUME NEW p \in Pods, Update(p)
      PROVE  /\ row # None /\ row.rev < MaxRevision /\ registered' = registered
             /\ lifecycleRev' = lifecycleRev
             /\ row' = [row EXCEPT !.rev = @ + 1]
             /\ admits' = [admits EXCEPT ![row'.inc][row'.rev] = row'.lc]
  BY <1>3, Zenon DEF Update, Committed
<1>4. \/ UNCHANGED <<row, registered, lifecycleRev, admits>>
      \/ \E p \in Pods : Register(p) \/ Update(p) \/ \E b \in BOOLEAN : CommitLifecycle(p, b)
      \/ row # None /\ row' = None /\ lifecycleRev' = 0 /\ UNCHANGED <<registered, admits>>
  BY Zenon DEF Next, vars, Commit, Delete,
     PublisherStep, Invalidate, Publish, FindNothing, Clear, Erase, PublishDeleted, Sweep, Replay, EraseRestored, WindowMissed,
     ReplayErasure, CacheStep, StartLoad, StoreView, ViewExpires, HashStep, RestoreAccount,
     SetUser, SetLifecycle, FoldStep, FoldChanged, FoldDeleted, Crash, LoadOwner, Reply,
     SettingsExpire, rowVars
<1> QED BY <1>1, <1>2, <1>3, <1>4, Zenon

\* The record of an erasure is made by Delete and moved by the job.
LEMMA LedgerMoves ==
  ASSUME [Next]_vars
  PROVE  \/ ledger' = ledger
         \/ \E i \in Incarnations, r \in {"told", "missed"} :
               ledger[i] # "none" /\ ledger' = [ledger EXCEPT ![i] = r]
         \/ row # None /\ ledger' = [ledger EXCEPT ![row.inc] = "open"]
<1>1. ASSUME NEW p \in Pods, Delete(p)
      PROVE  ledger' = ledger \/ (row # None /\ ledger' = [ledger EXCEPT ![row.inc] = "open"])
  BY <1>1, Zenon DEF Delete, Recorded
<1>2. ASSUME NEW i \in Incarnations, ReplayErasure(i) \/ WindowMissed(i)
      PROVE  \E r \in {"told", "missed"} :
                ledger[i] # "none" /\ ledger' = [ledger EXCEPT ![i] = r]
  BY <1>2 DEF ReplayErasure, WindowMissed, Tellable
<1>3. \/ ledger' = ledger \/ (\E p \in Pods : Delete(p))
      \/ \E i \in Incarnations : ReplayErasure(i) \/ WindowMissed(i)
  BY Zenon DEF Next, vars, Commit, Register, Update, CommitLifecycle, Committed,
     PublisherStep, Invalidate, Publish, FindNothing, Clear, Erase, PublishDeleted, Sweep,
     Replay, EraseRestored, CacheStep, StartLoad, StoreView, ViewExpires, HashStep,
     RestoreAccount, SetUser, SetLifecycle, FoldStep, FoldChanged, FoldDeleted, Crash,
     LoadOwner, Reply, SettingsExpire, rowVars
<1> QED BY <1>1, <1>2, <1>3, Zenon

LEMMA LedgerTypeStep ==
  ASSUME TypeLedger, row \in Snapshots \cup {None}, [Next]_vars PROVE TypeLedger'
<1>1. row # None => row.inc \in Incarnations
  BY DEF Snapshots
<1> QED BY <1>1, LedgerMoves DEF TypeLedger, Records

LEMMA TypeRowStep ==
  ASSUME TypeRow, row \in Snapshots \cup {None}, [Next]_vars
  PROVE  TypeRow' /\ row' \in Snapshots \cup {None}
<1> USE CountAssumption, NoneAssumption
<1>1. CASE UNCHANGED <<row, registered, lifecycleRev, admits>>
  BY <1>1 DEF TypeRow
<1>2. ASSUME row' \in Snapshots, row'.inc = registered',
             registered' \in 0 .. MaxIncarnation, lifecycleRev' \in 0 .. MaxRevision,
             admits' = [admits EXCEPT ![row'.inc][row'.rev] = row'.lc]
      PROVE  TypeRow' /\ row' \in Snapshots \cup {None}
  BY <1>2 DEF TypeRow, Snapshots
<1>3. CASE /\ row = None /\ registered < MaxIncarnation /\ registered' = registered + 1
           /\ lifecycleRev' = 0
           /\ row' = [inc |-> registered + 1, rev |-> 1, lc |-> TRUE]
           /\ admits' = [admits EXCEPT ![row'.inc][row'.rev] = row'.lc]
  <2>1. row' \in Snapshots /\ row'.inc = registered' /\ registered' \in 0 .. MaxIncarnation
    BY <1>3 DEF TypeRow, Snapshots, Incarnations, Revisions
  <2> QED BY <1>2, <1>3, <2>1
<1>4. CASE /\ row # None /\ row.rev < MaxRevision /\ registered' = registered
           /\ lifecycleRev' \in {lifecycleRev, row.rev + 1}
           /\ \/ \E b \in BOOLEAN : row' = [row EXCEPT !.rev = @ + 1, !.lc = b]
              \/ row' = [row EXCEPT !.rev = @ + 1]
           /\ admits' = [admits EXCEPT ![row'.inc][row'.rev] = row'.lc]
  <2>0. row \in Snapshots /\ row.rev \in Revisions
    BY <1>4 DEF Snapshots
  <2>a. row.rev < MaxRevision /\ lifecycleRev' \in {lifecycleRev, row.rev + 1}
    BY <1>4, Zenon
  <2>1. row \in Snapshots /\ row.rev + 1 \in Revisions
    BY <2>a, <2>0 DEF Revisions
  <2>2. row' \in Snapshots /\ row'.inc = row.inc
    BY <1>4, <2>1 DEF Snapshots
  <2>3. registered' \in 0 .. MaxIncarnation /\ row.inc = registered
    BY <1>4 DEF TypeRow
  <2>4. lifecycleRev' \in 0 .. MaxRevision
    BY <2>a, <2>1 DEF TypeRow, Revisions
  <2> QED BY <1>2, <1>4, <2>2, <2>3, <2>4
<1>5. CASE row # None /\ row' = None /\ lifecycleRev' = 0 /\ UNCHANGED <<registered, admits>>
  BY <1>5 DEF TypeRow
<1> QED BY <1>1, <1>3, <1>4, <1>5, RowStep

-----------------------------------------------------------------------------
(* The copies                                                               *)

Owned == Copies \cap Snapshots

\* Views, reads, messages and writers hold members of S.
HeldIn(S, v, f, b, a, r, p) ==
    /\ v \in [Pods -> S \cup {None}] /\ f \in [Pods -> S \cup {None}]
    /\ b \subseteq S \cup Deletions /\ a \subseteq S /\ r \subseteq S /\ p \subseteq S

LEMMA CopiesAreHeld ==
  ASSUME TypeCopies
  PROVE  /\ HeldIn(Owned, views, flights, bus, arriving, restored, replies)
         /\ row \in Owned \cup {None} /\ Owned \subseteq Snapshots
BY DEF TypeCopies, HeldIn, Owned, Copies

\* No step makes a copy of anything but a copy.
LEMMA HeldStep ==
  ASSUME TypeCopies, TypePublishers, [Next]_vars
  PROVE  HeldIn(Owned, views', flights', bus', arriving', restored', replies')
<1>0. /\ HeldIn(Owned, views, flights, bus, arriving, restored, replies)
      /\ row \in Owned \cup {None}
  BY CopiesAreHeld
<1>1. /\ None \notin Owned /\ \A m \in Owned : ~IsDeletion(m)
  BY CopiesAreHeld, NoneAssumption, Messages
<1>2. \A p \in Pods : Seen(p) \in Owned \cup {None}
  BY <1>0 DEF HeldIn, Seen
<1>3. bus \subseteq Owned \cup Deletions
  BY <1>0 DEF HeldIn
<1> USE DEF HeldIn, podVars, rowVars, writeVars, Publisher, Handled
<1>4. CASE UNCHANGED <<views, flights, bus, arriving, restored, replies>>
  BY <1>0, <1>4
<1>5. ASSUME NEW w \in publishers, w.pod \in Pods, Invalidate(w) \/ Publish(w) \/ PublishDeleted(w),
             w.inc \in Incarnations
      PROVE  HeldIn(Owned, views', flights', bus', arriving', restored', replies')
  <2>1. CASE Invalidate(w)
    BY <1>0, <1>5, <2>1 DEF Invalidate, Invalidated
  <2>2. CASE Publish(w)
    <3>1. Seen(w.pod) \in Owned
      BY <1>2, <1>5, <2>2 DEF Publish
    <3> HIDE DEF Seen
    <3> QED BY <1>0, <1>5, <2>2, <3>1 DEF Publish
  <2>3. CASE PublishDeleted(w)
    <3>1. [deleted |-> w.inc] \in Deletions
      BY <1>5 DEF Deletions
    <3> QED BY <1>0, <1>5, <2>3, <3>1 DEF PublishDeleted
  <2> QED BY <1>5, <2>1, <2>2, <2>3
<1>6. ASSUME NEW i \in Incarnations, ReplayErasure(i)
      PROVE  HeldIn(Owned, views', flights', bus', arriving', restored', replies')
  <2>1. [deleted |-> i] \in Deletions
    BY DEF Deletions
  <2> QED BY <1>0, <1>6, <2>1 DEF ReplayErasure
<1>7. ASSUME NEW p \in Pods, StartLoad(p) \/ StoreView(p) \/ ViewExpires(p) \/ LoadOwner(p)
      PROVE  HeldIn(Owned, views', flights', bus', arriving', restored', replies')
  <2>1. CASE StartLoad(p)
    BY <1>0, <2>1 DEF StartLoad
  <2>2. CASE StoreView(p)
    BY <1>0, <2>2 DEF StoreView
  <2>3. CASE ViewExpires(p)
    BY <1>0, <2>3 DEF ViewExpires
  <2>4. CASE LoadOwner(p)
    <3>1. Seen(p) \in Owned
      BY <1>2, <2>4 DEF LoadOwner
    <3> QED BY <1>0, <2>4, <3>1 DEF LoadOwner
  <2> QED BY <1>7, <2>1, <2>2, <2>3, <2>4
<1>8. ASSUME NEW m \in bus, NEW again \in BOOLEAN, FoldStep(m, again)
      PROVE  HeldIn(Owned, views', flights', bus', arriving', restored', replies')
  <2>1. CASE FoldChanged(m, again)
    <3>1. m \in Owned
      BY <1>3, <2>1, Messages DEF FoldChanged
    <3> QED BY <1>0, <2>1, <3>1 DEF FoldChanged
  <2>2. CASE FoldDeleted(m, again)
    BY <1>0, <2>2 DEF FoldDeleted
  <2> QED BY <1>8, <2>1, <2>2 DEF FoldStep
<1>9. CASE HashStep
  BY <1>0, <1>9 DEF HashStep, RestoreAccount, SetUser, SetLifecycle
<1>10. CASE Reply
  <2>1. row \in Owned
    BY <1>0, <1>10 DEF Reply
  <2> QED BY <1>0, <1>10, <2>1 DEF Reply
<1>11. \/ UNCHANGED <<views, flights, bus, arriving, restored, replies>>
       \/ \E w \in publishers : Invalidate(w) \/ Publish(w) \/ PublishDeleted(w)
       \/ \E i \in Incarnations : ReplayErasure(i)
       \/ \E p \in Pods : StartLoad(p) \/ StoreView(p) \/ ViewExpires(p) \/ LoadOwner(p)
       \/ \E m \in bus, again \in BOOLEAN : FoldStep(m, again)
       \/ HashStep \/ Reply
  BY Zenon DEF Next, vars, Commit, Register, Delete, Update, CommitLifecycle, Committed,
     PublisherStep, FindNothing, Clear, Erase, Sweep, Replay, EraseRestored, WindowMissed, CacheStep, Crash, SettingsExpire
<1>12. \A w \in publishers : w.pod \in Pods /\ w.inc \in Incarnations
  BY DEF TypePublishers, PublisherType
<1> HIDE DEF HeldIn
<1> QED BY <1>4, <1>5, <1>6, <1>7, <1>8, <1>9, <1>10, <1>11, <1>12

LEMMA TypeCopiesStep ==
  ASSUME TypeCopies, TypePublishers, row' \in Snapshots \cup {None}, [Next]_vars
  PROVE  TypeCopies' /\ Copies' \subseteq Owned \cup Deletions \cup {row', None}
<1>1. HeldIn(Owned, views', flights', bus', arriving', restored', replies')
  BY HeldStep
<1>2. Owned \subseteq Snapshots
  BY CopiesAreHeld
<1> QED BY <1>1, <1>2 DEF HeldIn, TypeCopies, Copies

LEMMA CommitStep ==
  ASSUME TypeRow, row \in Snapshots \cup {None}, NEW p \in Pods,
         Register(p) \/ Update(p) \/ \E b \in BOOLEAN : CommitLifecycle(p, b)
  PROVE  row' \in Snapshots
<1> USE CountAssumption, NoneAssumption
<1>1. CASE Register(p)
  <2>1. row' = [inc |-> registered + 1, rev |-> 1, lc |-> TRUE] /\ registered < MaxIncarnation
    BY <1>1, Zenon DEF Register, Committed
  <2> QED BY <2>1 DEF TypeRow, Snapshots, Incarnations, Revisions
<1>2. CASE Update(p) \/ \E b \in BOOLEAN : CommitLifecycle(p, b)
  <2>1. row # None /\ row.rev < MaxRevision
    BY <1>2, Zenon DEF Update, CommitLifecycle
  <2>2. \/ \E b \in BOOLEAN : row' = [row EXCEPT !.rev = @ + 1, !.lc = b]
        \/ row' = [row EXCEPT !.rev = @ + 1]
    BY <1>2, Zenon DEF Update, CommitLifecycle, Committed
  <2>3. row \in Snapshots /\ row.rev \in Revisions
    BY <2>1 DEF Snapshots
  <2>4. row.rev + 1 \in Revisions
    BY <2>1, <2>3 DEF Revisions
  <2> QED BY <2>2, <2>3, <2>4 DEF Snapshots
<1> QED BY <1>1, <1>2

\* An erasure is of the row's registration, under its first revision.
LEMMA Erasers ==
  ASSUME NEW p \in Pods, row \in Snapshots
  PROVE  /\ Eraser(p) \in PublisherType /\ Eraser(p).at = "erase"
         /\ Eraser(p).inc = row.inc /\ Eraser(p).rev = 1
<1>1. 1 \in Revisions
  BY CountAssumption DEF Revisions
<1>2. [row EXCEPT !.rev = 1] \in Snapshots
  BY <1>1 DEF Snapshots
<1>3. [row EXCEPT !.rev = 1].inc = row.inc /\ [row EXCEPT !.rev = 1].rev = 1
  BY DEF Snapshots
<1>4. "erase" \in Stages
  BY DEF Stages
<1> QED BY <1>1, <1>2, <1>3, <1>4 DEF Eraser, Publisher, PublisherType, Snapshots

\* A publication is for a revision of the row of its time.
LEMMA PublishersStep ==
  ASSUME TypePublishers, TypeRow, TypeCopies, [Next]_vars
  PROVE  TypePublishers'
<1> USE DEF TypePublishers
<1>1. \A snapshot \in Snapshots, p \in Pods, outbox \in BOOLEAN, stage \in Stages :
         Publisher(p, snapshot, outbox, stage) \in PublisherType
  BY DEF Publisher, PublisherType, Snapshots
<1>2. \A w \in PublisherType, stage \in Stages : [w EXCEPT !.at = stage] \in PublisherType
  BY DEF PublisherType
<1>3. row # None => row \in Snapshots
  BY DEF TypeCopies
<1>4. \A stage \in {"invalidate", "publish", "clear", "erase", "retire"} : stage \in Stages
  BY DEF Stages
<1>5. CASE publishers' \subseteq publishers
  BY <1>5
<1>6. ASSUME NEW p \in Pods, Register(p) \/ Update(p) \/ \E b \in BOOLEAN : CommitLifecycle(p, b)
      PROVE  TypePublishers'
  <2>1. PICK outbox \in BOOLEAN :
           publishers' = publishers \cup {Publisher(p, row', outbox, "invalidate")}
    BY <1>6, Zenon DEF Register, Update, CommitLifecycle, Committed
  <2>2. row' \in Snapshots
    BY <1>6, CommitStep DEF TypeCopies
  <2> QED BY <1>1, <1>4, <2>1, <2>2
<1>7. ASSUME NEW p \in Pods, Delete(p) \/ EraseRestored(p) \/ Replay(p) PROVE TypePublishers'
  <2>1. \/ row # None /\ publishers' = publishers \cup {Publisher(p, row, TRUE, "invalidate")}
        \/ row # None /\ publishers' = publishers \cup {Eraser(p)}
    BY <1>7, Zenon DEF Delete, EraseRestored, Replay, ProjectionDue
  <2>2. row # None => Eraser(p) \in PublisherType
    BY <1>3, Erasers
  <2>3. row # None => Publisher(p, row, TRUE, "invalidate") \in PublisherType
    BY <1>1, <1>3, <1>4
  <2>4. PICK x \in PublisherType : publishers' = publishers \cup {x}
    BY <2>1, <2>2, <2>3, Zenon
  <2> QED BY <2>4
<1>8. ASSUME NEW w \in publishers, Invalidate(w) \/ Publish(w) \/ PublishDeleted(w)
                                    \/ FindNothing(w) \/ Clear(w) \/ Erase(w)
      PROVE  TypePublishers'
  <2>1. \/ publishers' = publishers \ {w}
        \/ \E stage \in {"publish", "clear", "retire"} :
              publishers' = (publishers \ {w}) \cup {[w EXCEPT !.at = stage]}
    BY <1>8, Zenon DEF Invalidate, Publish, PublishDeleted, FindNothing, Clear, Erase, Advance
  <2> QED BY <1>2, <1>4, <2>1
<1>9. \/ publishers' = publishers \/ \E w \in publishers : publishers' = publishers \ {w}
      \/ \E p \in Pods : Register(p) \/ Update(p) \/ \E b \in BOOLEAN : CommitLifecycle(p, b)
      \/ \E p \in Pods : Delete(p) \/ EraseRestored(p) \/ Replay(p)
      \/ \E w \in publishers : \/ Invalidate(w) \/ Publish(w) \/ PublishDeleted(w)
                               \/ FindNothing(w) \/ Clear(w) \/ Erase(w)
  BY Zenon DEF Next, vars, Commit, PublisherStep, Sweep, ReplayErasure, WindowMissed, CacheStep,
     StartLoad, StoreView, ViewExpires, HashStep, RestoreAccount, SetUser, SetLifecycle, FoldStep,
     FoldChanged, FoldDeleted, Crash, LoadOwner, Reply, SettingsExpire, podVars
<1> QED BY <1>5, <1>6, <1>7, <1>8, <1>9

-----------------------------------------------------------------------------
(* The fence and the settings hash                                          *)

\* What a step may do to the hash.
Taken(v) == /\ v.inc > fence.inc /\ settings' = None
            /\ fence' = [inc |-> v.inc, rev |-> 0, deleted |-> FALSE]
Written(v) == /\ Admits(v)
              /\ fence' = [inc |-> fence.inc, rev |-> v.rev, deleted |-> fence.deleted]
              /\ settings' = [inc |-> v.inc, lc |-> v.lc, full |-> TRUE]
Stamped(v) == /\ ~fence.deleted /\ fence.inc \in {0, v.inc} /\ v.rev >= fence.rev
              /\ fence' = [inc |-> v.inc, rev |-> v.rev, deleted |-> fence.deleted]
              /\ \/ settings' = [inc |-> v.inc, lc |-> v.lc, full |-> FALSE]
                 \/ settings' = [inc |-> v.inc, lc |-> v.lc, full |-> settings.full]
                    /\ settings # None
Retired(m) == /\ m.deleted >= fence.inc /\ settings' = None
              /\ fence' = [inc |-> m.deleted, rev |-> fence.rev, deleted |-> TRUE]

Hash == [inc : Nat, rev : Nat, deleted : BOOLEAN]
Shown == [inc : Nat, lc : BOOLEAN, full : BOOLEAN]

LEMMA Fields ==
  /\ \A g \in Hash : g = [inc |-> g.inc, rev |-> g.rev, deleted |-> g.deleted]
  /\ \A s \in Shown : s = [inc |-> s.inc, lc |-> s.lc, full |-> s.full]
BY DEF Hash, Shown

LEMMA Stamping ==
  ASSUME NEW f \in Hash, NEW i \in Nat, NEW r \in Nat
  PROVE  [f EXCEPT !.inc = i, !.rev = r] = [inc |-> i, rev |-> r, deleted |-> f.deleted]
<1> DEFINE g == [f EXCEPT !.inc = i, !.rev = r]
<1>1. g \in Hash
  BY DEF Hash
<1>2. g.inc = i /\ g.rev = r
  BY DEF Hash
<1>3. g.deleted = f.deleted
  BY DEF Hash
<1> HIDE DEF g
<1>4. g = [inc |-> i, rev |-> r, deleted |-> f.deleted]
  BY <1>1, <1>2, <1>3, Fields, Zenon
<1> QED BY <1>4 DEF g

LEMMA Retiring ==
  ASSUME NEW f \in Hash, NEW i \in Nat
  PROVE  [f EXCEPT !.inc = i, !.deleted = TRUE] = [inc |-> i, rev |-> f.rev, deleted |-> TRUE]
<1> DEFINE g == [f EXCEPT !.inc = i, !.deleted = TRUE]
<1>1. g \in Hash
  BY DEF Hash
<1>2. g.inc = i /\ g.rev = f.rev
  BY DEF Hash
<1>3. g.deleted = TRUE
  BY DEF Hash
<1> HIDE DEF g
<1>4. g = [inc |-> i, rev |-> f.rev, deleted |-> TRUE]
  BY <1>1, <1>2, <1>3, Fields, Zenon
<1> QED BY <1>4 DEF g

LEMMA Relabelling ==
  ASSUME NEW s \in Shown, NEW i \in Nat, NEW c \in BOOLEAN
  PROVE  [s EXCEPT !.inc = i, !.lc = c] = [inc |-> i, lc |-> c, full |-> s.full]
<1> DEFINE g == [s EXCEPT !.inc = i, !.lc = c]
<1>1. g \in Shown
  BY DEF Shown
<1>2. g.inc = i
  BY DEF Shown
<1>3. g.lc = c
  BY DEF Shown
<1>4. g.full = s.full
  BY DEF Shown
<1> HIDE DEF g
<1>5. g = [inc |-> i, lc |-> c, full |-> s.full]
  BY <1>1, <1>2, <1>3, <1>4, Fields, Zenon
<1> QED BY <1>5 DEF g

LEMMA Raising ==
  ASSUME NEW f \in Hash, NEW r \in Nat
  PROVE  [f EXCEPT !.rev = r] = [inc |-> f.inc, rev |-> r, deleted |-> f.deleted]
BY DEF Hash

LEMMA HashMoves ==
  ASSUME TypeCopies, TypeHash, [Next]_vars
  PROVE  \/ fence' = fence /\ (settings' = settings \/ settings' = None)
         \/ \E v \in Owned : Taken(v) \/ Written(v) \/ Stamped(v)
         \/ \E m \in bus : IsDeletion(m) /\ Retired(m)
<1>0. fence \in Hash /\ (settings # None => settings \in Shown)
  BY CountAssumption DEF TypeHash, FenceType, SettingsType, Hash, Shown, Incarnations
<1>t. /\ \A v \in Owned : v.inc \in Nat /\ v.rev \in Nat /\ v.lc \in BOOLEAN
      /\ \A m \in bus : IsDeletion(m) => m.deleted \in Nat
  BY CopiesAreHeld, Messages DEF TypeCopies, Snapshots, Incarnations, Revisions
<1>5. arriving \subseteq Owned /\ restored \subseteq Owned /\ replies \subseteq Owned
  BY CopiesAreHeld DEF HeldIn
<1>1. ASSUME NEW v \in arriving, RestoreAccount(v) PROVE UNCHANGED hashVars \/ Taken(v)
  BY <1>1, Zenon DEF RestoreAccount, Taken
<1>2. ASSUME NEW v \in restored, SetUser(v) PROVE UNCHANGED hashVars \/ Written(v)
  BY <1>0, <1>t, <1>5, <1>2, Raising, Zenon DEF SetUser, Written
<1>3. ASSUME NEW v \in replies, SetLifecycle(v) PROVE UNCHANGED hashVars \/ Stamped(v)
  <2>1. CASE ~(~fence.deleted /\ fence.inc \in {0, v.inc} /\ v.rev >= fence.rev)
    BY <1>3, <2>1, Zenon DEF SetLifecycle
  <2>2. CASE ~fence.deleted /\ fence.inc \in {0, v.inc} /\ v.rev >= fence.rev
    <3>1. fence' = [inc |-> v.inc, rev |-> v.rev, deleted |-> fence.deleted]
      BY <1>0, <1>t, <1>5, <1>3, <2>2, Stamping, Zenon DEF SetLifecycle, LifecycleFence
    <3>2. CASE settings = None
      BY <1>3, <2>2, <3>1, <3>2, Zenon DEF SetLifecycle, Stamped
    <3>3. CASE settings # None
      <4>1. settings' = [inc |-> v.inc, lc |-> v.lc, full |-> settings.full]
        BY <1>0, <1>t, <1>5, <1>3, <2>2, <3>3, Relabelling, Zenon DEF SetLifecycle
      <4> QED BY <2>2, <3>1, <3>3, <4>1, Zenon DEF Stamped
    <3> QED BY <3>2, <3>3
  <2> QED BY <2>1, <2>2
<1>4. ASSUME NEW m \in bus, NEW again \in BOOLEAN, FoldDeleted(m, again)
      PROVE  UNCHANGED hashVars \/ (IsDeletion(m) /\ Retired(m))
  BY <1>0, <1>t, <1>5, <1>4, Retiring, Zenon DEF FoldDeleted, Retired
<1>6. \/ UNCHANGED hashVars \/ SettingsExpire
      \/ \E v \in arriving : RestoreAccount(v)
      \/ \E v \in restored : SetUser(v)
      \/ \E v \in replies : SetLifecycle(v)
      \/ \E m \in bus, again \in BOOLEAN : FoldDeleted(m, again)
  BY Zenon DEF Next, vars, Commit, Register, Delete, Update, CommitLifecycle, Committed,
     PublisherStep, Invalidate, Publish, FindNothing, Clear, Erase, PublishDeleted, Sweep, Replay, EraseRestored, WindowMissed,
     ReplayErasure, CacheStep, StartLoad, StoreView, ViewExpires, HashStep, FoldStep,
     FoldChanged, Crash, LoadOwner, Reply, hashVars
<1>7. SettingsExpire => fence' = fence /\ settings' = None
  BY DEF SettingsExpire
<1>8. UNCHANGED hashVars => fence' = fence /\ settings' = settings
  BY DEF hashVars
<1> QED BY <1>1, <1>2, <1>3, <1>4, <1>5, <1>6, <1>7, <1>8

LEMMA FaultsStep == faults \in 0 .. MaxFaults /\ [Next]_vars => faults' \in 0 .. MaxFaults
<1> SUFFICES ASSUME faults \in 0 .. MaxFaults, [Next]_vars PROVE faults' \in 0 .. MaxFaults
  OBVIOUS
<1>1. faults' = faults \/ Fault
  BY Zenon DEF Next, vars, Commit, Register, Delete, Update, CommitLifecycle, Committed,
     PublisherStep, Invalidate, Publish, FindNothing, Clear, Erase, PublishDeleted, Sweep, Replay, EraseRestored, WindowMissed,
     ReplayErasure, CacheStep, StartLoad, StoreView, ViewExpires, HashStep, RestoreAccount,
     SetUser, SetLifecycle, FoldStep, FoldChanged, FoldDeleted, Crash, LoadOwner, Reply,
     SettingsExpire, Handled
<1> QED BY <1>1, CountAssumption DEF Fault

LEMMA HashTypeStep ==
  ASSUME TypeHash, TypeCopies, [Next]_vars
  PROVE  TypeHash'
<1> USE DEF FenceType, SettingsType, Incarnations, Revisions
<1> USE CountAssumption
<1>0. fence \in FenceType /\ settings \in SettingsType \cup {None} /\ faults' \in 0 .. MaxFaults
  BY FaultsStep DEF TypeHash
<1>1. \A v \in Owned : v \in Snapshots
  BY CopiesAreHeld
<1>2. ASSUME NEW v \in Owned, Taken(v) \/ Written(v) \/ Stamped(v)
      PROVE  fence' \in FenceType /\ settings' \in SettingsType \cup {None}
  <2>1. v.inc \in Incarnations /\ v.rev \in Revisions /\ v.lc \in BOOLEAN
    BY <1>1 DEF Snapshots
  <2>2. CASE Taken(v)
    BY <2>1, <2>2 DEF Taken
  <2>3. CASE Written(v)
    BY <1>0, <2>1, <2>3 DEF Written
  <2>4. CASE Stamped(v)
    <3>1. fence' \in FenceType
      BY <1>0, <2>1, <2>4 DEF Stamped
    <3>2. CASE settings' = [inc |-> v.inc, lc |-> v.lc, full |-> FALSE]
      BY <2>1, <3>1, <3>2
    <3>3. CASE settings' = [inc |-> v.inc, lc |-> v.lc, full |-> settings.full]
               /\ settings # None
      <4>1. settings \in SettingsType
        BY <1>0, <3>3, Zenon
      <4>2. settings.full \in BOOLEAN
        BY <4>1
      <4> QED BY <2>1, <3>1, <3>3, <4>2
    <3> QED BY <2>4, <3>2, <3>3 DEF Stamped
  <2> QED BY <1>2, <2>2, <2>3, <2>4
<1>3. ASSUME NEW m \in bus, IsDeletion(m), Retired(m)
      PROVE  fence' \in FenceType /\ settings' \in SettingsType \cup {None}
  <2>1. m.deleted \in Incarnations
    BY <1>3, Messages DEF TypeCopies
  <2> QED BY <1>0, <1>3, <2>1 DEF Retired
<1>4. fence' \in FenceType /\ settings' \in SettingsType \cup {None}
  BY <1>0, <1>2, <1>3, HashMoves
<1> QED BY <1>0, <1>4 DEF TypeHash

LEMMA TypeStep == TypeOK /\ [Next]_vars => TypeOK'
<1> SUFFICES ASSUME TypeOK, [Next]_vars PROVE TypeOK'
  OBVIOUS
<1>1. TypeRow /\ TypeLedger /\ TypeFlags /\ TypeCopies /\ TypePublishers /\ TypeHash
  BY Parts
<1>2. TypeRow' /\ TypeLedger' /\ row' \in Snapshots \cup {None}
  BY <1>1, TypeRowStep, LedgerTypeStep DEF TypeCopies
<1>3. TypeCopies'
  BY <1>1, <1>2, TypeCopiesStep
<1>4. TypeFlags' /\ TypePublishers' /\ TypeHash'
  BY <1>1, <1>2, FlagsStep, PublishersStep, HashTypeStep
<1> QED BY <1>2, <1>3, <1>4
   DEF TypeOK, TypeRow, TypeLedger, TypeFlags, TypeCopies, TypePublishers, TypeHash,
       PublisherType, FenceType, SettingsType

\* Rows, caches, publications, messages and the fence hold what their code
\* writes: incarnations and revisions within range (commitLifecycle, RestoreAccount).
THEOREM TypeCorrect == Spec => []TypeOK
BY TypeInit, TypeStep, PTL DEF Spec

LEMMA FenceStep == TypeOK /\ [Next]_vars => [Newer(fence', fence)]_fence
<1> SUFFICES ASSUME TypeOK, [Next]_vars PROVE fence' = fence \/ Newer(fence', fence)
  OBVIOUS
<1>1. fence \in FenceType /\ TypeCopies /\ TypeHash
  BY Parts DEF TypeHash
<1>2. \A v \in Owned : v.inc \in Incarnations /\ v.rev \in Revisions
  BY <1>1, CopiesAreHeld DEF Snapshots
<1>3. ASSUME NEW v \in Owned, Taken(v) \/ Written(v) \/ Stamped(v) PROVE Newer(fence', fence)
  BY <1>1, <1>2, <1>3 DEF Taken, Written, Stamped, Admits, Newer, FenceType, Incarnations,
     Revisions
<1>4. ASSUME NEW m \in bus, IsDeletion(m), Retired(m) PROVE Newer(fence', fence)
  <2>1. m.deleted \in Incarnations
    BY <1>1, <1>4, Messages DEF TypeCopies
  <2> QED BY <1>1, <1>4, <2>1 DEF Retired, Newer, FenceType, Incarnations
<1> QED BY <1>1, <1>3, <1>4, HashMoves

\* The fence never goes back (RestoreAccount, DeleteAccount and the gate scripts).
THEOREM FenceNeverBack == Spec => FenceAdvances
<1>1. TypeOK /\ [Next]_vars => [Newer(fence', fence)]_fence
  BY FenceStep
<1> QED BY <1>1, TypeCorrect, PTL DEF Spec, FenceAdvances

-----------------------------------------------------------------------------
(* What the projection shows was said by the row.                           *)

\* A snapshot the row has been, at the revision it carries.
Truthful(v) == /\ v.inc <= registered /\ v.lc = admits[v.inc][v.rev]
               /\ row # None /\ v.inc = row.inc => v.rev <= row.rev

CopiesTruthful == \A v \in Owned : Truthful(v)

\* A record is of a registration there has been.
LedgerTruthful == \A i \in Incarnations : ledger[i] # "none" => i <= registered

\* A deletion is told of an incarnation that is gone.
Gone(i) == i <= registered /\ (row # None => i < row.inc)

DeletionsTruthful ==
    /\ \A m \in bus : IsDeletion(m) => Gone(m.deleted)
    /\ \A w \in publishers : w.at = "retire" => Gone(w.inc)

FenceTruthful == /\ fence.inc <= registered
                 /\ row # None /\ fence.inc = row.inc => fence.rev <= row.rev

SettingsTruthful ==
    settings # None =>
        /\ settings.inc = fence.inc /\ ~fence.deleted
        /\ fence.inc \in Incarnations /\ fence.rev \in Revisions
        /\ settings.lc = admits[fence.inc][fence.rev]

LEMMA RowMoves ==
  ASSUME TypeRow, TypeCopies, [Next]_vars
  PROVE  \/ UNCHANGED <<row, registered, admits>>
         \/ /\ row = None /\ registered' = registered + 1
            /\ row' \in Snapshots /\ row'.inc = registered + 1 /\ row'.rev = 1
            /\ admits' = [admits EXCEPT ![row'.inc][row'.rev] = row'.lc]
         \/ /\ row \in Snapshots /\ registered' = registered
            /\ row' \in Snapshots /\ row'.inc = row.inc /\ row'.rev = row.rev + 1
            /\ admits' = [admits EXCEPT ![row'.inc][row'.rev] = row'.lc]
         \/ row \in Snapshots /\ row' = None /\ UNCHANGED <<registered, admits>>
<1> USE CountAssumption, NoneAssumption
<1>0. row \in Snapshots \cup {None}
  BY DEF TypeCopies
<1>1. CASE UNCHANGED <<row, registered, lifecycleRev, admits>>
  BY <1>1
<1>2. CASE /\ row = None /\ registered < MaxIncarnation /\ registered' = registered + 1
           /\ lifecycleRev' = 0
           /\ row' = [inc |-> registered + 1, rev |-> 1, lc |-> TRUE]
           /\ admits' = [admits EXCEPT ![row'.inc][row'.rev] = row'.lc]
  <2>1. row' \in Snapshots /\ row'.inc = registered + 1 /\ row'.rev = 1
    BY <1>2 DEF TypeRow, Snapshots, Incarnations, Revisions
  <2> QED BY <1>2, <2>1, Zenon
<1>3. CASE /\ row # None /\ row.rev < MaxRevision /\ registered' = registered
           /\ lifecycleRev' \in {lifecycleRev, row.rev + 1}
           /\ \/ \E b \in BOOLEAN : row' = [row EXCEPT !.rev = @ + 1, !.lc = b]
              \/ row' = [row EXCEPT !.rev = @ + 1]
           /\ admits' = [admits EXCEPT ![row'.inc][row'.rev] = row'.lc]
  <2>1. row # None /\ row.rev < MaxRevision
    BY <1>3, Zenon
  <2>2. row \in Snapshots /\ row.rev \in Revisions
    BY <1>0, <2>1 DEF Snapshots
  <2>3. row.rev + 1 \in Revisions
    BY <2>1, <2>2 DEF Revisions
  <2>4. CASE \E b \in BOOLEAN : row' = [row EXCEPT !.rev = @ + 1, !.lc = b]
    <3>1. row' \in Snapshots /\ row'.inc = row.inc /\ row'.rev = row.rev + 1
      BY <2>2, <2>3, <2>4 DEF Snapshots
    <3> QED BY <1>3, <2>2, <3>1, Zenon
  <2>5. CASE row' = [row EXCEPT !.rev = @ + 1]
    <3>1. row' \in Snapshots /\ row'.inc = row.inc /\ row'.rev = row.rev + 1
      BY <2>2, <2>3, <2>5 DEF Snapshots
    <3> QED BY <1>3, <2>2, <3>1, Zenon
  <2> QED BY <1>3, <2>4, <2>5, Zenon
<1>4. CASE row # None /\ row' = None /\ lifecycleRev' = 0 /\ UNCHANGED <<registered, admits>>
  BY <1>0, <1>4
<1> QED BY <1>1, <1>2, <1>3, <1>4, RowStep

\* What was true of a revision stays true, and the new one is true.
LEMMA TruthStep ==
  ASSUME TypeRow, TypeCopies, CopiesTruthful, [Next]_vars,
         NEW v \in Snapshots, Truthful(v) \/ v = row'
  PROVE  Truthful(v)'
<1>0. /\ v.inc \in Incarnations /\ v.rev \in Revisions
      /\ registered \in Nat /\ admits \in [Incarnations -> [Revisions -> BOOLEAN]]
      /\ row \in Snapshots => row # None /\ row.inc = registered /\ row.rev \in Revisions
  BY CountAssumption, NoneAssumption DEF TypeRow, Snapshots
<1> USE DEF Truthful, Incarnations, Revisions
<1>a. ASSUME NEW a \in Snapshots, admits' = [admits EXCEPT ![a.inc][a.rev] = a.lc]
      PROVE  /\ admits'[a.inc][a.rev] = a.lc
             /\ v.inc # a.inc \/ v.rev # a.rev => admits'[v.inc][v.rev] = admits[v.inc][v.rev]
  <2>1. a.inc \in Incarnations /\ a.rev \in Revisions
    BY DEF Snapshots
  <2>2. admits'[a.inc][a.rev] = a.lc
    BY <1>0, <1>a, <2>1
  <2>3. v.inc # a.inc \/ v.rev # a.rev => admits'[v.inc][v.rev] = admits[v.inc][v.rev]
    BY <1>0, <1>a, <2>1
  <2> QED BY <2>2, <2>3
<1>1. CASE UNCHANGED <<row, registered, admits>>
  <2>1. Truthful(v)
    BY <1>1, CopiesAreHeld, NoneAssumption DEF CopiesTruthful
  <2> QED BY <1>1, <2>1
<1>2. CASE /\ row = None /\ registered' = registered + 1
           /\ row' \in Snapshots /\ row'.inc = registered + 1 /\ row'.rev = 1
           /\ admits' = [admits EXCEPT ![row'.inc][row'.rev] = row'.lc]
  <2>1. v.lc = admits'[v.inc][v.rev]
    <3>1. CASE v = row'
      BY <1>2, <1>a, <3>1, Zenon
    <3>2. CASE v # row'
      <4>1. v.inc # row'.inc /\ v.lc = admits[v.inc][v.rev]
        BY <1>0, <1>2, <3>2
      <4> QED BY <1>2, <1>a, <4>1, Zenon
    <3> QED BY <3>1, <3>2
  <2>2. v.inc <= registered' /\ (row' # None /\ v.inc = row'.inc => v.rev <= row'.rev)
    BY <1>0, <1>2
  <2> QED BY <2>1, <2>2
<1>3. CASE /\ row \in Snapshots /\ registered' = registered
           /\ row' \in Snapshots /\ row'.inc = row.inc /\ row'.rev = row.rev + 1
           /\ admits' = [admits EXCEPT ![row'.inc][row'.rev] = row'.lc]
  <2>1. v.lc = admits'[v.inc][v.rev]
    <3>1. CASE v = row'
      BY <1>3, <1>a, <3>1, Zenon
    <3>2. CASE v # row'
      <4>1. (v.inc # row'.inc \/ v.rev # row'.rev) /\ v.lc = admits[v.inc][v.rev]
        BY <1>0, <1>3, <3>2
      <4> QED BY <1>3, <1>a, <4>1, Zenon
    <3> QED BY <3>1, <3>2
  <2>2. v.inc <= registered' /\ (row' # None /\ v.inc = row'.inc => v.rev <= row'.rev)
    BY <1>0, <1>3
  <2> QED BY <2>1, <2>2
<1>4. CASE row \in Snapshots /\ row' = None /\ UNCHANGED <<registered, admits>>
  BY <1>0, <1>4, NoneAssumption
<1> QED BY <1>1, <1>2, <1>3, <1>4, RowMoves

LEMMA CopiesTruthfulStep ==
  ASSUME TypeOK, CopiesTruthful, [Next]_vars
  PROVE  CopiesTruthful'
<1>1. TypeRow /\ TypeCopies /\ TypePublishers
  BY Parts
<1>2. Copies' \subseteq Owned \cup Deletions \cup {row', None}
  BY <1>1, TypeRowStep, TypeCopiesStep DEF TypeCopies
<1>3. ASSUME NEW v \in Owned' PROVE Truthful(v)'
  <2>1. v \in Snapshots /\ (v \in Owned \/ v = row')
    BY <1>2, Messages, NoneAssumption DEF Owned
  <2>2. Truthful(v) \/ v = row'
    BY <2>1 DEF CopiesTruthful
  <2> QED BY <1>1, <2>1, <2>2, TruthStep
<1> QED BY <1>3 DEF CopiesTruthful

LEMMA GoneStep ==
  ASSUME TypeRow, TypeCopies, [Next]_vars, NEW i \in Nat, Gone(i)
  PROVE  Gone(i)'
<1>0. registered \in Nat /\ (row \in Snapshots => row # None /\ row.inc = registered)
  BY CountAssumption, NoneAssumption DEF TypeRow
<1> QED BY <1>0, RowMoves, NoneAssumption DEF Gone, Snapshots

LEMMA LedgerTruthfulStep ==
  ASSUME TypeOK, LedgerTruthful, [Next]_vars
  PROVE  LedgerTruthful'
<1>0. TypeRow /\ TypeLedger /\ TypeCopies /\ registered \in Nat
  BY Parts, CountAssumption DEF TypeRow
<1>1. registered' \in Nat /\ registered' >= registered
  BY <1>0, RowMoves
<1>2. row # None => row.inc = registered
  BY <1>0 DEF TypeRow
<1>3. ASSUME NEW i \in Incarnations, ledger'[i] # "none" PROVE i <= registered'
  <2>1. i \in Nat
    BY DEF Incarnations
  <2>2. i <= registered
    <3>1. ledger[i] # "none" => i <= registered
      BY DEF LedgerTruthful
    <3>2. ASSUME NEW j \in Incarnations, NEW r, ledger' = [ledger EXCEPT ![j] = r], i # j
          PROVE  ledger'[i] = ledger[i]
      BY <1>0, <3>2 DEF TypeLedger
    <3>3. ledger[i] # "none" \/ i = registered
      <4>1. CASE ledger' = ledger
        BY <1>3, <4>1
      <4>2. ASSUME NEW j \in Incarnations, NEW r \in {"told", "missed"},
                   ledger[j] # "none", ledger' = [ledger EXCEPT ![j] = r]
            PROVE  ledger[i] # "none"
        BY <1>3, <3>2, <4>2
      <4>3. CASE row # None /\ ledger' = [ledger EXCEPT ![row.inc] = "open"]
        <5>1. row.inc \in Incarnations
          BY <1>0, <4>3 DEF TypeCopies, Snapshots
        <5> QED BY <1>2, <1>3, <3>2, <4>3, <5>1
      <4> QED BY <4>1, <4>2, <4>3, LedgerMoves
    <3> QED BY <2>1, <1>0, <3>1, <3>3
  <2> QED BY <1>0, <1>1, <2>1, <2>2
<1> QED BY <1>3 DEF LedgerTruthful

LEMMA DeletionsStep ==
  ASSUME TypeOK, LedgerTruthful, DeletionsTruthful, [Next]_vars
  PROVE  DeletionsTruthful'
<1>0. TypeRow /\ TypeCopies /\ TypePublishers /\ registered \in Nat
  BY Parts, CountAssumption DEF TypeRow
<1>1. \A i \in Nat : Gone(i) => Gone(i)'
  BY <1>0, GoneStep
<1>2. /\ \A m \in bus : IsDeletion(m) => m.deleted \in Nat
      /\ \A w \in publishers : w.inc \in Nat
  BY <1>0, Messages DEF TypeCopies, TypePublishers, PublisherType, Incarnations
<1>3. \A m \in bus' : IsDeletion(m) =>
         \/ m \in bus
         \/ \E w \in publishers : w.at = "retire" /\ m = [deleted |-> w.inc]
         \/ \E i \in Incarnations : Tellable(i) /\ m = [deleted |-> i]
  <2>1. \A p \in Pods : Seen(p) # None => Seen(p) \in Snapshots
    BY <1>0 DEF TypeCopies, Seen
  <2>2. \A w \in publishers : w.pod \in Pods
    BY <1>0 DEF TypePublishers, PublisherType
  <2>3. \/ bus' \subseteq bus
        \/ \E w \in publishers : Seen(w.pod) # None /\ bus' = bus \cup {Seen(w.pod)}
        \/ \E w \in publishers : w.at = "retire" /\ bus' = bus \cup {[deleted |-> w.inc]}
        \/ \E i \in Incarnations : Tellable(i) /\ bus' = bus \cup {[deleted |-> i]}
    <3>1. \/ bus' = bus \/ (\E m \in bus : bus' = bus \ {m})
          \/ \E w \in publishers : Publish(w) \/ PublishDeleted(w)
          \/ \E i \in Incarnations : ReplayErasure(i)
      BY Zenon DEF Next, vars, Commit, Register, Delete, Update, CommitLifecycle, Committed,
         PublisherStep, Invalidate, FindNothing, Clear, Erase, Sweep, Replay, EraseRestored, WindowMissed, CacheStep, StartLoad,
         StoreView, ViewExpires, HashStep, RestoreAccount, SetUser, SetLifecycle, FoldStep,
         FoldChanged, FoldDeleted, Crash, LoadOwner, Reply, SettingsExpire, Handled, podVars
    <3>2. ASSUME NEW w \in publishers, Publish(w)
          PROVE  Seen(w.pod) # None /\ bus' = bus \cup {Seen(w.pod)}
      BY <3>2, Zenon DEF Publish
    <3>3. ASSUME NEW w \in publishers, PublishDeleted(w)
          PROVE  w.at = "retire" /\ bus' = bus \cup {[deleted |-> w.inc]}
      BY <3>3, Zenon DEF PublishDeleted
    <3>4. ASSUME NEW i \in Incarnations, ReplayErasure(i)
          PROVE  Tellable(i) /\ bus' = bus \cup {[deleted |-> i]}
      BY <3>4, Zenon DEF ReplayErasure
    <3> QED BY <3>1, <3>2, <3>3, <3>4
  <2> HIDE DEF Seen
  <2> QED BY <2>1, <2>2, <2>3, Messages
<1>4. \A i \in Incarnations : i \in Nat /\ (Tellable(i) => Gone(i))
  <2>1. row # None => row.inc \in Nat
    BY <1>0 DEF TypeCopies, Snapshots, Incarnations
  <2> QED BY <1>0, <2>1 DEF Tellable, Gone, LedgerTruthful, Incarnations
<1>5. ASSUME NEW m \in bus', IsDeletion(m) PROVE Gone(m.deleted)'
  <2>1. m.deleted \in Nat /\ Gone(m.deleted)
    BY <1>2, <1>3, <1>4, <1>5 DEF DeletionsTruthful
  <2> QED BY <1>1, <2>1
<1>6. ASSUME NEW w \in publishers', w.at = "retire" PROVE Gone(w.inc)'
  <2>1. CASE w \in publishers
    BY <1>1, <1>2, <1>6, <2>1 DEF DeletionsTruthful
  <2>2. CASE w \notin publishers
    <3>1. PICK u \in publishers : Erase(u) /\ w = [u EXCEPT !.at = "retire"]
      <4>1. \A q, snapshot, outbox : Publisher(q, snapshot, outbox, "invalidate").at # "retire"
        BY DEF Publisher
      <4>2. \A u \in publishers, stage \in {"publish", "clear"} :
               [u EXCEPT !.at = stage].at # "retire"
        BY <1>0 DEF TypePublishers, PublisherType
      <4>3. \/ publishers' \subseteq publishers
            \/ \E q, snapshot, outbox :
                  publishers' = publishers \cup {Publisher(q, snapshot, outbox, "invalidate")}
            \/ \E q \in Pods : row # None /\ publishers' = publishers \cup {Eraser(q)}
            \/ \E u \in publishers, stage \in {"publish", "clear"} :
                  publishers' = (publishers \ {u}) \cup {[u EXCEPT !.at = stage]}
            \/ \E u \in publishers :
                  Erase(u) /\ publishers' = (publishers \ {u}) \cup {[u EXCEPT !.at = "retire"]}
        BY Zenon DEF Next, vars, Commit, Register, Delete, Update, CommitLifecycle, Committed,
           PublisherStep, Invalidate, Publish, FindNothing, Clear, Erase, PublishDeleted, Sweep,
           Replay, EraseRestored, WindowMissed, ReplayErasure, CacheStep, StartLoad, StoreView,
           ViewExpires, HashStep, RestoreAccount, SetUser, SetLifecycle, FoldStep, FoldChanged,
           FoldDeleted, Crash, LoadOwner, Reply, SettingsExpire, podVars, Advance
      <4>4. ASSUME NEW x, x.at # "retire", publishers' \subseteq publishers \cup {x}
            PROVE  FALSE
        BY <1>6, <2>2, <4>4
      <4>5. ASSUME NEW q, NEW snapshot, NEW outbox,
                   publishers' = publishers \cup {Publisher(q, snapshot, outbox, "invalidate")}
            PROVE  FALSE
        BY <4>1, <4>4, <4>5
      <4>6. ASSUME NEW u \in publishers, NEW stage \in {"publish", "clear"},
                   publishers' = (publishers \ {u}) \cup {[u EXCEPT !.at = stage]}
            PROVE  FALSE
        <5> DEFINE x == [u EXCEPT !.at = stage]
        <5>1. x.at # "retire"
          BY <4>2
        <5>2. publishers' \subseteq publishers \cup {x}
          BY <4>6
        <5> QED BY <4>4, <5>1, <5>2
      <4>7. ASSUME NEW q \in Pods, row # None, publishers' = publishers \cup {Eraser(q)}
            PROVE  FALSE
        <5>1. Eraser(q).at # "retire"
          BY <1>0, <4>7, Erasers DEF TypeCopies
        <5> QED BY <4>4, <4>7, <5>1
      <4>8. ~(publishers' \subseteq publishers)
        BY <1>6, <2>2
      <4>9. PICK u \in publishers :
               Erase(u) /\ publishers' = (publishers \ {u}) \cup {[u EXCEPT !.at = "retire"]}
        BY <4>3, <4>5, <4>6, <4>7, <4>8, Zenon
      <4> QED BY <1>6, <2>2, <4>9
    <3>2. w.inc = u.inc
      BY <1>0, <3>1 DEF TypePublishers, PublisherType
    <3>3. u.inc = row.inc /\ row # None /\ row' = None /\ registered' = registered
      BY <3>1 DEF Erase
    <3> QED BY <1>0, <3>2, <3>3 DEF Gone, TypeRow
  <2> QED BY <2>1, <2>2
<1> QED BY <1>5, <1>6 DEF DeletionsTruthful

LEMMA HashTruthfulStep ==
  ASSUME TypeOK, CopiesTruthful, DeletionsTruthful, FenceTruthful, SettingsTruthful, [Next]_vars
  PROVE  FenceTruthful' /\ SettingsTruthful'
<1>0. TypeRow /\ TypeCopies /\ TypeHash /\ registered \in Nat
      /\ fence.inc \in Nat /\ fence.rev \in Nat /\ Owned \subseteq Snapshots
  BY Parts, CopiesAreHeld, CountAssumption DEF TypeRow, TypeHash, FenceType
<1>1. CASE fence' = fence /\ (settings' = settings \/ settings' = None)
  <2>1. FenceTruthful'
    <3>1. row \in Snapshots => row # None /\ row.inc = registered /\ row.rev \in Nat
      BY <1>0, NoneAssumption DEF TypeRow, Snapshots, Revisions
    <3> QED BY <1>0, <1>1, <3>1, RowMoves, NoneAssumption DEF FenceTruthful
  <2>2. CASE settings' = settings /\ settings # None
    <3> DEFINE v == [inc |-> fence.inc, rev |-> fence.rev, lc |-> settings.lc]
    <3>1. v \in Snapshots
      BY <1>0, <2>2 DEF SettingsTruthful, Snapshots, TypeHash, SettingsType
    <3>2. /\ v.inc = fence.inc /\ v.rev = fence.rev /\ v.lc = settings.lc
      OBVIOUS
    <3>3. Truthful(v)
      BY <2>2, <3>2, Zenon DEF SettingsTruthful, FenceTruthful, Truthful
    <3> HIDE DEF v
    <3>4. \A x \in Snapshots : Truthful(x) => Truthful(x)'
      BY <1>0, TruthStep
    <3>5. v.lc = admits'[v.inc][v.rev]
      BY <3>1, <3>3, <3>4 DEF Truthful
    <3>6. settings'.lc = admits'[fence'.inc][fence'.rev]
      BY <1>1, <2>2, <3>2, <3>5, Zenon
    <3>7. /\ settings'.inc = fence'.inc /\ ~fence'.deleted
          /\ fence'.inc \in Incarnations /\ fence'.rev \in Revisions
      BY <1>1, <2>2, Zenon DEF SettingsTruthful
    <3> QED BY <2>1, <3>6, <3>7, Zenon DEF SettingsTruthful
  <2>3. CASE settings' = None
    BY <2>1, <2>3 DEF SettingsTruthful
  <2>4. CASE settings' = settings /\ settings = None
    BY <2>1, <2>4 DEF SettingsTruthful
  <2> QED BY <1>1, <2>2, <2>3, <2>4
<1>2. ASSUME NEW v \in Owned, Taken(v) \/ Written(v) \/ Stamped(v)
      PROVE  FenceTruthful' /\ SettingsTruthful'
  <2>1. v.inc \in Incarnations /\ v.rev \in Revisions
    BY <1>0 DEF Snapshots
  <2>2. Truthful(v)'
    <3>1. Truthful(v) /\ v \in Snapshots
      BY <1>0 DEF CopiesTruthful
    <3> QED BY <1>0, <3>1, TruthStep
  <2>3. CASE Taken(v)
    <3>1. row' \in Snapshots => row'.rev \in Nat
      BY DEF Snapshots, Revisions
    <3>2. row' \in Snapshots \cup {None}
      BY <1>0, TypeRowStep DEF TypeCopies
    <3>3. fence'.inc = v.inc /\ fence'.rev = 0 /\ settings' = None
      BY <2>3 DEF Taken
    <3> QED BY <2>2, <3>1, <3>2, <3>3 DEF FenceTruthful, SettingsTruthful, Truthful
  <2>4. CASE Written(v) \/ Stamped(v)
    <3>1. fence'.inc = v.inc /\ fence'.rev = v.rev /\ settings'.inc = v.inc
      BY <2>4 DEF Written, Stamped, Admits
    <3>2. ~fence'.deleted
      BY <2>4 DEF Written, Stamped, Admits
    <3>3. settings'.lc = v.lc
      BY <2>4 DEF Written, Stamped
    <3>4. FenceTruthful'
      BY <2>2, <3>1, Zenon DEF FenceTruthful, Truthful
    <3>5. settings'.lc = admits'[fence'.inc][fence'.rev]
      BY <2>2, <3>1, <3>3, Zenon DEF Truthful
    <3> QED BY <2>1, <3>1, <3>2, <3>4, <3>5, Zenon DEF SettingsTruthful
  <2> QED BY <1>2, <2>3, <2>4
<1>3. ASSUME NEW m \in bus, IsDeletion(m), Retired(m)
      PROVE  FenceTruthful' /\ SettingsTruthful'
  <2>1. m.deleted \in Nat /\ Gone(m.deleted)
    BY <1>0, <1>3, Messages DEF DeletionsTruthful, TypeCopies, Incarnations
  <2>2. Gone(m.deleted)'
    BY <1>0, <2>1, GoneStep
  <2>3. fence'.inc = m.deleted /\ settings' = None
    BY <1>3 DEF Retired
  <2>4. row' # None => m.deleted # row'.inc
    <3>1. row' # None => row'.inc \in Nat
      BY <1>0, TypeRowStep DEF TypeCopies, Snapshots, Incarnations
    <3> QED BY <2>1, <2>2, <3>1 DEF Gone
  <2> QED BY <2>2, <2>3, <2>4 DEF Gone, FenceTruthful, SettingsTruthful
<1> QED BY <1>0, <1>1, <1>2, <1>3, HashMoves

ProjectionInv == /\ TypeOK /\ CopiesTruthful /\ LedgerTruthful /\ DeletionsTruthful
                 /\ FenceTruthful /\ SettingsTruthful

LEMMA ProjectionInit == Init => ProjectionInv
<1> SUFFICES ASSUME Init PROVE ProjectionInv
  OBVIOUS
<1>1. Owned = {}
  BY NoneAssumption DEF Init, Owned, Copies
<1> QED BY <1>1, TypeInit DEF Init, ProjectionInv, CopiesTruthful, LedgerTruthful,
   DeletionsTruthful, FenceTruthful, SettingsTruthful

LEMMA ProjectionAlways == Spec => []ProjectionInv
<1>1. ProjectionInv /\ [Next]_vars => ProjectionInv'
  BY TypeStep, CopiesTruthfulStep, LedgerTruthfulStep, DeletionsStep, HashTruthfulStep
     DEF ProjectionInv
<1> QED BY <1>1, ProjectionInit, PTL DEF Spec

\* A retired incarnation has no settings (RestoreAccount and both gate scripts).
THEOREM RetiredHasNothing == Spec => []RetiredStaysRetired
<1>1. ProjectionInv => RetiredStaysRetired
  BY Zenon DEF ProjectionInv, SettingsTruthful, RetiredStaysRetired
<1> QED BY <1>1, ProjectionAlways, PTL

\* Admission is what the row said at the revision of the fence, whoever wrote it
\* last (hashRevisionGateUser, hashRevisionGateRuntime).
THEOREM AdmissionFollowsTheRow == Spec => []AdmissionOfRevision
<1>1. ProjectionInv => AdmissionOfRevision
  BY Zenon DEF ProjectionInv, SettingsTruthful, AdmissionOfRevision
<1> QED BY <1>1, ProjectionAlways, PTL

-----------------------------------------------------------------------------
(* What the outbox flag promises.                                           *)

\* Snapshots on their way to the fence.
Told == {m \in bus : ~IsDeletion(m)} \cup arriving \cup restored

Arrived == \/ fence.inc = row.inc /\ fence.rev >= lifecycleRev
           \/ \E v \in Told : Reaches(v)

\* A publication is for a revision the row has had, the last lifecycle commit too.
PublishersTruthful ==
    \A w \in publishers : /\ w.inc <= registered
                          /\ row # None /\ w.inc = row.inc => w.rev <= row.rev
LifecycleTruthful == row # None => lifecycleRev <= row.rev

\* Only a lost incarnation is retired, and a snapshot past RestoreAccount is not
\* ahead of the fence.
FenceGone == fence.deleted => Gone(fence.inc)
RestoredFenced == \A v \in restored : v.inc <= fence.inc

\* The publication saw the last lifecycle commit.
Current(w) == row # None /\ w.inc = row.inc /\ w.rev >= lifecycleRev

\* Between Invalidate and Publish such a publication finds nothing older than
\* that commit in its pod's cache; by Clear it has told somebody of it.
Underway ==
    ~refilled =>
        \A w \in publishers : Current(w) =>
            /\ w.at = "publish" => views[w.pod] = None \/ Reaches(views[w.pod])
            /\ w.at = "clear" => Arrived

OutboxInv == /\ ProjectionInv /\ PublishersTruthful /\ LifecycleTruthful
             /\ FenceGone /\ RestoredFenced /\ Underway /\ ClearedWasPublished

\* What a step may do to the publications.
LEMMA PublisherMoves ==
  ASSUME TypeRow, TypeCopies, [Next]_vars
  PROVE  \/ publishers' \subseteq publishers
         \/ \E p \in Pods, outbox \in BOOLEAN :
               /\ row' \in Snapshots
               /\ publishers' = publishers \cup {Publisher(p, row', outbox, "invalidate")}
         \/ \E p \in Pods : /\ row \in Snapshots /\ row' = row
                            /\ publishers' = publishers \cup {Eraser(p)}
         \/ \E u \in publishers :
               \/ Erase(u) /\ publishers' = (publishers \ {u}) \cup {[u EXCEPT !.at = "retire"]}
               \/ Invalidate(u) /\ publishers' = (publishers \ {u}) \cup {[u EXCEPT !.at = "publish"]}
               \/ Publish(u) /\ publishers' = (publishers \ {u}) \cup {[u EXCEPT !.at = "clear"]}
<1>1. ASSUME NEW p \in Pods, Register(p) \/ Update(p) \/ \E b \in BOOLEAN : CommitLifecycle(p, b)
      PROVE  \E outbox \in BOOLEAN :
                publishers' = publishers \cup {Publisher(p, row', outbox, "invalidate")}
  BY <1>1, Zenon DEF Register, Update, CommitLifecycle, Committed
<1>2. ASSUME NEW p \in Pods, Replay(p)
      PROVE  /\ row' \in Snapshots
             /\ publishers' = publishers \cup {Publisher(p, row', TRUE, "invalidate")}
  <2>1. row' = row /\ row # None
    BY <1>2, Zenon DEF Replay, ProjectionDue, rowVars
  <2>2. publishers' = publishers \cup {Publisher(p, row, TRUE, "invalidate")}
    BY <1>2, Zenon DEF Replay
  <2> QED BY <2>1, <2>2, Zenon DEF TypeCopies
<1>3. ASSUME NEW p \in Pods, Register(p) \/ Update(p) \/ \E b \in BOOLEAN : CommitLifecycle(p, b)
      PROVE  row' \in Snapshots
  BY <1>3, CommitStep DEF TypeCopies
<1>4. ASSUME NEW p \in Pods, Delete(p) \/ EraseRestored(p)
      PROVE  row \in Snapshots /\ row' = row /\ publishers' = publishers \cup {Eraser(p)}
  <2>1. row # None /\ row' = row /\ publishers' = publishers \cup {Eraser(p)}
    BY <1>4, Zenon DEF Delete, EraseRestored, rowVars
  <2> QED BY <2>1 DEF TypeCopies
<1>5. ASSUME NEW u \in publishers, Invalidate(u)
      PROVE  publishers' = (publishers \ {u}) \cup {[u EXCEPT !.at = "publish"]}
  BY <1>5, Zenon DEF Invalidate, Advance
<1>6. ASSUME NEW u \in publishers, Publish(u)
      PROVE  \/ publishers' = publishers \ {u}
             \/ publishers' = (publishers \ {u}) \cup {[u EXCEPT !.at = "clear"]}
  BY <1>6, Zenon DEF Publish, Advance
<1>12. ASSUME NEW u \in publishers, Erase(u)
      PROVE  publishers' = (publishers \ {u}) \cup {[u EXCEPT !.at = "retire"]}
  BY <1>12, Zenon DEF Erase, Advance
<1>7. ASSUME NEW u \in publishers, FindNothing(u) \/ Clear(u) \/ PublishDeleted(u) \/ Crash(u)
      PROVE  publishers' = publishers \ {u}
  BY <1>7, Zenon DEF FindNothing, Clear, Erase, PublishDeleted, Crash
<1>8. \/ publishers' = publishers
      \/ \E p \in Pods : Register(p) \/ Update(p) \/ \E b \in BOOLEAN : CommitLifecycle(p, b)
      \/ \E p \in Pods : Delete(p) \/ EraseRestored(p) \/ Replay(p)
      \/ \E u \in publishers : \/ Invalidate(u) \/ Publish(u) \/ PublishDeleted(u) \/ Erase(u)
                               \/ FindNothing(u) \/ Clear(u) \/ Crash(u)
  BY Zenon DEF Next, vars, Commit, PublisherStep, Sweep, ReplayErasure, WindowMissed, CacheStep,
     StartLoad, StoreView, ViewExpires, HashStep, RestoreAccount, SetUser, SetLifecycle, FoldStep,
     FoldChanged, FoldDeleted, LoadOwner, Reply, SettingsExpire, podVars
<1>9. CASE \E p \in Pods : \/ Register(p) \/ Update(p) \/ Replay(p)
                           \/ \E b \in BOOLEAN : CommitLifecycle(p, b)
  <2>1. PICK p \in Pods : \/ Register(p) \/ Update(p) \/ Replay(p)
                         \/ \E b \in BOOLEAN : CommitLifecycle(p, b)
    BY <1>9
  <2>2. /\ row' \in Snapshots
        /\ \E outbox \in BOOLEAN :
              publishers' = publishers \cup {Publisher(p, row', outbox, "invalidate")}
    BY <1>1, <1>2, <1>3, <2>1, Zenon
  <2> QED BY <2>2, Zenon
<1>10. ASSUME NEW u \in publishers, \/ Invalidate(u) \/ Publish(u) \/ PublishDeleted(u) \/ Erase(u)
                                    \/ FindNothing(u) \/ Clear(u) \/ Crash(u)
       PROVE  \/ publishers' \subseteq publishers
              \/ Invalidate(u) /\ publishers' = (publishers \ {u}) \cup {[u EXCEPT !.at = "publish"]}
              \/ Publish(u) /\ publishers' = (publishers \ {u}) \cup {[u EXCEPT !.at = "clear"]}
              \/ Erase(u) /\ publishers' = (publishers \ {u}) \cup {[u EXCEPT !.at = "retire"]}
  <2>1. publishers \ {u} \subseteq publishers
    OBVIOUS
  <2> QED BY <1>5, <1>6, <1>7, <1>10, <1>12, <2>1, Zenon
<1>11. publishers' = publishers => publishers' \subseteq publishers
  OBVIOUS
<1> QED BY <1>4, <1>8, <1>9, <1>10, <1>11, Zenon

\* What a step may do to the row and its last lifecycle commit.
LEMMA LifecycleMoves ==
  ASSUME TypeRow, TypeCopies, [Next]_vars
  PROVE  \/ row' = row /\ lifecycleRev' = lifecycleRev
         \/ row' = None
         \/ /\ row = None /\ lifecycleRev' = 0
            /\ row' \in Snapshots /\ row'.inc = registered + 1 /\ row'.rev = 1
         \/ /\ row \in Snapshots /\ row' \in Snapshots
            /\ row'.inc = row.inc /\ row'.rev = row.rev + 1
            /\ \/ lifecycleRev' = lifecycleRev /\ pending' = pending
               \/ lifecycleRev' = row.rev + 1 /\ pending' = TRUE
<1>1. ASSUME NEW p \in Pods, Register(p)
      PROVE  /\ row = None /\ lifecycleRev' = 0
             /\ row' \in Snapshots /\ row'.inc = registered + 1 /\ row'.rev = 1
  <2>1. row = None /\ lifecycleRev' = 0 /\ row' = [inc |-> registered + 1, rev |-> 1, lc |-> TRUE]
    BY <1>1, Zenon DEF Register, Committed
  <2>2. row' \in Snapshots
    BY <1>1, CommitStep DEF TypeCopies
  <2> QED BY <2>1, <2>2
<1>2. ASSUME NEW p \in Pods, Update(p) \/ \E b \in BOOLEAN : CommitLifecycle(p, b)
      PROVE  /\ row \in Snapshots /\ row' \in Snapshots
             /\ row'.inc = row.inc /\ row'.rev = row.rev + 1
             /\ \/ lifecycleRev' = lifecycleRev /\ pending' = pending
                \/ lifecycleRev' = row.rev + 1 /\ pending' = TRUE
  <2>1. /\ row # None
        /\ \/ lifecycleRev' = lifecycleRev /\ pending' = pending
           \/ lifecycleRev' = row.rev + 1 /\ pending' = TRUE
    BY <1>2, Zenon DEF Update, CommitLifecycle
  <2>2. \/ \E b \in BOOLEAN : row' = [row EXCEPT !.rev = @ + 1, !.lc = b]
        \/ row' = [row EXCEPT !.rev = @ + 1]
    BY <1>2, Zenon DEF Update, CommitLifecycle, Committed
  <2>3. row \in Snapshots
    BY <2>1 DEF TypeCopies
  <2>4. row' \in Snapshots
    BY <1>2, CommitStep DEF TypeCopies
  <2>5. row'.inc = row.inc /\ row'.rev = row.rev + 1
    BY <2>2, <2>3 DEF Snapshots
  <2> QED BY <2>1, <2>3, <2>4, <2>5
<1>3. \/ row' = row /\ lifecycleRev' = lifecycleRev
      \/ row' = None
      \/ \E p \in Pods : Register(p)
      \/ \E p \in Pods : Update(p) \/ \E b \in BOOLEAN : CommitLifecycle(p, b)
  BY Zenon DEF Next, vars, Commit, Delete,
     PublisherStep, Invalidate, Publish, FindNothing, Clear, Erase, PublishDeleted, Sweep, Replay, EraseRestored, WindowMissed,
     ReplayErasure, CacheStep, StartLoad, StoreView, ViewExpires, HashStep, RestoreAccount,
     SetUser, SetLifecycle, FoldStep, FoldChanged, FoldDeleted, Crash, LoadOwner, Reply,
     SettingsExpire, rowVars
<1> QED BY <1>1, <1>2, <1>3, Zenon

LEMMA PublishersTruthfulStep ==
  ASSUME TypeOK, PublishersTruthful, [Next]_vars
  PROVE  PublishersTruthful'
<1>0. /\ TypeRow /\ TypeCopies /\ TypePublishers /\ TypeRow' /\ registered \in Nat
      /\ row' \in Snapshots \cup {None} /\ row \in Snapshots \cup {None}
  BY Parts, TypeRowStep, CountAssumption DEF TypeRow, TypeCopies
<1> DEFINE Fits(w) == /\ w.inc <= registered'
                      /\ row' # None /\ w.inc = row'.inc => w.rev <= row'.rev
<1>1. ASSUME NEW i \in Nat, NEW r \in Nat, i <= registered,
             row # None /\ i = row.inc => r <= row.rev
      PROVE  i <= registered' /\ (row' # None /\ i = row'.inc => r <= row'.rev)
  <2>1. row # None => row.inc = registered /\ row.rev \in Nat
    BY <1>0 DEF TypeRow, Snapshots, Revisions
  <2> QED BY <1>0, <1>1, <2>1, RowMoves, NoneAssumption
<1>2. \A w \in publishers : w.inc \in Nat /\ w.rev \in Nat
  BY <1>0 DEF TypePublishers, PublisherType, Incarnations, Revisions
<1>3. \A w \in publishers : Fits(w)
  BY <1>1, <1>2 DEF PublishersTruthful
<1>4. ASSUME NEW p, NEW o, row' \in Snapshots PROVE Fits(Publisher(p, row', o, "invalidate"))
  <2>1. row'.inc = registered' /\ row'.rev \in Nat /\ registered' \in Nat
    BY <1>0, <1>4, NoneAssumption, CountAssumption DEF TypeRow, Snapshots, Revisions
  <2> QED BY <2>1 DEF Publisher
<1>5. ASSUME NEW p \in Pods, row \in Snapshots, row' = row PROVE Fits(Eraser(p))
  <2>1. row.inc = registered /\ row.rev \in Nat /\ row.rev >= 1 /\ row # None
    BY <1>0, <1>5, NoneAssumption DEF TypeRow, Snapshots, Revisions
  <2>2. row.inc = registered'
    BY <1>0, <1>5, <2>1 DEF TypeRow
  <2>3. Eraser(p).inc = row.inc /\ Eraser(p).rev = 1
    BY <1>5, Erasers
  <2> QED BY <1>0, <1>5, <2>1, <2>2, <2>3
<1>6. ASSUME NEW w \in publishers, NEW stage PROVE Fits([w EXCEPT !.at = stage])
  <2>1. [w EXCEPT !.at = stage].inc = w.inc /\ [w EXCEPT !.at = stage].rev = w.rev
    BY <1>0 DEF TypePublishers, PublisherType
  <2> QED BY <1>3, <2>1
<1> HIDE DEF Fits
<1>a. ASSUME publishers' \subseteq publishers PROVE \A w \in publishers' : Fits(w)
  BY <1>3, <1>a
<1>b. ASSUME NEW x, Fits(x), publishers' \subseteq publishers \cup {x}
      PROVE  \A w \in publishers' : Fits(w)
  BY <1>3, <1>b
<1>c. ASSUME NEW p, NEW o, row' \in Snapshots,
             publishers' = publishers \cup {Publisher(p, row', o, "invalidate")}
      PROVE  \A w \in publishers' : Fits(w)
  BY <1>4, <1>b, <1>c
<1>d. ASSUME NEW p \in Pods, row \in Snapshots, row' = row,
             publishers' = publishers \cup {Eraser(p)}
      PROVE  \A w \in publishers' : Fits(w)
  BY <1>5, <1>b, <1>d
<1>e. ASSUME NEW u \in publishers, NEW stage,
             publishers' = (publishers \ {u}) \cup {[u EXCEPT !.at = stage]}
      PROVE  \A w \in publishers' : Fits(w)
  <2> DEFINE x == [u EXCEPT !.at = stage]
  <2>1. Fits(x) /\ publishers' \subseteq publishers \cup {x}
    BY <1>6, <1>e
  <2> HIDE DEF x
  <2> QED BY <1>b, <2>1
<1>7. \A w \in publishers' : Fits(w)
  BY <1>0, <1>a, <1>c, <1>d, <1>e, PublisherMoves, Zenon
<1> QED BY <1>7 DEF Fits, PublishersTruthful

LEMMA LifecycleTruthfulStep ==
  ASSUME TypeOK, LifecycleTruthful, [Next]_vars
  PROVE  LifecycleTruthful'
<1>1. TypeRow /\ TypeCopies
  BY Parts
<1>2. row # None => row.rev \in Nat /\ lifecycleRev \in Nat
  BY <1>1, CountAssumption DEF TypeRow, TypeCopies, Snapshots, Revisions
<1>3. CASE row' = row /\ lifecycleRev' = lifecycleRev
  BY <1>3 DEF LifecycleTruthful
<1>4. CASE row' = None
  BY <1>4 DEF LifecycleTruthful
<1>5. CASE lifecycleRev' = 0 /\ row'.rev = 1
  BY <1>5 DEF LifecycleTruthful
<1>6. CASE /\ row \in Snapshots /\ row'.rev = row.rev + 1
           /\ lifecycleRev' = lifecycleRev \/ lifecycleRev' = row.rev + 1
  <2>1. row # None
    BY <1>6, NoneAssumption
  <2> QED BY <1>2, <1>6, <2>1 DEF LifecycleTruthful
<1> QED BY <1>1, <1>3, <1>4, <1>5, <1>6, LifecycleMoves, Zenon

LEMMA FenceGoneStep ==
  ASSUME TypeOK, DeletionsTruthful, FenceGone, [Next]_vars
  PROVE  FenceGone'
<1>0. TypeRow /\ TypeCopies /\ TypeHash /\ fence \in FenceType /\ fence.inc \in Nat
  BY Parts, CountAssumption DEF TypeHash, FenceType
<1>1. \A i \in Nat : Gone(i) => Gone(i)'
  BY <1>0, GoneStep
<1>2. CASE fence' = fence
  BY <1>0, <1>1, <1>2 DEF FenceGone
<1>3. ASSUME NEW v \in Owned, Taken(v) \/ Written(v) \/ Stamped(v) PROVE FenceGone'
  <2>1. ~fence'.deleted
    BY <1>3 DEF Taken, Written, Stamped, Admits
  <2> QED BY <2>1 DEF FenceGone
<1>4. ASSUME NEW m \in bus, IsDeletion(m), Retired(m) PROVE FenceGone'
  <2>1. m.deleted \in Nat /\ Gone(m.deleted) /\ fence'.inc = m.deleted
    BY <1>0, <1>4, Messages DEF DeletionsTruthful, TypeCopies, Incarnations, Retired
  <2> QED BY <1>1, <2>1 DEF FenceGone
<1> QED BY <1>0, <1>2, <1>3, <1>4, HashMoves

\* The incarnation of the fence only grows, and its revision within one.
LEMMA FenceGrows ==
  ASSUME TypeOK, [Next]_vars
  PROVE  /\ fence'.inc >= fence.inc
         /\ fence'.inc = fence.inc => fence'.rev >= fence.rev
<1>1. fence.inc \in Nat /\ fence.rev \in Nat
  BY CountAssumption DEF TypeOK
<1>2. fence'.inc \in Nat /\ fence'.rev \in Nat
  BY TypeStep, CountAssumption DEF TypeOK
<1> QED BY <1>1, <1>2, FenceStep DEF Newer

LEMMA RestoredFencedStep ==
  ASSUME TypeOK, RestoredFenced, [Next]_vars
  PROVE  RestoredFenced'
<1>0. /\ fence.inc \in Nat /\ fence'.inc \in Nat /\ fence'.inc >= fence.inc
      /\ arriving \subseteq Snapshots /\ restored \subseteq Snapshots
  BY FenceGrows, TypeStep, CountAssumption DEF TypeOK
<1>1. \A v \in restored : v.inc <= fence'.inc
  BY <1>0 DEF RestoredFenced, Snapshots, Incarnations
<1>2. \/ restored' = restored \/ \E v \in restored : restored' = restored \ {v}
      \/ \E v \in arriving : RestoreAccount(v)
  BY Zenon DEF Next, vars, Commit, Register, Delete, Update, CommitLifecycle, Committed,
     PublisherStep, Invalidate, Publish, FindNothing, Clear, Erase, PublishDeleted, Sweep, Replay, EraseRestored, WindowMissed,
     ReplayErasure, CacheStep, StartLoad, StoreView, ViewExpires, HashStep, SetUser,
     SetLifecycle, FoldStep, FoldChanged, FoldDeleted, Crash, LoadOwner, Reply,
     SettingsExpire, writeVars
<1>3. ASSUME NEW v \in arriving, RestoreAccount(v)
      PROVE  restored' \subseteq restored \/ (restored' = restored \cup {v} /\ v.inc <= fence'.inc)
  <2>1. v.inc \in Nat
    BY <1>0 DEF Snapshots, Incarnations
  <2>2. CASE ~Restorable(v)
    BY <1>3, <2>2 DEF RestoreAccount
  <2>3. CASE Restorable(v)
    <3>1. restored' = restored \cup {v}
      BY <1>3, <2>3, Zenon DEF RestoreAccount
    <3>2. v.inc <= fence'.inc
      BY <1>0, <1>3, <2>1, <2>3 DEF RestoreAccount, Restorable
    <3> QED BY <3>1, <3>2
  <2> QED BY <2>2, <2>3
<1> QED BY <1>1, <1>2, <1>3 DEF RestoredFenced

\* Where a snapshot on its way may go: on to the next queue, or to the hash.
LEMMA ToldMoves ==
  ASSUME TypeOK, [Next]_vars, NEW v \in Told
  PROVE  \/ v \in Told'
         \/ v \in arriving /\ RestoreAccount(v)
         \/ v \in restored /\ SetUser(v)
<1> USE DEF Told
<1>1. \/ bus' \in {bus} \cup {bus \cup {x} : x \in bus'}
      \/ \E m \in bus, again \in BOOLEAN : FoldStep(m, again)
  <2>1. \/ bus' = bus \/ (\E x \in bus' : bus' = bus \cup {x})
        \/ \E m \in bus, again \in BOOLEAN : FoldStep(m, again)
    <3>1. \A w : Publish(w) => bus' = bus \cup {Seen(w.pod)}
      BY Zenon DEF Publish
    <3>2. \A w : PublishDeleted(w) => bus' = bus \cup {[deleted |-> w.inc]}
      BY Zenon DEF PublishDeleted
    <3>3. \A i : ReplayErasure(i) => bus' = bus \cup {[deleted |-> i]}
      BY Zenon DEF ReplayErasure
    <3>4. \/ bus' = bus \/ (\E m \in bus, again \in BOOLEAN : FoldStep(m, again))
          \/ (\E w \in publishers : Publish(w) \/ PublishDeleted(w))
          \/ \E i \in Incarnations : ReplayErasure(i)
      BY Zenon DEF Next, vars, Commit, Register, Delete, Update, CommitLifecycle, Committed,
         PublisherStep, Invalidate, FindNothing, Clear, Erase, Sweep, Replay, EraseRestored, WindowMissed, CacheStep, StartLoad,
         StoreView, ViewExpires, HashStep, RestoreAccount, SetUser, SetLifecycle, Crash,
         LoadOwner, Reply, SettingsExpire
    <3>5. \A x : bus' = bus \cup {x} => x \in bus'
      OBVIOUS
    <3> QED BY <3>1, <3>2, <3>3, <3>4, <3>5, Zenon
  <2> QED BY <2>1
<1>2. ASSUME NEW m \in bus, NEW again \in BOOLEAN, FoldStep(m, again)
      PROVE  v \in Told'
  <2>1. CASE FoldDeleted(m, again)
    <3>1. IsDeletion(m) /\ bus \ {m} \subseteq bus' /\ arriving' = arriving /\ restored' = restored
      BY <2>1 DEF FoldDeleted, Handled, writeVars
    <3> QED BY <3>1
  <2>2. CASE FoldChanged(m, again)
    <3>1. bus \ {m} \subseteq bus' /\ arriving' = arriving \cup {m} /\ restored' = restored
      BY <2>2 DEF FoldChanged, Handled
    <3> QED BY <3>1
  <2> QED BY <1>2, <2>1, <2>2 DEF FoldStep
<1>3. \/ arriving \subseteq arriving' /\ restored \subseteq restored'
      \/ \E x \in arriving : RestoreAccount(x)
      \/ \E x \in restored : SetUser(x)
  <2>1. \/ arriving' = arriving /\ restored' = restored
        \/ \E x : arriving' = arriving \cup {x} /\ restored' = restored
        \/ \E x \in arriving : RestoreAccount(x)
        \/ \E x \in restored : SetUser(x)
    BY Zenon DEF Next, vars, Commit, Register, Delete, Update, CommitLifecycle, Committed,
       PublisherStep, Invalidate, Publish, FindNothing, Clear, Erase, PublishDeleted, Sweep, Replay, EraseRestored, WindowMissed,
       ReplayErasure, CacheStep, StartLoad, StoreView, ViewExpires, HashStep, SetLifecycle,
       FoldStep, FoldChanged, FoldDeleted, Crash, LoadOwner, Reply, SettingsExpire, writeVars
  <2> QED BY <2>1
<1>4. ASSUME NEW x \in arriving, RestoreAccount(x), v # x PROVE v \in Told'
  <2>1. bus' = bus /\ arriving' = arriving \ {x} /\ restored \subseteq restored'
    BY <1>4 DEF RestoreAccount
  <2> QED BY <1>4, <2>1
<1>5. ASSUME NEW x \in restored, SetUser(x), v # x PROVE v \in Told'
  <2>1. bus' = bus /\ arriving' = arriving /\ restored' = restored \ {x}
    BY <1>5 DEF SetUser
  <2> QED BY <1>5, <2>1
<1>6. ASSUME NEW x \in arriving, RestoreAccount(x) PROVE bus' = bus /\ restored \subseteq restored'
  BY <1>6 DEF RestoreAccount
<1>7. ASSUME NEW x \in restored, SetUser(x) PROVE bus' = bus /\ arriving' = arriving
  BY <1>7 DEF SetUser
<1>8. CASE bus \subseteq bus'
  <2>1. CASE arriving \subseteq arriving' /\ restored \subseteq restored'
    BY <1>8, <2>1
  <2>2. ASSUME NEW x \in arriving, RestoreAccount(x)
        PROVE  v \in Told' \/ (v \in arriving /\ RestoreAccount(v))
    <3>1. CASE v = x
      BY <2>2, <3>1
    <3> QED BY <1>4, <2>2, <3>1
  <2>3. ASSUME NEW x \in restored, SetUser(x)
        PROVE  v \in Told' \/ (v \in restored /\ SetUser(v))
    <3>1. CASE v = x
      BY <2>3, <3>1
    <3> QED BY <1>5, <2>3, <3>1
  <2> QED BY <1>3, <2>1, <2>2, <2>3, Zenon
<1>9. CASE \E m \in bus, again \in BOOLEAN : FoldStep(m, again)
  BY <1>2, <1>9
<1> QED BY <1>1, <1>8, <1>9

\* Nothing that reaches a live incarnation is turned away before the fence has it.
LEMMA ArrivedStep ==
  ASSUME OutboxInv, [Next]_vars, row \in Snapshots, row' \in Snapshots,
         row'.inc = row.inc, lifecycleRev' = lifecycleRev, Arrived
  PROVE  Arrived'
<1>0. /\ TypeOK /\ TypeRow /\ TypeOK' /\ TypeRow'
      /\ fence.inc \in Nat /\ fence.rev \in Nat /\ fence'.inc \in Nat /\ fence'.rev \in Nat
      /\ lifecycleRev \in Nat /\ registered \in Nat
      /\ row # None /\ row' # None /\ row.inc = registered /\ row'.inc = registered'
  <2>1. TypeOK
    BY DEF OutboxInv, ProjectionInv
  <2>2. TypeOK'
    BY <2>1, TypeStep
  <2>3. TypeRow /\ TypeHash
    BY <2>1, Parts
  <2>4. TypeRow' /\ TypeHash'
    BY <2>2 DEF TypeOK, TypeRow, TypeHash, FenceType, SettingsType
  <2>5. fence \in FenceType /\ fence' \in FenceType
    BY <2>3, <2>4 DEF TypeHash
  <2>6. /\ fence.inc \in Nat /\ fence.rev \in Nat /\ fence'.inc \in Nat /\ fence'.rev \in Nat
        /\ lifecycleRev \in Nat /\ registered \in Nat
    BY <2>3, <2>5, CountAssumption DEF FenceType, TypeRow
  <2>7. /\ row # None /\ row' # None /\ row.inc = registered /\ row'.inc = registered'
    BY <2>3, <2>4, NoneAssumption DEF TypeRow
  <2> QED BY <2>1, <2>2, <2>3, <2>4, <2>6, <2>7
<1>1. fence.inc <= row.inc /\ fence'.inc <= row'.inc
  BY <1>0, HashTruthfulStep DEF OutboxInv, ProjectionInv, FenceTruthful
<1>2. fence.deleted => fence.inc < row.inc
  BY <1>0 DEF OutboxInv, FenceGone, Gone
<1>3. CASE fence.inc = row.inc /\ fence.rev >= lifecycleRev
  <2>1. fence'.inc = row'.inc /\ fence'.rev >= lifecycleRev'
    BY <1>0, <1>1, <1>3, FenceGrows
  <2> QED BY <2>1 DEF Arrived
<1>4. ASSUME NEW v \in Told, Reaches(v) PROVE Arrived'
  <2>1. v \in Snapshots /\ v.inc \in Nat /\ v.rev \in Nat /\ v.inc = row.inc /\ v.rev >= lifecycleRev
    BY <1>0, <1>4, Messages DEF Told, Reaches, TypeOK, Snapshots, Incarnations, Revisions
  <2>2. Reaches(v)'
    BY <1>0, <2>1 DEF Reaches
  <2>3. CASE v \in Told'
    BY <2>2, <2>3 DEF Arrived
  <2>4. CASE v \in arriving /\ RestoreAccount(v)
    <3>1. Restorable(v)
      BY <1>0, <1>1, <1>2, <2>1 DEF Restorable
    <3>2. v \in restored'
      BY <2>4, <3>1 DEF RestoreAccount
    <3> QED BY <2>2, <3>2 DEF Arrived, Told
  <2>5. CASE v \in restored /\ SetUser(v)
    <3>1. v.inc = fence.inc /\ ~fence.deleted
      BY <1>0, <1>1, <1>2, <2>1, <2>5 DEF OutboxInv, RestoredFenced
    <3>2. CASE Admits(v)
      <4>1. fence'.rev = v.rev
        BY <1>0, <2>5, <3>2 DEF SetUser, TypeOK
      <4>2. fence'.inc = fence.inc
        BY <1>0, <2>5, <3>2 DEF SetUser, TypeOK
      <4> QED BY <2>1, <3>1, <4>1, <4>2 DEF Arrived
    <3>3. CASE ~Admits(v)
      <4>1. fence' = fence
        BY <2>5, <3>3 DEF SetUser, hashVars
      <4>2. fence.rev >= lifecycleRev
        BY <1>0, <2>1, <3>1, <3>3 DEF Admits
      <4> QED BY <2>1, <3>1, <4>1, <4>2 DEF Arrived
    <3> QED BY <3>2, <3>3
  <2> QED BY <1>0, <2>3, <2>4, <2>5, ToldMoves
<1> QED BY <1>3, <1>4 DEF Arrived

\* What a step may leave in a pod's cache, as long as no slow reader intervenes.
LEMMA ViewMoves ==
  ASSUME TypeOK, [Next]_vars, ~refilled', NEW p \in Pods
  PROVE  \/ views'[p] = views[p] \/ views'[p] = None
         \/ /\ row \in Snapshots /\ row' = row /\ lifecycleRev' = lifecycleRev
            /\ views'[p] \in Snapshots
            /\ views'[p] = row \/ ~Overtaken(views'[p])
<1>0. /\ views \in [Pods -> Snapshots \cup {None}] /\ row \in Snapshots \cup {None}
      /\ \A w \in publishers : w.pod \in Pods
  BY DEF TypeOK
<1>1. ASSUME NEW q \in Pods, views' = [views EXCEPT ![q] = None]
      PROVE  views'[p] = views[p] \/ views'[p] = None
  BY <1>0, <1>1
<1>2. ASSUME NEW q \in Pods, UNCHANGED rowVars,
             \/ views' = [views EXCEPT ![q] = Seen(q)] /\ Seen(q) # None
             \/ views' = [views EXCEPT ![q] = row] /\ row # None
      PROVE  \/ views'[p] = views[p]
             \/ /\ row \in Snapshots /\ row' = row /\ lifecycleRev' = lifecycleRev
                /\ views'[p] = row /\ views'[p] \in Snapshots
  <2>1. row' = row /\ lifecycleRev' = lifecycleRev
    BY <1>2 DEF rowVars
  <2>2. CASE p # q
    BY <1>0, <1>2, <2>2
  <2>3. CASE p = q
    BY <1>0, <1>2, <2>1, <2>3 DEF Seen
  <2> QED BY <2>2, <2>3
<1>3. ASSUME NEW w \in publishers, Invalidate(w) \/ PublishDeleted(w)
      PROVE  views' = [views EXCEPT ![w.pod] = None]
  BY <1>3, Zenon DEF Invalidate, Invalidated, PublishDeleted
<1>4. ASSUME NEW w \in publishers, Publish(w)
      PROVE  UNCHANGED rowVars /\ views' = [views EXCEPT ![w.pod] = Seen(w.pod)] /\ Seen(w.pod) # None
  BY <1>4, Zenon DEF Publish
<1>5. ASSUME NEW q \in Pods, ViewExpires(q) PROVE views' = [views EXCEPT ![q] = None]
  BY <1>5, Zenon DEF ViewExpires
<1>6. ASSUME NEW q \in Pods, LoadOwner(q)
      PROVE  UNCHANGED rowVars /\ views' = [views EXCEPT ![q] = Seen(q)] /\ Seen(q) # None
  BY <1>6, Zenon DEF LoadOwner
<1>7. ASSUME NEW q \in Pods, StoreView(q)
      PROVE  \/ views'[p] = views[p]
             \/ /\ row \in Snapshots /\ row' = row /\ lifecycleRev' = lifecycleRev
                /\ views'[p] \in Snapshots /\ ~Overtaken(views'[p])
  <2>1. ~Overtaken(flights[q]) /\ flights[q] # None
    BY <1>7, Zenon DEF StoreView
  <2>2. views' = [views EXCEPT ![q] = flights[q]] /\ row' = row /\ lifecycleRev' = lifecycleRev
    BY <1>7, Zenon DEF StoreView, rowVars
  <2>3. row # None
    BY <2>1, Zenon DEF Overtaken
  <2>4. flights[q] \in Snapshots
    BY <2>1 DEF TypeOK
  <2>5. p # q => views'[p] = views[p]
    BY <1>0, <2>2
  <2>6. p = q => views'[p] = flights[q]
    BY <1>0, <2>2
  <2> QED BY <1>0, <2>1, <2>2, <2>3, <2>4, <2>5, <2>6, Zenon
<1>8. \/ views' = views
      \/ \E w \in publishers : Invalidate(w) \/ Publish(w) \/ PublishDeleted(w)
      \/ \E q \in Pods : StoreView(q) \/ ViewExpires(q) \/ LoadOwner(q)
  BY Zenon DEF Next, vars, Commit, Register, Delete, Update, CommitLifecycle, Committed,
     PublisherStep, FindNothing, Clear, Erase, Sweep, Replay, EraseRestored, WindowMissed, ReplayErasure, CacheStep, StartLoad,
     HashStep, RestoreAccount, SetUser, SetLifecycle, FoldStep, FoldChanged, FoldDeleted,
     Crash, Reply, SettingsExpire, podVars
<1>9. views' = views => views'[p] = views[p]
  OBVIOUS
<1> HIDE DEF Seen
<1> QED BY <1>0, <1>1, <1>2, <1>3, <1>4, <1>5, <1>6, <1>7, <1>8, <1>9, Zenon

LEMMA StillNotRefilled ==
  ASSUME [Next]_vars, ~refilled'
  PROVE  ~refilled \/ (row # None /\ lifecycleRev' = row.rev + 1 /\ pending' = TRUE)
<1>1. \A p : StoreView(p) => refilled' = (refilled \/ Overtaken(flights[p]))
  BY Zenon DEF StoreView
<1>2. \/ refilled' = refilled \/ \E p \in Pods : StoreView(p)
      \/ row # None /\ lifecycleRev' = row.rev + 1 /\ pending' = TRUE
  BY Zenon DEF Next, vars, Commit, Register, Delete, Update, CommitLifecycle, Committed,
     PublisherStep, Invalidate, Publish, FindNothing, Clear, Erase, PublishDeleted, Sweep,
     Replay, EraseRestored, WindowMissed, ReplayErasure, CacheStep, StartLoad, ViewExpires,
     HashStep, RestoreAccount, SetUser, SetLifecycle, FoldStep, FoldChanged, FoldDeleted,
     Crash, LoadOwner, Reply, SettingsExpire, podVars
<1> QED BY <1>1, <1>2, Zenon

\* A publication that is current was current before, and so was the row's lifecycle.
LEMMA CurrentBefore ==
  ASSUME OutboxInv, [Next]_vars, NEW w \in publishers, Current(w)'
  PROVE  /\ row \in Snapshots /\ row' \in Snapshots /\ row'.inc = row.inc
         /\ lifecycleRev' = lifecycleRev /\ Current(w)
<1>0. TypeOK /\ TypeRow /\ TypeCopies /\ TypePublishers /\ row' \in Snapshots \cup {None}
  BY Parts, TypeRowStep DEF OutboxInv, ProjectionInv, TypeCopies
<1>1. /\ row' \in Snapshots /\ w.inc = row'.inc /\ w.rev >= lifecycleRev'
      /\ w.inc \in Nat /\ w.rev \in Nat /\ w.inc <= registered /\ registered \in Nat
      /\ row # None /\ w.inc = row.inc => w.rev <= row.rev
  BY <1>0, CountAssumption DEF Current, OutboxInv, PublishersTruthful, TypePublishers,
     PublisherType, Incarnations, Revisions, TypeRow
<1>2. row # None => row \in Snapshots /\ row.rev \in Nat
  BY <1>0 DEF TypeCopies, Snapshots, Revisions
<1>3. CASE row' = row /\ lifecycleRev' = lifecycleRev
  BY <1>1, <1>3, NoneAssumption DEF Current
<1>4. CASE row' = None
  BY <1>1, <1>4, NoneAssumption
<1>5. CASE row'.inc = registered + 1
  BY <1>1, <1>5
<1>6. CASE /\ row \in Snapshots /\ row'.inc = row.inc
           /\ lifecycleRev' = lifecycleRev \/ lifecycleRev' = row.rev + 1
  <2>1. row # None
    BY <1>6, NoneAssumption
  <2> QED BY <1>1, <1>2, <1>6, <2>1 DEF Current
<1> QED BY <1>0, <1>3, <1>4, <1>5, <1>6, LifecycleMoves, Zenon

\* Under such a publication no transition resets the history.
LEMMA NotRefilledBefore ==
  ASSUME OutboxInv, [Next]_vars, NEW w \in publishers, Current(w)', ~refilled'
  PROVE  ~refilled
<1>1. row \in Snapshots /\ lifecycleRev' = lifecycleRev
  BY CurrentBefore
<1>2. row # None /\ row.rev \in Nat /\ lifecycleRev \in Nat
  BY <1>1, NoneAssumption, CountAssumption
     DEF OutboxInv, ProjectionInv, TypeOK, Snapshots, Revisions
<1>3. lifecycleRev' # row.rev + 1
  BY <1>1, <1>2 DEF OutboxInv, LifecycleTruthful
<1> QED BY <1>3, StillNotRefilled, Zenon

LEMMA UnderwayStep == ASSUME OutboxInv, [Next]_vars PROVE Underway'
<1> SUFFICES ASSUME ~refilled', NEW w \in publishers', Current(w)'
             PROVE  /\ w.at = "publish" => views'[w.pod] = None \/ Reaches(views[w.pod])'
                    /\ w.at = "clear" => Arrived'
  BY DEF Underway
<1>0. /\ TypeOK /\ TypeRow /\ TypeCopies /\ TypePublishers
      /\ views' \in [Pods -> Snapshots \cup {None}]
  BY Parts, TypeStep DEF OutboxInv, ProjectionInv, TypeOK
<1>1. CASE w \in publishers
  <2>1. /\ row \in Snapshots /\ row' \in Snapshots /\ row'.inc = row.inc
        /\ lifecycleRev' = lifecycleRev /\ Current(w) /\ ~refilled
    BY <1>1, CurrentBefore, NotRefilledBefore
  <2>2. CASE w.at = "publish"
    <3>1. w.pod \in Pods
      BY <1>0, <1>1 DEF TypePublishers, PublisherType
    <3>2. views[w.pod] = None \/ Reaches(views[w.pod])
      BY <1>0, <1>1, <2>1, <2>2 DEF OutboxInv, Underway
    <3>3. row # None /\ row' # None /\ row.rev \in Nat /\ lifecycleRev \in Nat
      BY <1>0, <2>1, NoneAssumption, CountAssumption DEF Snapshots, Revisions, TypeRow
    <3>4. row.rev >= lifecycleRev
      BY <3>3 DEF OutboxInv, LifecycleTruthful
    <3>5. CASE views'[w.pod] = views[w.pod]
      BY <2>1, <2>2, <3>2, <3>3, <3>5 DEF Reaches
    <3>6. CASE /\ row' = row /\ views'[w.pod] \in Snapshots
               /\ views'[w.pod] = row \/ ~Overtaken(views'[w.pod])
      <4>1. views'[w.pod].inc = row.inc /\ views'[w.pod].rev >= lifecycleRev
        BY <3>3, <3>4, <3>6 DEF Overtaken, Snapshots, Revisions
      <4> QED BY <2>1, <2>2, <3>3, <3>6, <4>1 DEF Reaches
    <3>7. CASE views'[w.pod] = None
      BY <2>2, <3>7
    <3> QED BY <1>0, <3>1, <3>5, <3>6, <3>7, ViewMoves
  <2>3. CASE w.at = "clear"
    <3>1. Arrived
      BY <1>0, <1>1, <2>1, <2>3 DEF OutboxInv, Underway
    <3>2. Arrived'
      BY <2>1, <3>1, ArrivedStep
    <3> QED BY <2>3, <3>2
  <2> QED BY <2>2, <2>3
<1>2. ASSUME NEW u \in publishers, Invalidate(u), w = [u EXCEPT !.at = "publish"]
      PROVE  w.at = "publish" /\ views'[w.pod] = None
  <2>1. w.at = "publish" /\ w.pod = u.pod /\ u.pod \in Pods
    BY <1>0, <1>2 DEF TypePublishers, PublisherType
  <2>2. views' = [views EXCEPT ![u.pod] = None]
    BY <1>2, Zenon DEF Invalidate, Invalidated
  <2> QED BY <1>0, <2>1, <2>2 DEF TypeCopies
<1>3. ASSUME NEW u \in publishers, Publish(u), w = [u EXCEPT !.at = "clear"]
      PROVE  w.at = "clear" /\ Arrived'
  <2>1. w.at = "clear" /\ w.inc = u.inc /\ w.rev = u.rev /\ u.pod \in Pods
    BY <1>0, <1>3 DEF TypePublishers, PublisherType
  <2>2. Current(u)'
    BY <2>1 DEF Current
  <2>3. /\ row \in Snapshots /\ row' \in Snapshots /\ row'.inc = row.inc
        /\ lifecycleRev' = lifecycleRev /\ Current(u) /\ ~refilled
    BY <2>2, CurrentBefore, NotRefilledBefore
  <2>4. views[u.pod] = None \/ Reaches(views[u.pod])
    BY <1>0, <1>3, <2>3 DEF OutboxInv, Underway, Publish
  <2>5. row # None /\ row.rev \in Nat /\ lifecycleRev \in Nat /\ row' # None
    BY <1>0, <2>3, NoneAssumption, CountAssumption DEF Snapshots, Revisions, TypeRow
  <2>6. row.rev >= lifecycleRev
    BY <2>5 DEF OutboxInv, LifecycleTruthful
  <2>7. Reaches(Seen(u.pod)) /\ Seen(u.pod) \in Snapshots
    BY <1>0, <2>1, <2>3, <2>4, <2>5, <2>6 DEF Seen, Reaches, TypeCopies
  <2>8. bus' = bus \cup {Seen(u.pod)}
    BY <1>3, Zenon DEF Publish
  <2>9. PICK v : v \in Snapshots /\ Reaches(v) /\ v \in bus'
    BY <2>7, <2>8
  <2>10. Reaches(v)'
    BY <2>3, <2>5, <2>9 DEF Reaches
  <2>11. v \in Told'
    BY <2>9, Messages DEF Told
  <2> QED BY <2>1, <2>10, <2>11 DEF Arrived
<1>4. \A p, s, outbox : Publisher(p, s, outbox, "invalidate").at = "invalidate"
  BY DEF Publisher
<1>6. \A u \in publishers : [u EXCEPT !.at = "retire"].at = "retire"
  BY <1>0 DEF TypePublishers, PublisherType
<1>5. CASE w \notin publishers
  <2>1. \/ w.at \in {"invalidate", "erase", "retire"}
        \/ \E u \in publishers : Invalidate(u) /\ w = [u EXCEPT !.at = "publish"]
        \/ \E u \in publishers : Publish(u) /\ w = [u EXCEPT !.at = "clear"]
    <3>1. ASSUME NEW x, publishers' = publishers \cup {x} PROVE w = x
      BY <1>5, <3>1
    <3>2. ASSUME NEW x, NEW u, publishers' = (publishers \ {u}) \cup {x} PROVE w = x
      BY <1>5, <3>2
    <3>3. ~(publishers' \subseteq publishers)
      BY <1>5
    <3>5. CASE \E p \in Pods, outbox \in BOOLEAN :
                 /\ row' \in Snapshots
                 /\ publishers' = publishers \cup {Publisher(p, row', outbox, "invalidate")}
      <4>1. w.at = "invalidate"
        BY <1>4, <3>1, <3>5, Zenon
      <4> QED BY <4>1
    <3>6. CASE \E p \in Pods : /\ row \in Snapshots /\ row' = row
                               /\ publishers' = publishers \cup {Eraser(p)}
      <4>1. w.at = "erase"
        BY <3>1, <3>6, Erasers, Zenon
      <4> QED BY <4>1
    <3>9. ASSUME NEW u \in publishers,
                 publishers' = (publishers \ {u}) \cup {[u EXCEPT !.at = "retire"]}
          PROVE  w.at \in {"invalidate", "erase", "retire"}
      <4>1. w = [u EXCEPT !.at = "retire"]
        BY <3>2, <3>9, Zenon
      <4> QED BY <1>6, <4>1
    <3>7. ASSUME NEW u \in publishers, Invalidate(u),
                 publishers' = (publishers \ {u}) \cup {[u EXCEPT !.at = "publish"]}
          PROVE  w = [u EXCEPT !.at = "publish"]
      BY <3>2, <3>7, Zenon
    <3>8. ASSUME NEW u \in publishers, Publish(u),
                 publishers' = (publishers \ {u}) \cup {[u EXCEPT !.at = "clear"]}
          PROVE  w = [u EXCEPT !.at = "clear"]
      BY <3>2, <3>8, Zenon
    <3> QED BY <1>0, <3>3, <3>5, <3>6, <3>7, <3>8, <3>9, PublisherMoves, Zenon
  <2>2. CASE w.at \in {"invalidate", "erase", "retire"}
    BY <2>2
  <2>3. ASSUME NEW u \in publishers, Invalidate(u), w = [u EXCEPT !.at = "publish"]
        PROVE  w.at # "clear" /\ views'[w.pod] = None
    <3>1. w.at = "publish" /\ views'[w.pod] = None
      BY <1>2, <2>3
    <3> QED BY <3>1
  <2>4. ASSUME NEW u \in publishers, Publish(u), w = [u EXCEPT !.at = "clear"]
        PROVE  w.at # "publish" /\ Arrived'
    <3>1. w.at = "clear" /\ Arrived'
      BY <1>3, <2>4
    <3> QED BY <3>1
  <2> QED BY <2>1, <2>2, <2>3, <2>4, Zenon
<1> QED BY <1>1, <1>5

\* The flag is cleared for the revision it was raised for, or a later one.
LEMMA PendingMoves ==
  ASSUME [Next]_vars
  PROVE  \/ pending' = TRUE \/ pending' = pending
         \/ row' = None \/ lifecycleRev' = 0
         \/ \E w \in publishers : /\ w.at = "clear" /\ row # None
                                  /\ row.inc = w.inc /\ row.rev = w.rev
<1>1. ASSUME NEW w \in publishers, Clear(w)
      PROVE  \/ pending' = pending
             \/ w.at = "clear" /\ row # None /\ row.inc = w.inc /\ row.rev = w.rev
  BY <1>1, Zenon DEF Clear, Cleared
<1>2. \/ pending' = TRUE \/ pending' = pending \/ row' = None \/ lifecycleRev' = 0
      \/ \E w \in publishers : Clear(w)
  BY Zenon DEF Next, vars, Commit, Register, Delete, Update, CommitLifecycle,
     PublisherStep, Invalidate, Publish, FindNothing, Erase, PublishDeleted, Sweep, Replay, EraseRestored, WindowMissed,
     ReplayErasure, CacheStep, StartLoad, StoreView, ViewExpires, HashStep, RestoreAccount,
     SetUser, SetLifecycle, FoldStep, FoldChanged, FoldDeleted, Crash, LoadOwner, Reply,
     SettingsExpire, rowVars
<1> QED BY <1>1, <1>2, Zenon

LEMMA ClearedStep == ASSUME OutboxInv, [Next]_vars PROVE ClearedWasPublished'
<1> SUFFICES ASSUME ~refilled', row' # None, lifecycleRev' > 0, ~pending' PROVE Arrived'
  BY DEF ClearedWasPublished, Arrived, Told
<1>0. /\ TypeOK /\ TypeRow /\ TypeCopies /\ TypePublishers /\ pending \in BOOLEAN
      /\ lifecycleRev \in Nat
  BY Parts, CountAssumption DEF OutboxInv, ProjectionInv, TypeOK
<1>n. ~refilled
  BY StillNotRefilled, Zenon
<1>1. /\ row \in Snapshots /\ row' \in Snapshots /\ row'.inc = row.inc
      /\ lifecycleRev' = lifecycleRev /\ row # None
  <2>1. row' \in Snapshots
    BY <1>0, TypeRowStep DEF TypeCopies
  <2>2. CASE row' = row /\ lifecycleRev' = lifecycleRev
    BY <2>1, <2>2
  <2>3. lifecycleRev' # 0
    OBVIOUS
  <2>4. CASE /\ row \in Snapshots /\ row'.inc = row.inc /\ lifecycleRev' = lifecycleRev
    BY <2>1, <2>4, NoneAssumption
  <2> QED BY <1>0, <2>1, <2>2, <2>3, <2>4, LifecycleMoves, Zenon
<1>2. Arrived
  <2>1. CASE pending' = pending
    BY <1>0, <1>n, <1>1, <2>1 DEF OutboxInv, ClearedWasPublished, Arrived, Told
  <2>2. ASSUME NEW w \in publishers, w.at = "clear", row.inc = w.inc, row.rev = w.rev
        PROVE  Arrived
    <3>1. row.rev \in Nat /\ row.rev >= lifecycleRev
      BY <1>0, <1>1 DEF OutboxInv, LifecycleTruthful, Snapshots, Revisions
    <3>2. Current(w)
      BY <1>1, <2>2, <3>1 DEF Current
    <3> QED BY <1>0, <1>n, <2>2, <3>2 DEF OutboxInv, Underway
  <2>3. lifecycleRev' # 0
    OBVIOUS
  <2> QED BY <2>1, <2>2, <2>3, PendingMoves, Zenon
<1> QED BY <1>1, <1>2, ArrivedStep

LEMMA OutboxInit == Init => OutboxInv
<1> SUFFICES ASSUME Init PROVE OutboxInv
  OBVIOUS
<1>1. ProjectionInv
  BY ProjectionInit
<1> QED BY <1>1 DEF Init, OutboxInv, PublishersTruthful, LifecycleTruthful, FenceGone,
   RestoredFenced, Underway, ClearedWasPublished

LEMMA OutboxStep == OutboxInv /\ [Next]_vars => OutboxInv'
<1> SUFFICES ASSUME OutboxInv, [Next]_vars PROVE OutboxInv'
  OBVIOUS
<1>1. /\ TypeOK /\ CopiesTruthful /\ LedgerTruthful /\ DeletionsTruthful
      /\ FenceTruthful /\ SettingsTruthful
      /\ PublishersTruthful /\ LifecycleTruthful /\ FenceGone /\ RestoredFenced
  BY DEF OutboxInv, ProjectionInv
<1>2. ProjectionInv'
  BY <1>1, TypeStep, CopiesTruthfulStep, LedgerTruthfulStep, DeletionsStep, HashTruthfulStep
     DEF ProjectionInv
<1>3. PublishersTruthful' /\ LifecycleTruthful' /\ FenceGone' /\ RestoredFenced'
  BY <1>1, PublishersTruthfulStep, LifecycleTruthfulStep, FenceGoneStep, RestoredFencedStep
<1> QED BY <1>2, <1>3, UnderwayStep, ClearedStep DEF OutboxInv

\* Once the outbox flag of a row is clear, whatever publications died in between,
\* its last lifecycle transition has reached the fence, or is on its way there, or
\* was overtaken: a read begun before it was stored into a cache after it, and
\* publishChanged may have told that one instead (publishLifecycleProjection,
\* lifecycleDue, Keyed.load).
THEOREM ClearedIsToldOrOvertaken == Spec => []ClearedWasPublished
<1>1. OutboxInv => ClearedWasPublished
  BY DEF OutboxInv
<1> QED BY <1>1, OutboxInit, OutboxStep, PTL DEF Spec
==============================================================================
