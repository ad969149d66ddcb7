-------------------------- MODULE KeyedCacheProofs --------------------------
(***************************************************************************)
(* What a key of the cache may answer, for any number of readers, commits,  *)
(* lost broadcasts and failed loads, and for every choice of its periods.   *)
(***************************************************************************)
EXTENDS KeyedCache, TLAPS

PcStates == {"idle", "missed", "wait", "check", "load", "store", "finish"}

\* The parts of TypeOK; slow stands apart.
TypeEntry ==
    /\ entry \in [ver : 0 .. MaxVersion, fresh : 0 .. TTL + Jitter, keep : 0 .. Longest]
    /\ entry.keep > 0 <=> entry.ver # 0
    /\ entry.fresh <= entry.keep /\ entry.keep <= entry.fresh + StaleWindow

TypeSource ==
    /\ source \in Versions /\ owed \subseteq Versions
    /\ forgetting \in 0 .. MaxVersion /\ announced \in 0 .. MaxVersion
    /\ outdated \in [Versions -> 0 .. Longest + 1]
    /\ faults \in 0 .. MaxFaults

TypeReaders ==
    /\ group \in Readers \cup {NoReader} /\ on \in [Readers -> Readers]
    /\ pc \in [Readers -> PcStates] /\ loaded \in [Readers -> 0 .. MaxVersion]

TypeInv == TypeEntry /\ TypeSource /\ TypeReaders /\ slow \in BOOLEAN

LEMMA Parts == TypeOK <=> TypeInv
BY DEF TypeOK, TypeInv, TypeEntry, TypeSource, TypeReaders, PcStates, Present

LEMMA Numbers ==
  /\ TTL \in Nat \ {0} /\ Jitter \in Nat /\ StaleWindow \in Nat
  /\ Longest \in Nat /\ Longest = TTL + Jitter + StaleWindow
  /\ MaxVersion \in Nat \ {0} /\ MaxFaults \in Nat
BY PeriodAssumption, BoundsAssumption DEF Longest

LEMMA SlowStep == slow \in BOOLEAN /\ [Next]_vars => slow' \in BOOLEAN
<1> SUFFICES ASSUME slow \in BOOLEAN, [Next]_vars PROVE slow' \in BOOLEAN
  OBVIOUS
<1>1. slow' = slow \/ slow' = TRUE \/ slow' = FALSE
  BY Zenon DEF Next, vars, Flight, Commit, Delete, Evict, Tick, BroadcastLost, Forget, Miss, Join,
     Lead, Recheck, Load, SetFor, Finish, LoadFails
<1> QED BY <1>1, Zenon

\* What a step may do to the entry.
Stores(r) == \E t \in TTL .. TTL + Jitter :
                 entry' = [ver |-> loaded[r], fresh |-> t, keep |-> t + StaleWindow]

LEMMA EntryMoves ==
  ASSUME [Next]_vars
  PROVE  \/ entry' = entry \/ entry' = Absent
         \/ Tick /\ entry' = Aged
         \/ \E r \in Readers : SetFor(r) /\ Stores(r)
BY Zenon DEF Next, vars, Flight, Commit, Delete, Evict, Tick, BroadcastLost, Forget, Miss, Join,
   Lead, Recheck, Load, SetFor, Finish, LoadFails, StaleOr, Stores

LEMMA AgedIs ==
  ASSUME TypeEntry, entry' = Aged
  PROVE  \/ entry' = Absent /\ entry.keep <= 1
         \/ /\ entry.keep > 1 /\ entry'.ver = entry.ver /\ entry'.keep = entry.keep - 1
            /\ entry'.fresh = IF entry.fresh = 0 THEN 0 ELSE entry.fresh - 1
            /\ entry' \in [ver : 0 .. MaxVersion, fresh : 0 .. TTL + Jitter, keep : 0 .. Longest]
<1>1. CASE entry.keep <= 1
  BY <1>1 DEF Aged
<1>2. CASE ~(entry.keep <= 1)
  <2> DEFINE n == IF entry.fresh = 0 THEN 0 ELSE entry.fresh - 1
  <2>1. /\ entry \in [ver : 0 .. MaxVersion, fresh : 0 .. TTL + Jitter, keep : 0 .. Longest]
        /\ n \in 0 .. TTL + Jitter /\ entry.keep - 1 \in 0 .. Longest /\ entry.keep > 1
    BY <1>2, Numbers DEF TypeEntry
  <2>2. entry' = [entry EXCEPT !.fresh = n, !.keep = entry.keep - 1]
    BY <1>2 DEF Aged, Less
  <2> HIDE DEF n
  <2>3. /\ entry'.ver = entry.ver /\ entry'.keep = entry.keep - 1 /\ entry'.fresh = n
        /\ entry' \in [ver : 0 .. MaxVersion, fresh : 0 .. TTL + Jitter, keep : 0 .. Longest]
    BY <2>1, <2>2
  <2> QED BY <2>1, <2>3 DEF n
<1> QED BY <1>1, <1>2

LEMMA EntryStep ==
  ASSUME TypeEntry, TypeReaders, [Next]_vars,
         \A r \in Readers : pc[r] = "store" => loaded[r] # 0
  PROVE  TypeEntry'
<1> USE Numbers
<1>1. CASE entry' = entry
  BY <1>1 DEF TypeEntry
<1>2. CASE entry' = Absent
  BY <1>2 DEF TypeEntry, Absent
<1>3. CASE entry' = Aged
  BY <1>2, <1>3, AgedIs DEF TypeEntry
<1>4. ASSUME NEW r \in Readers, SetFor(r), Stores(r) PROVE TypeEntry'
  <2>1. loaded[r] \in 0 .. MaxVersion /\ loaded[r] # 0
    BY <1>4 DEF SetFor, TypeReaders
  <2>2. PICK t \in TTL .. TTL + Jitter :
           entry' = [ver |-> loaded[r], fresh |-> t, keep |-> t + StaleWindow]
    BY <1>4 DEF Stores
  <2>3. t \in 0 .. TTL + Jitter /\ t + StaleWindow \in 0 .. Longest /\ t + StaleWindow > 0
    OBVIOUS
  <2> QED BY <2>1, <2>2, <2>3 DEF TypeEntry
<1> QED BY <1>1, <1>2, <1>3, <1>4, EntryMoves

LEMMA SourceStep == ASSUME TypeSource, [Next]_vars PROVE TypeSource'
<1> USE Numbers DEF TypeSource, Versions
<1>1. CASE Commit
  BY <1>1 DEF Commit
<1>2. CASE Delete
  BY <1>2 DEF Delete
<1>3. ASSUME NEW v \in Versions, BroadcastLost(v) \/ Forget(v) PROVE TypeSource'
  <2>1. CASE BroadcastLost(v)
    BY <2>1 DEF BroadcastLost, Fault
  <2>2. CASE Forget(v)
    BY <2>2 DEF Forget
  <2> QED BY <1>3, <2>1, <2>2
<1>4. CASE Tick
  BY <1>4 DEF Tick
<1>5. CASE /\ UNCHANGED <<source, outdated, owed, forgetting, announced>>
           /\ faults' = faults \/ Fault
  BY <1>5 DEF Fault
<1>6. \/ Commit \/ Delete \/ Tick \/ \E v \in Versions : BroadcastLost(v) \/ Forget(v)
      \/ /\ UNCHANGED <<source, outdated, owed, forgetting, announced>>
         /\ faults' = faults \/ Fault
  BY Zenon DEF Next, vars, Flight, Evict, Miss, Join, Lead, Recheck, Load, SetFor, Finish,
     LoadFails, SourceUnchanged
<1> QED BY <1>1, <1>2, <1>3, <1>4, <1>5, <1>6

\* What a reader's step does to the readers.
LEMMA ReadersStep == ASSUME TypeReaders, TypeSource, TypeEntry, [Next]_vars PROVE TypeReaders'
<1> USE Numbers DEF TypeReaders, PcStates
<1>1. CASE UNCHANGED <<group, on, pc, loaded>>
  BY <1>1
<1>2. ASSUME NEW r \in Readers, Miss(r) \/ Join(r) \/ Lead(r) \/ Load(r) \/ SetFor(r)
      PROVE  TypeReaders'
  <2>1. CASE Miss(r)
    BY <2>1 DEF Miss, Go
  <2>2. CASE Join(r)
    BY <2>2 DEF Join, Go
  <2>3. CASE Lead(r)
    BY <2>3 DEF Lead, Go
  <2>4. CASE Load(r)
    BY <2>4 DEF Load, Go, TypeSource, Versions
  <2>5. CASE SetFor(r)
    BY <2>5 DEF SetFor, Go
  <2> QED BY <1>2, <2>1, <2>2, <2>3, <2>4, <2>5
<1>3. ASSUME NEW r \in Readers, Recheck(r) PROVE TypeReaders'
  BY <1>3 DEF Recheck, Go, TypeEntry
<1>4. ASSUME NEW r \in Readers, LoadFails(r) PROVE TypeReaders'
  BY <1>4 DEF LoadFails, StaleOr, Go, TypeEntry
<1>5. ASSUME NEW r \in Readers, Finish(r) PROVE TypeReaders'
  BY <1>5 DEF Finish
<1>6. CASE group' = NoReader /\ UNCHANGED <<on, pc, loaded>>
  BY <1>6
<1>7. \/ UNCHANGED <<group, on, pc, loaded>>
      \/ \E r \in Readers : \/ Miss(r) \/ Join(r) \/ Lead(r) \/ Load(r) \/ SetFor(r)
                            \/ Recheck(r) \/ LoadFails(r) \/ Finish(r)
      \/ group' = NoReader /\ UNCHANGED <<on, pc, loaded>>
  BY Zenon DEF Next, vars, Flight, Commit, Delete, Evict, Tick, BroadcastLost, Forget
<1> QED BY <1>1, <1>2, <1>3, <1>4, <1>5, <1>6, <1>7

-----------------------------------------------------------------------------
(* The invariant behind both properties                                     *)

\* A reader about to store has a version in hand: a read gives one.
InHand == \A r \in Readers : pc[r] = "store" => loaded[r] # 0

\* Nothing is announced, owed or being forgotten that was not committed.
Committed == /\ announced <= source /\ forgetting <= source
             /\ \A v \in owed : v <= source

\* A flight callers can join is led by a reader under way, and what it loaded is
\* no older than what was announced or is being forgotten.
Joinable ==
    group # NoReader =>
        /\ group \in Readers /\ pc[group] \in {"check", "load", "store", "finish"}
        /\ pc[group] = "store" => loaded[group] >= announced /\ loaded[group] >= forgetting

\* Ages.  The newest version has none; an entry's age and what is left of it are
\* no more than its lifetime together.
Ages ==
    /\ \A v \in Versions : v >= source => outdated[v] = 0
    /\ ~slow =>
        /\ entry.fresh > 0 => outdated[entry.ver] + entry.fresh <= TTL + Jitter
        /\ entry.keep > 0 => outdated[entry.ver] + entry.keep <= Longest
        /\ \A r \in Readers : pc[r] = "store" => outdated[loaded[r]] = 0
        /\ \A r \in Readers :
              pc[r] = "finish" /\ loaded[r] # 0 => outdated[loaded[r]] <= Longest

CacheInv == TypeInv /\ InHand /\ Committed /\ Joinable /\ Ages

\* A commit is the only step that moves the source, and Forget and Delete the
\* only ones that announce.
LEMMA SourceMoves ==
  ASSUME [Next]_vars
  PROVE  \/ Commit \/ Delete \/ \E v \in Versions : BroadcastLost(v) \/ Forget(v)
         \/ UNCHANGED <<source, owed, forgetting, announced>>
BY Zenon DEF Next, vars, Flight, Evict, Tick, Miss, Join, Lead, Recheck, Load, SetFor, Finish,
   LoadFails, SourceUnchanged

LEMMA CommittedStep == ASSUME TypeSource, Committed, [Next]_vars PROVE Committed'
<1> USE Numbers DEF TypeSource, Versions, Committed
<1>1. CASE Commit
  BY <1>1 DEF Commit
<1>2. CASE Delete
  BY <1>2 DEF Delete
<1>3. ASSUME NEW v \in Versions, BroadcastLost(v) \/ Forget(v) PROVE Committed'
  <2>1. CASE BroadcastLost(v)
    BY <2>1 DEF BroadcastLost
  <2>2. CASE Forget(v)
    BY <2>2 DEF Forget
  <2> QED BY <1>3, <2>1, <2>2
<1>4. CASE UNCHANGED <<source, owed, forgetting, announced>>
  BY <1>4
<1> QED BY <1>1, <1>2, <1>3, <1>4, SourceMoves

\* What a step may do to the readers.
LEMMA ReaderMoves ==
  ASSUME [Next]_vars
  PROVE  \/ UNCHANGED <<group, pc, loaded>>
         \/ \E v \in Versions : Forget(v)
         \/ \E r \in Readers : \/ Miss(r) \/ Join(r) \/ Lead(r) \/ Load(r) \/ SetFor(r)
                               \/ Recheck(r) \/ LoadFails(r) \/ Finish(r)
BY Zenon DEF Next, vars, Flight, Commit, Delete, Evict, Tick, BroadcastLost

LEMMA InHandStep == ASSUME TypeReaders, TypeSource, InHand, [Next]_vars PROVE InHand'
<1> USE DEF TypeReaders, PcStates, InHand, Go
<1>1. CASE UNCHANGED <<group, pc, loaded>>
  BY <1>1
<1>2. ASSUME NEW v \in Versions, Forget(v) PROVE InHand'
  BY <1>2 DEF Forget
<1>3. ASSUME NEW r \in Readers, \/ Miss(r) \/ Join(r) \/ Lead(r) \/ SetFor(r) PROVE InHand'
  BY <1>3 DEF Miss, Join, Lead, SetFor
<1>4. ASSUME NEW r \in Readers, Load(r) PROVE InHand'
  BY <1>4, Numbers DEF Load, TypeSource, Versions
<1>5. ASSUME NEW r \in Readers, Recheck(r) \/ LoadFails(r) PROVE InHand'
  BY <1>5 DEF Recheck, LoadFails, StaleOr
<1>6. ASSUME NEW r \in Readers, Finish(r) PROVE InHand'
  BY <1>6 DEF Finish
<1> QED BY <1>1, <1>2, <1>3, <1>4, <1>5, <1>6, ReaderMoves

LEMMA JoinableStep ==
  ASSUME TypeReaders, TypeSource, Committed, Joinable, [Next]_vars
  PROVE  Joinable'
<1> USE ReaderAssumption, Numbers DEF TypeReaders, PcStates, Joinable, Go
<1>1. CASE UNCHANGED <<group, pc, loaded, announced, forgetting>>
  BY <1>1
<1>2. ASSUME NEW v \in Versions, Forget(v) PROVE Joinable'
  BY <1>2 DEF Forget
<1>3. CASE Delete
  BY <1>3 DEF Delete, TypeSource
<1>4. ASSUME NEW r \in Readers, Lead(r) PROVE Joinable'
  BY <1>4 DEF Lead, SourceUnchanged
<1>5. ASSUME NEW r \in Readers, Load(r) PROVE Joinable'
  BY <1>5 DEF Load, SourceUnchanged, Committed, TypeSource, Versions
<1>6. ASSUME NEW r \in Readers, Finish(r) PROVE Joinable'
  BY <1>6 DEF Finish, Answered, SourceUnchanged
<1>7. ASSUME NEW r \in Readers, Miss(r) \/ Join(r) PROVE Joinable'
  BY <1>7 DEF Miss, Join, SourceUnchanged
<1>8. ASSUME NEW r \in Readers, SetFor(r) PROVE Joinable'
  BY <1>8 DEF SetFor, SourceUnchanged
<1>9. ASSUME NEW r \in Readers, Recheck(r) \/ LoadFails(r) PROVE Joinable'
  BY <1>9 DEF Recheck, LoadFails, StaleOr, SourceUnchanged
<1>10. \/ UNCHANGED <<group, pc, loaded, announced, forgetting>>
       \/ Delete \/ \E v \in Versions : Forget(v)
       \/ \E r \in Readers : \/ Miss(r) \/ Join(r) \/ Lead(r) \/ Load(r) \/ SetFor(r)
                             \/ Recheck(r) \/ LoadFails(r) \/ Finish(r)
  BY Zenon DEF Next, vars, Flight, Commit, Evict, Tick, BroadcastLost, SourceUnchanged
<1> QED BY <1>1, <1>2, <1>3, <1>4, <1>5, <1>6, <1>7, <1>8, <1>9, <1>10

-----------------------------------------------------------------------------
(* Ages                                                                     *)

Newest == \A v \in Versions : v >= source => outdated[v] = 0
EntryAge == /\ entry.fresh > 0 => outdated[entry.ver] + entry.fresh <= TTL + Jitter
            /\ entry.keep > 0 => outdated[entry.ver] + entry.keep <= Longest
ReaderAge == /\ \A r \in Readers : pc[r] = "store" => outdated[loaded[r]] = 0
             /\ \A r \in Readers :
                   pc[r] = "finish" /\ loaded[r] # 0 => outdated[loaded[r]] <= Longest

LEMMA AgesAre == Ages <=> Newest /\ (~slow => EntryAge /\ ReaderAge)
BY Zenon DEF Ages, Newest, EntryAge, ReaderAge

LEMMA NewestStep == ASSUME TypeSource, Newest, [Next]_vars PROVE Newest'
<1> USE Numbers DEF TypeSource, Versions, Newest
<1>1. CASE UNCHANGED <<source, outdated>>
  BY <1>1
<1>2. CASE Commit
  BY <1>2 DEF Commit
<1>3. CASE Tick
  BY <1>3 DEF Tick
<1>4. UNCHANGED <<source, outdated>> \/ Commit \/ Tick
  BY Zenon DEF Next, vars, Flight, Evict, Miss, Join, Lead, Recheck, Load, SetFor, Finish,
     LoadFails, SourceUnchanged, Delete, BroadcastLost, Forget
<1> QED BY <1>1, <1>2, <1>3, <1>4

\* Only time ages, and it never unmarks a slow load.
LEMMA AgeMoves ==
  ASSUME [Next]_vars
  PROVE  Tick \/ (outdated' = outdated /\ slow' = slow)
BY Zenon DEF Next, vars, Flight, Evict, Miss, Join, Lead, Recheck, Load, SetFor, Finish,
   LoadFails, SourceUnchanged, Delete, BroadcastLost, Forget, Commit

LEMMA EntryAgeStep ==
  ASSUME TypeEntry, TypeSource, TypeReaders, InHand, EntryAge, ReaderAge, [Next]_vars
  PROVE  EntryAge'
<1> USE Numbers
<1>0. entry.keep > 0 => entry.ver \in Versions
  BY DEF TypeEntry, Versions
<1>a. entry.fresh \in Nat /\ entry.keep \in Nat /\ entry.fresh <= entry.keep
  BY DEF TypeEntry
<1>b. \A v \in Versions : outdated[v] \in Nat
  BY DEF TypeSource
<1>1. CASE entry' = Absent
  BY <1>1 DEF EntryAge, Absent
<1>2. CASE entry' = entry /\ outdated' = outdated
  BY <1>2 DEF EntryAge
<1>3. CASE Tick
  <2>1. \A v \in Versions : outdated'[v] \in Nat /\ outdated'[v] <= outdated[v] + 1
    BY <1>3, <1>b DEF Tick
  <2>2. entry' = Aged
    BY <1>3 DEF Tick
  <2>3. CASE entry.keep > 1 /\ entry'.ver = entry.ver /\ entry'.keep = entry.keep - 1
             /\ entry'.fresh = IF entry.fresh = 0 THEN 0 ELSE entry.fresh - 1
    <3>1. entry.ver \in Versions
      BY <1>0, <1>a, <2>3
    <3>2. outdated'[entry.ver] <= outdated[entry.ver] + 1 /\ outdated'[entry.ver] \in Nat
          /\ outdated[entry.ver] \in Nat
      BY <1>b, <2>1, <3>1
    <3> QED BY <1>a, <2>3, <3>2 DEF EntryAge
  <2> QED BY <1>1, <2>2, <2>3, AgedIs
<1>4. ASSUME NEW r \in Readers, SetFor(r), Stores(r), outdated' = outdated PROVE EntryAge'
  <2>1. outdated[loaded[r]] = 0
    BY <1>4 DEF SetFor, ReaderAge
  <2>2. PICK t \in TTL .. TTL + Jitter :
           entry' = [ver |-> loaded[r], fresh |-> t, keep |-> t + StaleWindow]
    BY <1>4 DEF Stores
  <2>3. entry'.ver = loaded[r] /\ entry'.fresh = t /\ entry'.keep = t + StaleWindow
    BY <2>2
  <2> QED BY <1>4, <2>1, <2>3 DEF EntryAge
<1>5. ASSUME NEW r \in Readers, SetFor(r) PROVE outdated' = outdated
  BY <1>5 DEF SetFor, SourceUnchanged
<1> QED BY <1>1, <1>2, <1>3, <1>4, <1>5, EntryMoves, AgeMoves

LEMMA ReaderAgeStep ==
  ASSUME TypeEntry, TypeSource, TypeReaders, Newest, EntryAge, ReaderAge,
         outdated' = outdated, [Next]_vars
  PROVE  ReaderAge'
<1> USE Numbers DEF TypeReaders, PcStates, ReaderAge, Go
<1>0. outdated \in [Versions -> Nat] /\ source \in Versions /\ outdated[source] = 0
  BY DEF TypeSource, Newest, Versions
<1>1. CASE UNCHANGED <<group, pc, loaded>>
  BY <1>1
<1>2. ASSUME NEW v \in Versions, Forget(v) PROVE ReaderAge'
  BY <1>2 DEF Forget
<1>3. ASSUME NEW r \in Readers, Miss(r) \/ Join(r) \/ Lead(r) PROVE ReaderAge'
  BY <1>3 DEF Miss, Join, Lead
<1>4. ASSUME NEW r \in Readers, Load(r) PROVE ReaderAge'
  BY <1>0, <1>4 DEF Load
<1>5. ASSUME NEW r \in Readers, SetFor(r) PROVE ReaderAge'
  BY <1>5 DEF SetFor
<1>e. /\ entry.ver # 0 => outdated[entry.ver] <= Longest /\ entry.ver \in 0 .. MaxVersion
  <2>1. entry.ver # 0 => entry.keep > 0 /\ entry.ver \in Versions /\ entry.keep \in Nat
    BY DEF TypeEntry, Versions
  <2>2. entry.ver # 0 => outdated[entry.ver] \in Nat
    BY <1>0, <2>1
  <2> QED BY <2>1, <2>2 DEF EntryAge, TypeEntry
<1>6. ASSUME NEW r \in Readers, Recheck(r) PROVE ReaderAge'
  BY <1>e, <1>6 DEF Recheck
<1>7. ASSUME NEW r \in Readers, LoadFails(r) PROVE ReaderAge'
  BY <1>e, <1>7 DEF LoadFails, StaleOr
<1>8. ASSUME NEW r \in Readers, Finish(r) PROVE ReaderAge'
  BY <1>8 DEF Finish
<1> QED BY <1>1, <1>2, <1>3, <1>4, <1>5, <1>6, <1>7, <1>8, ReaderMoves

LEMMA AgesStep ==
  ASSUME TypeInv, InHand, Ages, [Next]_vars
  PROVE  Ages'
<1>1. TypeEntry /\ TypeSource /\ TypeReaders
  BY DEF TypeInv
<1>2. Newest'
  BY <1>1, AgesAre, NewestStep
<1>3. ASSUME ~slow' PROVE EntryAge' /\ ReaderAge'
  <2>1. ~slow
    BY <1>3, AgeMoves, Zenon DEF Tick
  <2>2. EntryAge /\ ReaderAge /\ Newest
    BY <2>1, AgesAre, Zenon
  <2>3. CASE Tick
    <3>1. \A r \in Readers : pc'[r] \notin {"store", "finish"}
      BY <1>3, <2>3, Zenon DEF Tick
    <3> QED BY <1>1, <2>2, <3>1, EntryAgeStep DEF ReaderAge
  <2>4. CASE outdated' = outdated
    BY <1>1, <2>2, <2>4, EntryAgeStep, ReaderAgeStep
  <2> QED BY <2>3, <2>4, AgeMoves
<1> QED BY <1>2, <1>3 DEF Ages, Newest, EntryAge, ReaderAge

-----------------------------------------------------------------------------
LEMMA CacheInit == Init => CacheInv
<1> SUFFICES ASSUME Init PROVE CacheInv
  OBVIOUS
<1>1. TypeEntry /\ TypeSource /\ TypeReaders
  BY Numbers DEF Init, Absent, TypeEntry, TypeSource, TypeReaders, Versions, PcStates
<1>2. slow \in BOOLEAN
  BY Zenon DEF Init
<1>3. InHand /\ Committed /\ Joinable
  BY Numbers DEF Init, InHand, Committed, Joinable
<1>4. Newest /\ EntryAge /\ ReaderAge
  BY Numbers DEF Init, Absent, Newest, EntryAge, ReaderAge
<1> QED BY <1>1, <1>2, <1>3, <1>4, AgesAre DEF CacheInv, TypeInv

LEMMA CacheStep == CacheInv /\ [Next]_vars => CacheInv'
<1> SUFFICES ASSUME CacheInv, [Next]_vars PROVE CacheInv'
  OBVIOUS
<1>0. TypeEntry /\ TypeSource /\ TypeReaders /\ InHand /\ Committed /\ Joinable /\ Ages /\ TypeInv
  BY DEF CacheInv, TypeInv
<1>1. TypeEntry' /\ TypeSource' /\ TypeReaders'
  BY <1>0, EntryStep, SourceStep, ReadersStep DEF InHand
<1>2. slow' \in BOOLEAN
  BY <1>0, SlowStep, Zenon DEF TypeInv
<1>3. InHand' /\ Committed' /\ Joinable' /\ Ages'
  BY <1>0, InHandStep, CommittedStep, JoinableStep, AgesStep
<1> QED BY <1>1, <1>2, <1>3, Zenon DEF CacheInv, TypeInv

LEMMA CacheAlways == Spec => []CacheInv
BY CacheInit, CacheStep, PTL DEF Spec

\* Entries, flights and versions are what GetOrLoadTTL, load and SetFor make them.
THEOREM TypeCorrect == Spec => []TypeOK
<1>1. CacheInv => TypeOK
  BY Parts DEF CacheInv
<1> QED BY <1>1, CacheAlways, PTL

\* Whoever joins a flight after Invalidate gets the change it was called for
\* (Invalidate forgets the flights under way before it deletes the entry).
THEOREM JoinedFlightsAreCurrent == Spec => []JoinableIsCurrent
<1>1. CacheInv => JoinableIsCurrent
  BY DEF CacheInv, Joinable, JoinableIsCurrent
<1> QED BY <1>1, CacheAlways, PTL

\* An answer is no older than the lifetime of an entry, broadcasts lost or not,
\* while loads are quick (SetFor, staleOr).
THEOREM AnswersAgeAtMost == Spec => []StalenessBounded
<1>1. CacheInv => StalenessBounded
  <2> SUFFICES ASSUME CacheInv, ~slow PROVE /\ Fresh => outdated[entry.ver] <= TTL + Jitter
                                            /\ Present => outdated[entry.ver] <= Longest
                                            /\ \A r \in Readers :
                                                 pc[r] = "finish" /\ loaded[r] # 0 =>
                                                   outdated[loaded[r]] <= Longest
    BY Zenon DEF StalenessBounded
  <2>1. EntryAge /\ ReaderAge /\ TypeEntry /\ TypeSource
    BY AgesAre, Zenon DEF CacheInv, TypeInv
  <2>2. entry.keep > 0 => outdated[entry.ver] \in Nat
    BY <2>1, Numbers DEF TypeEntry, TypeSource, Versions
  <2>3. entry.fresh \in Nat /\ entry.keep \in Nat /\ entry.fresh <= entry.keep
    BY <2>1, Numbers DEF TypeEntry
  <2> QED BY <2>1, <2>2, <2>3, Numbers DEF EntryAge, ReaderAge, Fresh, Present
<1> QED BY <1>1, CacheAlways, PTL
=============================================================================
