----------------------- MODULE ChannelLifecycleProofs -----------------------
(***************************************************************************)
(* The newest fact governs, service is earned and nothing is forgotten, for *)
(* any number of workers, events, commands and faults.                      *)
(***************************************************************************)
EXTENDS ChannelLifecycle, TLAPS

Work_ == [at : Stages, fresh : BOOLEAN, clean : BOOLEAN, seen : Moments]

\* The three parts of TypeOK.
TypeAcc == acc \in Records /\ (acc.due => acc.state \in {"recovering", "degraded"})

TypeWork == /\ workers \in [Workers -> Work_]
            /\ observer \in [fact : Grants \cup {NoFact}, fresh : BOOLEAN]

TypeRest ==
    /\ service \in BOOLEAN /\ twitch \in {"none", "banned", "timeout"}
    /\ consent \in {"given", "withdrawn"}
    /\ ends \in 0 .. Horizon /\ clock \in 0 .. Horizon /\ events \in 0 .. MaxEvents
    /\ bus \subseteq Moderation \cup Grants
    /\ lifted \in Moments /\ handled \subseteq Moderation
    /\ earned \in BOOLEAN /\ parked \in BOOLEAN
    /\ commands \in 0 .. MaxCommands /\ faults \in 0 .. MaxFaults

\* How far time can have come by the events that happened.
Reach == events * (TimeoutLength + 1)

Times == /\ clock <= Reach /\ ends <= Reach /\ acc.until <= Reach
         /\ \A f \in bus : f.at \in Nat /\ (f.at \div 2) + TimeoutLength <= Reach

LEMMA Parts == TypeOK <=> TypeAcc /\ TypeWork /\ TypeRest
BY DEF TypeOK, TypeAcc, TypeWork, TypeRest, Work_

LEMMA HorizonType == Horizon \in Nat /\ TimeoutLength \in Nat /\ MaxEvents \in Nat
BY CountAssumption DEF Horizon

LEMMA ReachBound ==
  ASSUME NEW e \in 0 .. MaxEvents
  PROVE  /\ e * (TimeoutLength + 1) \in Nat /\ e * (TimeoutLength + 1) <= Horizon
         /\ (e + 1) * (TimeoutLength + 1) = e * (TimeoutLength + 1) + TimeoutLength + 1
<1> DEFINE n == TimeoutLength + 1
<1>1. n \in Nat /\ MaxEvents \in Nat /\ e \in Nat /\ MaxEvents - e \in Nat
  BY CountAssumption
<1>2. \A a, b, c \in Nat : (a + b) * c = a * c + b * c /\ a * c \in Nat
  OBVIOUS
<1>3. (e + (MaxEvents - e)) * n = e * n + (MaxEvents - e) * n /\ (MaxEvents - e) * n \in Nat
      /\ e * n \in Nat /\ (e + 1) * n = e * n + 1 * n
  BY <1>1, <1>2
<1>4. e + (MaxEvents - e) = MaxEvents /\ 1 * n = n
  BY <1>1
<1>5. MaxEvents * n = e * n + (MaxEvents - e) * n /\ (e + 1) * n = e * n + n
  BY <1>3, <1>4
<1>6. Horizon = MaxEvents * n
  BY DEF Horizon
<1> HIDE DEF n
<1>7. e * n \in Nat /\ e * n <= Horizon /\ (e + 1) * n = e * n + n
  BY <1>3, <1>5, <1>6
<1>8. n = TimeoutLength + 1
  BY DEF n
<1> QED BY <1>1, <1>7, <1>8, CountAssumption

-----------------------------------------------------------------------------
(* Types *)

LEMMA Ranges ==
  /\ Horizon \in Nat /\ MaxEvents \in Nat /\ TimeoutLength \in Nat /\ MaxAttempts \in Nat
  /\ RetractionLimit \in Nat /\ 0 \in Moments /\ 0 \in 0 .. Horizon /\ 0 \in 0 .. MaxAttempts
  /\ Moments \subseteq Nat
BY CountAssumption DEF Horizon, Moments

LEMMA Restricting ==
  ASSUME NEW a \in Records
  PROVE  /\ Restrict(a) \in Records /\ ~Restrict(a).due
         /\ Restrict(a).until = a.until
BY DEF Records, Restrict

LEMMA RecoveringType ==
  ASSUME NEW a \in Records
  PROVE  /\ Recovering(a) \in Records /\ Recovering(a).state = "recovering"
         /\ Recovering(a).until = a.until
BY Ranges DEF Records, Recovering

LEMMA WorkersTypes ==
  ASSUME TypeWork
  PROVE  /\ Superseded \in [Workers -> Work_] /\ Stopped \in [Workers -> Work_]
         /\ [observer EXCEPT !.fresh = FALSE] \in [fact : Grants \cup {NoFact}, fresh : BOOLEAN]
         /\ Idle \in Work_ /\ NoObserver \in [fact : Grants \cup {NoFact}, fresh : BOOLEAN]
BY Ranges DEF TypeWork, Work_, Superseded, Stopped, Idle, NoObserver, Stages

LEMMA GoesType ==
  ASSUME TypeWork, NEW w \in Workers, NEW from \in Stages, NEW to \in Stages, Goes(w, from, to)
  PROVE  workers' \in [Workers -> Work_]
<1> DEFINE c == workers[w].clean /\ to # "failed"
           s == IF to = "verify" THEN workers[w].seen ELSE 0
<1>1. workers[w] \in Work_ /\ c \in BOOLEAN /\ s \in Moments
  BY Ranges DEF TypeWork, Work_
<1>2. workers' = [workers EXCEPT ![w] = [at |-> to, fresh |-> workers[w].fresh, clean |-> c, seen |-> s]]
  BY DEF Goes
<1> HIDE DEF c, s
<1>3. [at |-> to, fresh |-> workers[w].fresh, clean |-> c, seen |-> s] \in Work_
  BY <1>1 DEF Work_
<1> QED BY <1>2, <1>3 DEF TypeWork

LEMMA BumpType == TypeWork /\ (Bump \/ Stop \/ Keep) => TypeWork'
BY WorkersTypes DEF Bump, Stop, Keep, TypeWork

\* Every action, and what it does to the workers.
LEMMA TypeWorkStep == TypeOK /\ [Next]_vars => TypeWork'
<1> SUFFICES ASSUME TypeOK, [Next]_vars PROVE TypeWork'
  OBVIOUS
<1>0. TypeWork /\ TypeAcc /\ TypeRest /\ clock \in Nat /\ 2 * clock + 1 \in Moments
  <2>1. TypeWork /\ TypeAcc /\ TypeRest
    BY Parts
  <2> QED BY <2>1, Ranges DEF TypeRest, Moments
<1> USE DEF Stages
<1>1. CASE UNCHANGED vars \/ UNCHANGED <<workers, observer>>
  BY <1>0, <1>1 DEF vars, TypeWork
<1>2. CASE Twitch
  BY <1>1, <1>2, Zenon DEF Twitch, Moderate, Happen, RevokeChat, GrantEvent, Tick
<1>3. CASE People
  <2>1. Bump \/ Stop \/ UNCHANGED <<workers, observer>>
    BY <1>3, Zenon DEF People, Enable, Disable, RetryRecovery, SetBanned
  <2> QED BY <1>0, <1>1, <2>1, BumpType
<1>4. ASSUME NEW f \in bus, NEW again \in BOOLEAN, ObserveModeration(f, again) PROVE TypeWork'
  <2>1. Bump \/ Stop \/ Keep
    BY <1>4, Zenon DEF ObserveModeration
  <2> QED BY <1>0, <2>1, BumpType
<1>5. ASSUME NEW f \in bus, ReadForGrant(f) PROVE TypeWork'
  BY <1>0, <1>5 DEF ReadForGrant, TypeWork
<1>6. ASSUME NEW again \in BOOLEAN, ObserveGrant(again) PROVE TypeWork'
  <2>1. observer' = NoObserver /\ workers' \in {Stopped, Superseded, workers}
    BY <1>6, Zenon DEF ObserveGrant
  <2> QED BY <1>0, <2>1, WorkersTypes DEF TypeWork
<1>7. CASE ObserverDies
  BY <1>0, <1>7, WorkersTypes DEF ObserverDies, TypeWork
<1>8. CASE Due
  <2>1. Bump \/ Keep \/ UNCHANGED <<workers, observer>>
    BY <1>8, Zenon DEF Due, ExpireTimeout, AttemptDue, RetryDegraded, RetractionAcked
  <2> QED BY <1>0, <1>1, <2>1, BumpType
<1>9. ASSUME NEW w \in Workers, Claim(w) PROVE TypeWork'
  <2>1. \/ Bump
        \/ /\ workers' = [workers EXCEPT ![w] =
                            [at |-> "get", fresh |-> TRUE, clean |-> TRUE, seen |-> 0]]
           /\ UNCHANGED observer
    BY <1>9, Zenon DEF Claim
  <2>2. [at |-> "get", fresh |-> TRUE, clean |-> TRUE, seen |-> 0] \in Work_
    BY Ranges DEF Work_
  <2> QED BY <1>0, <2>1, <2>2, BumpType DEF TypeWork
<1>10. ASSUME NEW w \in Workers, GetCurrent(w) PROVE TypeWork'
  <2>1. PICK to \in Stages : Goes(w, "get", to)
    BY <1>10 DEF GetCurrent
  <2> QED BY <1>0, <2>1, GoesType DEF Goes, TypeWork
<1>11. ASSUME NEW w \in Workers, NoteTime(w) PROVE TypeWork'
  <2>1. [workers[w] EXCEPT !.at = "ask", !.seen = 2 * clock + 1] \in Work_
    BY <1>0 DEF TypeWork, Work_
  <2> QED BY <1>0, <1>11, <2>1 DEF NoteTime, TypeWork
<1>12. ASSUME NEW w \in Workers, BotBanned(w) PROVE TypeWork'
  <2>1. PICK to \in Stages : Goes(w, "ask", to)
    BY <1>12 DEF BotBanned
  <2> QED BY <1>0, <2>1, GoesType DEF Goes, TypeWork
<1>13. ASSUME NEW w \in Workers, VerifyUnban(w) PROVE TypeWork'
  <2>1. PICK to \in Stages : Goes(w, "verify", to)
    BY <1>13 DEF VerifyUnban
  <2> QED BY <1>0, <2>1, GoesType DEF Goes, TypeWork
<1>14. ASSUME NEW w \in Workers, Enroll(w) PROVE TypeWork'
  <2>1. PICK to \in Stages : Goes(w, "enroll", to)
    BY <1>14 DEF Enroll
  <2> QED BY <1>0, <2>1, GoesType DEF Goes, TypeWork
<1>15. ASSUME NEW w \in Workers, CallFails(w) PROVE TypeWork'
  <2>1. PICK from \in Stages : Goes(w, from, "failed")
    BY <1>15 DEF CallFails
  <2> QED BY <1>0, <2>1, GoesType DEF Goes, TypeWork
<1>16. ASSUME NEW w \in Workers, WorkerDies(w) \/ FinishOk(w) \/ FinishFailed(w)
       PROVE  TypeWork'
  <2>1. /\ workers' \in {[workers EXCEPT ![w] = Idle], [Superseded EXCEPT ![w] = Idle]}
        /\ observer' \in {observer, [observer EXCEPT !.fresh = FALSE]}
    BY <1>16, Zenon DEF WorkerDies, FinishOk, FinishFailed
  <2>2. /\ [workers EXCEPT ![w] = Idle] \in [Workers -> Work_]
        /\ [Superseded EXCEPT ![w] = Idle] \in [Workers -> Work_]
    BY <1>0, WorkersTypes DEF TypeWork
  <2>3. observer' \in [fact : Grants \cup {NoFact}, fresh : BOOLEAN]
    BY <1>0, <2>1, WorkersTypes DEF TypeWork
  <2> QED BY <2>1, <2>2, <2>3 DEF TypeWork
<1> QED BY <1>1, <1>2, <1>3, <1>4, <1>5, <1>6, <1>7, <1>8, <1>9, <1>10, <1>11, <1>12,
           <1>13, <1>14, <1>15, <1>16, Zenon DEF Next, Events, Work

DueOK(a) == a.due => a.state \in {"recovering", "degraded"}

LEMMA RecoverType ==
  ASSUME NEW a \in Records, DueOK(a) PROVE Recover(a) \in Records /\ DueOK(Recover(a))
BY RecoveringType DEF Recover, DueOK

LEMMA RestrictDue == ASSUME NEW a \in Records PROVE DueOK(Restrict(a))
BY Restricting DEF DueOK

LEMMA ModeratedType ==
  ASSUME TypeAcc, NEW f \in Moderation, f.at \in Nat,
         (f.at \div 2) + TimeoutLength <= Horizon
  PROVE  Moderated(f) \in Records /\ DueOK(Moderated(f))
<1> DEFINE a == [acc EXCEPT !.modAt = f.at, !.modId = f.kind]
<1>1. a \in Records /\ DueOK(a)
  BY DEF TypeAcc, Records, Moderation, DueOK
<1>2. (f.at \div 2) + TimeoutLength \in 0 .. Horizon
  BY Ranges
<1> HIDE DEF a
<1>3. /\ [a EXCEPT !.chat = "none", !.until = 0] \in Records
      /\ DueOK([a EXCEPT !.chat = "none", !.until = 0])
      /\ [a EXCEPT !.chat = "timeout", !.until = (f.at \div 2) + TimeoutLength] \in Records
      /\ [a EXCEPT !.chat = "banned", !.until = 0, !.incident = TRUE] \in Records
  BY <1>1, <1>2, Ranges DEF Records, DueOK
<1>4. /\ Unbanned(a) \in Records /\ DueOK(Unbanned(a))
      /\ TimedOut(a, f) \in Records /\ DueOK(TimedOut(a, f))
      /\ Banned(a) \in Records /\ DueOK(Banned(a))
  BY <1>3, RecoverType, Restricting, RestrictDue DEF Unbanned, TimedOut, Banned
<1>5. Moderated(f) \in {Unbanned(a), TimedOut(a, f), Banned(a)}
  BY Zenon DEF Moderated, a
<1> QED BY <1>4, <1>5

LEMMA TypeAccStep == TypeOK /\ Times /\ [Next]_vars => TypeAcc'
<1> SUFFICES ASSUME TypeOK, Times, [Next]_vars PROVE TypeAcc'
  OBVIOUS
<1>0. TypeAcc /\ TypeWork /\ TypeRest /\ acc \in Records /\ DueOK(acc)
  BY Parts DEF TypeAcc, DueOK
<1>00. ASSUME acc' \in Records, DueOK(acc') PROVE TypeAcc'
  BY <1>00 DEF TypeAcc, DueOK
<1>1. CASE UNCHANGED acc
  BY <1>0, <1>1, <1>00
<1>2. CASE UNCHANGED vars \/ Twitch
  BY <1>1, <1>2, Zenon DEF vars, Twitch, Moderate, Happen, RevokeChat, GrantEvent, Tick
<1>3. CASE Enable
  <2> DEFINE a == [acc EXCEPT !.desired = TRUE]
  <2>1. a \in Records /\ DueOK(a)
    BY <1>0 DEF Records, DueOK
  <2>2. acc' = Restrict(a) \/ acc' = Recover(a)
    BY <1>3 DEF Enable
  <2> HIDE DEF a
  <2> QED BY <1>00, <2>1, <2>2, RecoverType, Restricting, RestrictDue
<1>4. CASE Disable
  <2>1. acc' \in Records /\ DueOK(acc')
    BY <1>0, <1>4 DEF Disable, Records, DueOK
  <2> QED BY <1>00, <2>1
<1>5. CASE RetryRecovery
  <2>1. acc' = Recovering(acc)
    BY <1>5 DEF RetryRecovery
  <2> QED BY <1>0, <1>00, <2>1, RecoveringType DEF DueOK
<1>6. CASE SetBanned
  BY <1>1, <1>6 DEF SetBanned
<1>7. ASSUME NEW f \in bus, NEW again \in BOOLEAN, ObserveModeration(f, again) PROVE TypeAcc'
  <2>1. f \in Moderation /\ f.at \in Nat /\ (f.at \div 2) + TimeoutLength <= Horizon
    <3>1. f \in Moderation
      BY <1>7 DEF ObserveModeration
    <3>2. Reach \in Nat /\ Reach <= Horizon
      BY <1>0, ReachBound DEF TypeRest, Reach
    <3> QED BY <3>1, <3>2, Ranges DEF Times
  <2>2. acc' = Moderated(f) \/ acc' = acc
    BY <1>7 DEF ObserveModeration
  <2> QED BY <1>0, <1>00, <2>1, <2>2, ModeratedType
<1>8. ASSUME NEW f \in bus, ReadForGrant(f) PROVE TypeAcc'
  BY <1>1, <1>8 DEF ReadForGrant
<1>9. ASSUME NEW again \in BOOLEAN, ObserveGrant(again) PROVE TypeAcc'
  <2> DEFINE f == observer.fact
             a == [acc EXCEPT !.grantAt = f.at, !.grantId = f.kind]
  <2>1. f \in Grants
    BY <1>0, <1>9 DEF ObserveGrant, TypeWork
  <2> HIDE DEF f
  <2>2. a \in Records /\ DueOK(a)
    BY <1>0, <2>1 DEF Grants, Records, DueOK
  <2> HIDE DEF a
  <2>3. /\ [a EXCEPT !.grant = "missing", !.incident = TRUE] \in Records
        /\ [a EXCEPT !.grant = "healthy"] \in Records
        /\ DueOK([a EXCEPT !.grant = "healthy"])
    BY <2>2 DEF Records, DueOK
  <2>4. \/ acc' = Restrict([a EXCEPT !.grant = "missing", !.incident = TRUE])
        \/ acc' = Recover([a EXCEPT !.grant = "healthy"])
        \/ acc' \in {a, acc}
    BY <1>9, Zenon DEF ObserveGrant, a, f
  <2> QED BY <1>0, <1>00, <2>2, <2>3, <2>4, RecoverType, Restricting, RestrictDue
<1>10. CASE ObserverDies
  BY <1>1, <1>10 DEF ObserverDies
<1>11. CASE ExpireTimeout
  <2> DEFINE a == [acc EXCEPT !.chat = "none", !.until = 0]
  <2>1. a \in Records /\ DueOK(a)
    BY <1>0, Ranges DEF Records, DueOK
  <2>2. acc' = Recover(a)
    BY <1>11 DEF ExpireTimeout
  <2> HIDE DEF a
  <2> QED BY <1>00, <2>1, <2>2, RecoverType
<1>12. CASE AttemptDue
  <2>1. acc' \in Records /\ DueOK(acc')
    BY <1>0, <1>12 DEF AttemptDue, Awaited, Records, DueOK
  <2> QED BY <1>00, <2>1
<1>20. CASE RetractionAcked
  <2>1. acc.retractions - 1 \in 0 .. RetractionLimit
    BY <1>0, <1>20, CountAssumption DEF RetractionAcked, Records
  <2>2. acc' = [acc EXCEPT !.retractions = acc.retractions - 1]
    BY <1>20 DEF RetractionAcked
  <2>3. acc' \in Records /\ DueOK(acc')
    BY <1>0, <2>1, <2>2 DEF Records, DueOK
  <2> QED BY <1>00, <2>3
<1>13. CASE RetryDegraded
  <2>1. [acc EXCEPT !.due = FALSE] \in Records /\ DueOK([acc EXCEPT !.due = FALSE])
    BY <1>0 DEF Records, DueOK
  <2>2. acc' = [acc EXCEPT !.due = FALSE] \/ acc' = Recovering(acc)
    BY <1>13 DEF RetryDegraded
  <2> QED BY <1>0, <1>00, <2>1, <2>2, RecoveringType DEF DueOK
<1>14. Degraded \in Records /\ DueOK(Degraded)
  BY <1>0 DEF Degraded, Records, DueOK
<1>15. ASSUME NEW w \in Workers, Claim(w) PROVE TypeAcc'
  <2>1. CASE acc.attempts >= MaxAttempts
    BY <1>00, <1>14, <1>15, <2>1 DEF Claim
  <2>2. CASE ~(acc.attempts >= MaxAttempts)
    <3>1. acc' = [acc EXCEPT !.attempts = acc.attempts + 1, !.due = FALSE]
      BY <1>15, <2>2 DEF Claim
    <3>2. acc.attempts + 1 \in 0 .. MaxAttempts
      BY <1>0, <2>2, CountAssumption DEF Records
    <3>3. acc' \in Records /\ DueOK(acc')
      BY <1>0, <3>1, <3>2 DEF Records, DueOK
    <3> QED BY <1>00, <3>3
  <2> QED BY <2>1, <2>2
<1>16. ASSUME NEW w \in Workers,
              GetCurrent(w) \/ NoteTime(w) \/ BotBanned(w) \/ Enroll(w) \/ CallFails(w)
                \/ WorkerDies(w)
       PROVE  TypeAcc'
  BY <1>1, <1>16, Zenon
     DEF GetCurrent, NoteTime, BotBanned, Enroll, CallFails, WorkerDies
<1>17. ASSUME NEW w \in Workers, VerifyUnban(w) PROVE TypeAcc'
  <2> DEFINE a == [acc EXCEPT !.chat = "none", !.until = 0, !.modAt = workers[w].seen,
                              !.modId = "verified"]
  <2>1. workers[w].seen \in Moments
    BY <1>0 DEF TypeWork, Work_
  <2>2. a \in Records /\ DueOK(a)
    BY <1>0, <2>1, Ranges DEF Records, DueOK
  <2>3. acc' = a \/ acc' = acc
    BY <1>17 DEF VerifyUnban
  <2> HIDE DEF a
  <2> QED BY <1>0, <1>00, <2>2, <2>3
<1>18. ASSUME NEW w \in Workers, FinishOk(w) PROVE TypeAcc'
  <2>1. CASE RecoveryMatches(w) /\ CanSucceed
    <3>1. acc' = Succeeded
      BY <1>18, <2>1 DEF FinishOk
    <3>2. acc.retractions + (IF acc.incident THEN 1 ELSE 0) \in 0 .. RetractionLimit
      BY <1>0, <2>1, CountAssumption DEF CanSucceed, Records
    <3>3. Succeeded \in Records /\ DueOK(Succeeded)
      BY <1>0, <3>2 DEF Succeeded, Records, DueOK
    <3> QED BY <1>00, <3>1, <3>3
  <2>2. CASE ~(RecoveryMatches(w) /\ CanSucceed)
    BY <1>1, <1>18, <2>2 DEF FinishOk
  <2> QED BY <2>1, <2>2
<1>19. ASSUME NEW w \in Workers, FinishFailed(w) PROVE TypeAcc'
  <2>1. [acc EXCEPT !.due = FALSE] \in Records /\ DueOK([acc EXCEPT !.due = FALSE])
    BY <1>0 DEF Records, DueOK
  <2>2. acc' \in {acc, Degraded, [acc EXCEPT !.due = FALSE]}
    BY <1>19, Zenon DEF FinishFailed
  <2> QED BY <1>0, <1>00, <1>14, <2>1, <2>2
<1> QED BY <1>2, <1>3, <1>4, <1>5, <1>6, <1>7, <1>8, <1>9, <1>10, <1>11, <1>12, <1>13, <1>15,
           <1>16, <1>17, <1>18, <1>19, <1>20, Zenon
       DEF Next, People, Events, Due, Work

LEMMA BoolStep == TypeOK /\ [Next]_vars => service' \in BOOLEAN /\ parked' \in BOOLEAN
<1> SUFFICES ASSUME TypeOK, [Next]_vars PROVE service' \in BOOLEAN /\ parked' \in BOOLEAN
  OBVIOUS
<1>1. service \in BOOLEAN /\ parked \in BOOLEAN
  BY Zenon DEF TypeOK
<1>2. CASE SetBanned
  BY <1>2, Zenon DEF SetBanned
<1>3. CASE ~SetBanned
  <2>1. service' = service /\ parked' = parked
    BY <1>3, Zenon DEF Next, Twitch, People, Events, Work, Due, vars, Moderate, Happen, RevokeChat,
       GrantEvent, Tick, Enable, Disable, RetryRecovery, ObserveModeration, ReadForGrant,
       ObserveGrant, ObserverDies, ExpireTimeout, AttemptDue, RetryDegraded, RetractionAcked,
       Claim, GetCurrent, NoteTime, BotBanned, VerifyUnban, Enroll, CallFails, WorkerDies,
       FinishOk, FinishFailed, Goes
  <2> QED BY <1>1, <2>1, Zenon
<1> QED BY <1>2, <1>3

LEMMA EarnedStep == TypeOK /\ [Next]_vars => earned' \in BOOLEAN
<1> SUFFICES ASSUME TypeOK, [Next]_vars PROVE earned' \in BOOLEAN
  OBVIOUS
<1>1. earned \in BOOLEAN /\ \A w \in Workers : workers[w].clean \in BOOLEAN
  BY DEF TypeOK
<1>2. earned' = earned \/ \E w \in Workers : earned' = workers[w].clean
  BY Zenon DEF Next, Twitch, People, Events, Work, Due, vars, Moderate, Happen, RevokeChat,
     GrantEvent, Tick, Enable, Disable, RetryRecovery, SetBanned, ObserveModeration, ReadForGrant,
     ObserveGrant, ObserverDies, ExpireTimeout, AttemptDue, RetryDegraded, RetractionAcked,
     Claim, GetCurrent, NoteTime, BotBanned, VerifyUnban, Enroll, CallFails, WorkerDies,
     FinishOk, FinishFailed, Goes
<1> QED BY <1>1, <1>2, Zenon

\* Clock, events and bus move with the events of Twitch and are consumed.
LEMMA HappenRest ==
  ASSUME TypeOK, Times, NEW kind \in Restrictions \cup {"unban", "missing", "restored"},
         Happen(kind)
  PROVE  /\ clock' \in 0 .. Horizon /\ events' \in 0 .. MaxEvents
         /\ bus' \subseteq Moderation \cup Grants
         /\ Reach' = Reach + TimeoutLength + 1 /\ clock' <= Reach' /\ Reach' \in Nat
         /\ clock + 1 + TimeoutLength <= Reach' /\ Reach' <= Horizon
         /\ \A f \in bus' : f.at \in Nat /\ (f.at \div 2) + TimeoutLength <= Reach'
<1>1. clock \in Nat /\ events \in 0 .. MaxEvents /\ bus \subseteq Moderation \cup Grants
  BY Parts, Ranges DEF TypeRest
<1>2. /\ events + 1 \in 0 .. MaxEvents /\ events' = events + 1 /\ clock' = clock + 1
      /\ bus' \subseteq bus \cup {[kind |-> kind, at |-> 2 * (clock + 1)]}
  BY <1>1, Ranges DEF Happen
<1>3. Reach' = Reach + TimeoutLength + 1 /\ Reach \in Nat /\ Reach' \in Nat /\ Reach' <= Horizon
  BY <1>1, <1>2, ReachBound DEF Reach
<1>4. clock' <= Reach' /\ clock + 1 + TimeoutLength <= Reach' /\ clock' \in 0 .. Horizon
  BY <1>1, <1>2, <1>3, Ranges DEF Times
<1>5. (2 * (clock + 1)) \div 2 = clock + 1 /\ 2 * (clock + 1) \in Moments
      /\ 2 * (clock + 1) \in Nat
  BY <1>1, <1>2, <1>4, Ranges DEF Moments
<1>6. [kind |-> kind, at |-> 2 * (clock + 1)] \in Moderation \cup Grants
  BY <1>5 DEF Moderation, Grants
<1>7. \A f \in bus' : f.at \in Nat /\ (f.at \div 2) + TimeoutLength <= Reach'
  <2> SUFFICES ASSUME NEW f \in bus'
               PROVE  f.at \in Nat /\ (f.at \div 2) + TimeoutLength <= Reach'
    OBVIOUS
  <2>1. CASE f \in bus
    <3>1. f.at \in Nat /\ (f.at \div 2) + TimeoutLength <= Reach /\ f.at \div 2 \in Nat
      BY <2>1 DEF Times
    <3> QED BY <1>3, <3>1, Ranges
  <2>2. CASE f = [kind |-> kind, at |-> 2 * (clock + 1)]
    <3>1. f.at = 2 * (clock + 1)
      BY <2>2
    <3> QED BY <1>4, <1>5, <3>1
  <2> QED BY <1>2, <2>1, <2>2
<1> QED BY <1>1, <1>2, <1>3, <1>4, <1>6, <1>7

\* The end of a known timeout is one an event has named.
LEMMA UntilStep ==
  TypeOK /\ [Next]_vars =>
    acc'.until \in {acc.until, 0} \cup {(f.at \div 2) + TimeoutLength : f \in bus}
<1> SUFFICES ASSUME TypeOK, [Next]_vars
             PROVE  acc'.until \in {acc.until, 0}
                                   \cup {(f.at \div 2) + TimeoutLength : f \in bus}
  OBVIOUS
<1>0. acc \in Records /\ observer.fact \in Grants \cup {NoFact}
  BY DEF TypeOK
<1>1. \A a \in Records : Recover(a).until = a.until
  BY DEF Recover, Recovering, Records
<1>2. CASE acc' = acc
  BY <1>2
<1>3. CASE Enable
  <2>1. [acc EXCEPT !.desired = TRUE] \in Records /\ [acc EXCEPT !.desired = TRUE].until = acc.until
    BY <1>0 DEF Records
  <2>2. \/ acc' = Restrict([acc EXCEPT !.desired = TRUE])
        \/ acc' = Recover([acc EXCEPT !.desired = TRUE])
    BY <1>3, Zenon DEF Enable
  <2> QED BY <1>1, <2>1, <2>2, Restricting
<1>4. CASE Disable \/ RetryRecovery \/ AttemptDue \/ RetryDegraded \/ RetractionAcked
  BY <1>0, <1>4 DEF Disable, RetryRecovery, AttemptDue, RetryDegraded, RetractionAcked,
     Recovering, Records
<1>5. ASSUME NEW f \in bus, NEW again \in BOOLEAN, ObserveModeration(f, again)
      PROVE  acc'.until \in {acc.until, 0} \cup {(g.at \div 2) + TimeoutLength : g \in bus}
  <2> DEFINE a == [acc EXCEPT !.modAt = f.at, !.modId = f.kind]
  <2>1. f \in Moderation
    BY <1>5 DEF ObserveModeration
  <2>2. a \in Records
    BY <1>0, <2>1 DEF Records, Moderation
  <2>3. acc' \in {acc, Unbanned(a), TimedOut(a, f), Banned(a)}
    BY <1>5, Zenon DEF ObserveModeration, Moderated
  <2> HIDE DEF a
  <2>4. [a EXCEPT !.chat = "none", !.until = 0] \in Records
    BY <2>2, Ranges DEF Records
  <2>5. Unbanned(a).until = 0
    BY <1>1, <2>2, <2>4 DEF Unbanned, Records
  <2>6. Banned(a).until = 0 /\ TimedOut(a, f).until = (f.at \div 2) + TimeoutLength
    BY <2>2 DEF Banned, TimedOut, Restrict, Records
  <2> QED BY <2>3, <2>5, <2>6
<1>6. ASSUME NEW again \in BOOLEAN, ObserveGrant(again)
      PROVE  acc'.until \in {acc.until, 0} \cup {(g.at \div 2) + TimeoutLength : g \in bus}
  <2> DEFINE f == observer.fact
             a == [acc EXCEPT !.grantAt = f.at, !.grantId = f.kind]
  <2>1. f \in Grants
    BY <1>0, <1>6 DEF ObserveGrant
  <2>2. a \in Records /\ a.until = acc.until
    BY <1>0, <2>1 DEF Grants, Records
  <2>3. \/ acc' = Restrict([a EXCEPT !.grant = "missing", !.incident = TRUE])
        \/ acc' = Recover([a EXCEPT !.grant = "healthy"])
        \/ acc' \in {a, acc}
    BY <1>6, Zenon DEF ObserveGrant
  <2> HIDE DEF a
  <2>4. [a EXCEPT !.grant = "healthy"] \in Records
        /\ [a EXCEPT !.grant = "healthy"].until = acc.until
        /\ Restrict([a EXCEPT !.grant = "missing", !.incident = TRUE]).until = acc.until
    BY <2>2 DEF Restrict, Records
  <2> QED BY <1>1, <2>2, <2>3, <2>4
<1>7. CASE ExpireTimeout
  <2>1. [acc EXCEPT !.chat = "none", !.until = 0] \in Records
    BY <1>0, Ranges DEF Records
  <2>2. [acc EXCEPT !.chat = "none", !.until = 0].until = 0
    BY <1>0 DEF Records
  <2>3. acc' = Recover([acc EXCEPT !.chat = "none", !.until = 0])
    BY <1>7 DEF ExpireTimeout
  <2> QED BY <1>1, <2>1, <2>2, <2>3
<1>8. ASSUME NEW w \in Workers,
             Claim(w) \/ VerifyUnban(w) \/ FinishOk(w) \/ FinishFailed(w)
      PROVE  acc'.until \in {acc.until, 0} \cup {(g.at \div 2) + TimeoutLength : g \in bus}
  <2>1. Degraded.until = acc.until /\ Succeeded.until = acc.until
    BY <1>0 DEF Degraded, Succeeded, Records
  <2>2. CASE Claim(w)
    BY <1>0, <2>1, <2>2 DEF Claim, Records
  <2>3. CASE VerifyUnban(w)
    BY <1>0, <2>3 DEF VerifyUnban, Records
  <2>4. CASE FinishOk(w)
    BY <2>1, <2>4 DEF FinishOk
  <2>5. CASE FinishFailed(w)
    BY <1>0, <2>1, <2>5 DEF FinishFailed, Records
  <2> QED BY <1>8, <2>2, <2>3, <2>4, <2>5
<1>9. \/ acc' = acc \/ Enable \/ Disable \/ RetryRecovery \/ AttemptDue \/ RetryDegraded
      \/ RetractionAcked \/ ExpireTimeout
      \/ \E f \in bus, again \in BOOLEAN : ObserveModeration(f, again)
      \/ \E again \in BOOLEAN : ObserveGrant(again)
      \/ \E w \in Workers : Claim(w) \/ VerifyUnban(w) \/ FinishOk(w) \/ FinishFailed(w)
  BY Zenon DEF Next, Twitch, People, Events, Work, Due, vars, Moderate, Happen, RevokeChat,
     GrantEvent, Tick, SetBanned, ReadForGrant, ObserverDies, GetCurrent, NoteTime, BotBanned,
     Enroll, CallFails, WorkerDies
<1> QED BY <1>2, <1>3, <1>4, <1>5, <1>6, <1>7, <1>8, <1>9

\* Without an event at Twitch neither its clock reading nor the number of events
\* moves, but for the ticks while a timeout runs.
LEMMA SteadyStep ==
  TypeOK /\ [Next]_vars =>
    \/ \E kind \in Restrictions \cup {"unban", "missing", "restored"} :
         Happen(kind) /\ ends' \in {ends, 0, clock + 1 + TimeoutLength}
         /\ twitch' \in {twitch, "none", "banned", "timeout"}
    \/ Tick
    \/ UNCHANGED outside /\ bus' \subseteq bus
<1> SUFFICES ASSUME TypeOK, [Next]_vars
             PROVE \/ \E kind \in Restrictions \cup {"unban", "missing", "restored"} :
                        Happen(kind) /\ ends' \in {ends, 0, clock + 1 + TimeoutLength}
                        /\ twitch' \in {twitch, "none", "banned", "timeout"}
                   \/ Tick
                   \/ UNCHANGED outside /\ bus' \subseteq bus
  OBVIOUS
<1>1. CASE Twitch
  <2>1. ASSUME NEW kind \in {"ban", "timeout", "unban"}, Moderate(kind)
        PROVE  /\ Happen(kind) /\ ends' \in {ends, 0, clock + 1 + TimeoutLength}
               /\ twitch' \in {twitch, "none", "banned", "timeout"}
    BY <2>1 DEF Moderate
  <2>2. ASSUME RevokeChat
        PROVE  /\ Happen("revoked") /\ ends' = ends /\ twitch' = twitch
    BY <2>2 DEF RevokeChat
  <2>3. ASSUME NEW kind \in {"missing", "restored"}, GrantEvent(kind)
        PROVE  Happen(kind) /\ ends' = ends /\ twitch' = twitch
    BY <2>3 DEF GrantEvent
  <2> QED BY <1>1, <2>1, <2>2, <2>3 DEF Twitch, Restrictions
<1>2. CASE ~Twitch
  <2>1. UNCHANGED outside
    BY <1>2, Zenon DEF Next, People, Events, Work, Due, vars, outside, Enable, Disable,
       RetryRecovery, SetBanned, ObserveModeration, ReadForGrant, ObserveGrant, ObserverDies,
       ExpireTimeout, AttemptDue, RetryDegraded, RetractionAcked, Claim, GetCurrent, NoteTime,
       BotBanned, VerifyUnban, Enroll, CallFails, WorkerDies, FinishOk, FinishFailed, Goes
  <2>2. CASE UNCHANGED bus
    BY <2>1, <2>2
  <2>3. CASE \E f \in bus, again \in BOOLEAN : ObserveModeration(f, again)
    BY <2>1, <2>3 DEF ObserveModeration, Consume
  <2>4. CASE \E again \in BOOLEAN : ObserveGrant(again)
    BY <2>1, <2>4 DEF ObserveGrant, Consume
  <2>5. CASE \E w \in Workers : Enroll(w)
    BY <2>1, <2>5 DEF Enroll
  <2>6. \/ UNCHANGED bus
        \/ \E f \in bus, again \in BOOLEAN : ObserveModeration(f, again)
        \/ \E again \in BOOLEAN : ObserveGrant(again)
        \/ \E w \in Workers : Enroll(w)
    BY <1>2, Zenon DEF Next, People, Events, Work, Due, vars, Enable, Disable, RetryRecovery,
       SetBanned, ReadForGrant, ObserverDies, ExpireTimeout, AttemptDue, RetryDegraded,
       RetractionAcked, Claim, GetCurrent, NoteTime, BotBanned, VerifyUnban, CallFails,
       WorkerDies, FinishOk, FinishFailed, Goes, bounds
  <2> QED BY <2>2, <2>3, <2>4, <2>5, <2>6
<1> QED BY <1>1, <1>2

LEMMA TimesStep ==
  TypeOK /\ Times /\ [Next]_vars =>
    /\ Times' /\ clock' \in 0 .. Horizon /\ ends' \in 0 .. Horizon
    /\ events' \in 0 .. MaxEvents /\ bus' \subseteq Moderation \cup Grants
    /\ twitch' \in {"none", "banned", "timeout"}
<1> SUFFICES ASSUME TypeOK, Times, [Next]_vars
             PROVE  /\ Times' /\ clock' \in 0 .. Horizon /\ ends' \in 0 .. Horizon
                    /\ events' \in 0 .. MaxEvents /\ bus' \subseteq Moderation \cup Grants
                    /\ twitch' \in {"none", "banned", "timeout"}
  OBVIOUS
<1>0. /\ clock \in Nat /\ ends \in Nat /\ acc.until \in Nat /\ clock \in 0 .. Horizon
      /\ ends \in 0 .. Horizon /\ events \in 0 .. MaxEvents
      /\ bus \subseteq Moderation \cup Grants /\ twitch \in {"none", "banned", "timeout"}
  BY Ranges DEF TypeOK, Records
<1>1. Reach \in Nat /\ Reach <= Horizon
  BY <1>0, ReachBound DEF Reach
<1>2. acc'.until <= Reach /\ acc'.until \in Nat
  <2>1. acc'.until \in {acc.until, 0} \cup {(f.at \div 2) + TimeoutLength : f \in bus}
    BY UntilStep
  <2>2. \A f \in bus : (f.at \div 2) + TimeoutLength <= Reach
                       /\ (f.at \div 2) + TimeoutLength \in Nat
    BY Ranges DEF Times
  <2> QED BY <1>0, <1>1, <2>1, <2>2 DEF Times
<1>3. CASE \E kind \in Restrictions \cup {"unban", "missing", "restored"} :
             Happen(kind) /\ ends' \in {ends, 0, clock + 1 + TimeoutLength}
             /\ twitch' \in {twitch, "none", "banned", "timeout"}
  <2>1. PICK kind \in Restrictions \cup {"unban", "missing", "restored"} :
             Happen(kind) /\ ends' \in {ends, 0, clock + 1 + TimeoutLength}
             /\ twitch' \in {twitch, "none", "banned", "timeout"}
    BY <1>3
  <2>2. /\ clock' \in 0 .. Horizon /\ events' \in 0 .. MaxEvents
        /\ bus' \subseteq Moderation \cup Grants
        /\ Reach' = Reach + TimeoutLength + 1 /\ clock' <= Reach' /\ Reach' \in Nat
        /\ clock + 1 + TimeoutLength <= Reach' /\ Reach' <= Horizon
        /\ \A f \in bus' : f.at \in Nat /\ (f.at \div 2) + TimeoutLength <= Reach'
    BY <2>1, HappenRest
  <2>3. ends' \in Nat /\ ends' <= Reach'
    BY <1>0, <1>1, <2>1, <2>2, Ranges DEF Times
  <2>4. acc'.until <= Reach'
    BY <1>1, <1>2, <2>2, Ranges
  <2>5. ends' \in 0 .. Horizon
    BY <2>2, <2>3, Ranges
  <2> QED BY <1>0, <2>1, <2>2, <2>3, <2>4, <2>5 DEF Times
<1>4. CASE Tick
  <2>1. /\ clock < Newest(ends, acc.until) /\ clock' = clock + 1
        /\ UNCHANGED <<events, ends, acc, bus, twitch>>
    BY <1>4 DEF Tick
  <2>2. clock' <= Reach /\ clock' \in 0 .. Horizon
    BY <1>0, <1>1, <2>1, Ranges DEF Newest, Times
  <2>3. Reach' = Reach
    BY <2>1 DEF Reach
  <2> QED BY <1>0, <2>1, <2>2, <2>3 DEF Times
<1>5. CASE UNCHANGED outside /\ bus' \subseteq bus
  <2>1. UNCHANGED <<twitch, ends, clock, events>> /\ Reach' = Reach
    BY <1>5 DEF outside, Reach
  <2> QED BY <1>0, <1>2, <1>5, <2>1 DEF Times
<1> QED BY <1>3, <1>4, <1>5, SteadyStep

LEMMA RestStep ==
  TypeOK /\ [Next]_vars =>
    /\ lifted' \in Moments /\ handled' \subseteq Moderation
    /\ commands' \in 0 .. MaxCommands /\ faults' \in 0 .. MaxFaults
<1> SUFFICES ASSUME TypeOK, [Next]_vars
             PROVE  /\ lifted' \in Moments /\ handled' \subseteq Moderation
                    /\ commands' \in 0 .. MaxCommands /\ faults' \in 0 .. MaxFaults
  OBVIOUS
<1>0. /\ lifted \in Moments /\ handled \subseteq Moderation /\ acc.modAt \in Moments
      /\ commands \in 0 .. MaxCommands /\ faults \in 0 .. MaxFaults
      /\ \A w \in Workers : workers[w].seen \in Moments
      /\ \A a, b \in Moments : Newest(a, b) \in Moments
  BY DEF TypeOK, Records, Newest
<1>1. handled' = handled \/ \E f \in Moderation : handled' = handled \cup {f}
  BY Zenon DEF Next, Twitch, People, Events, Work, Due, vars, Moderate, Happen, RevokeChat,
     GrantEvent, Tick, Enable, Disable, RetryRecovery, SetBanned, ObserveModeration, ReadForGrant,
     ObserveGrant, ObserverDies, ExpireTimeout, AttemptDue, RetryDegraded, RetractionAcked,
     Claim, GetCurrent, NoteTime, BotBanned, VerifyUnban, Enroll, CallFails, WorkerDies,
     FinishOk, FinishFailed, Goes
<1>2. \/ lifted' = lifted
      \/ \E f \in Moderation : lifted' = Newest(lifted, f.at)
      \/ lifted' = Newest(lifted, acc.modAt)
      \/ \E w \in Workers : lifted' = Newest(lifted, workers[w].seen)
  BY Zenon DEF Next, Twitch, People, Events, Work, Due, vars, Moderate, Happen, RevokeChat,
     GrantEvent, Tick, Enable, Disable, RetryRecovery, SetBanned, ObserveModeration, ReadForGrant,
     ObserveGrant, ObserverDies, ExpireTimeout, AttemptDue, RetryDegraded, RetractionAcked,
     Claim, GetCurrent, NoteTime, BotBanned, VerifyUnban, Enroll, CallFails, WorkerDies,
     FinishOk, FinishFailed, Goes
<1>3. commands' = commands \/ Command
  BY Zenon DEF Next, Twitch, People, Events, Work, Due, vars, Moderate, Happen, RevokeChat,
     GrantEvent, Tick, Enable, Disable, RetryRecovery, SetBanned, ObserveModeration, ReadForGrant,
     ObserveGrant, ObserverDies, ExpireTimeout, AttemptDue, RetryDegraded, RetractionAcked,
     Claim, GetCurrent, NoteTime, BotBanned, VerifyUnban, Enroll, CallFails, WorkerDies,
     FinishOk, FinishFailed, Goes, bounds
<1>4. faults' = faults \/ Fault
  BY Zenon DEF Next, Twitch, People, Events, Work, Due, vars, Moderate, Happen, RevokeChat,
     GrantEvent, Tick, Enable, Disable, RetryRecovery, SetBanned, ObserveModeration, ReadForGrant,
     ObserveGrant, ObserverDies, ExpireTimeout, AttemptDue, RetryDegraded, RetractionAcked,
     Claim, GetCurrent, NoteTime, BotBanned, VerifyUnban, Enroll, CallFails, WorkerDies,
     FinishOk, FinishFailed, Goes, bounds, Consume
<1>5. \A f \in Moderation : f.at \in Moments
  BY DEF Moderation
<1>6. commands' \in 0 .. MaxCommands /\ faults' \in 0 .. MaxFaults
  BY <1>0, <1>3, <1>4, CountAssumption DEF Command, Fault
<1> QED BY <1>0, <1>1, <1>2, <1>5, <1>6

LEMMA ConsentStep == TypeOK /\ [Next]_vars => consent' \in {"given", "withdrawn"}
<1> SUFFICES ASSUME TypeOK, [Next]_vars PROVE consent' \in {"given", "withdrawn"}
  OBVIOUS
<1>1. consent' = consent \/ \E kind \in {"missing", "restored"} : GrantEvent(kind)
  BY Zenon DEF Next, Twitch, People, Events, Work, Due, vars, outside, Moderate, RevokeChat,
     Tick, Enable, Disable, RetryRecovery, SetBanned, ObserveModeration, ReadForGrant,
     ObserveGrant, ObserverDies, ExpireTimeout, AttemptDue, RetryDegraded, RetractionAcked,
     Claim, GetCurrent, NoteTime, BotBanned, VerifyUnban, Enroll, CallFails, WorkerDies,
     FinishOk, FinishFailed, Goes
<1> QED BY <1>1 DEF TypeOK, GrantEvent

LEMMA TypeInit == Init => TypeOK /\ Times
<1> SUFFICES ASSUME Init PROVE TypeOK /\ Times
  OBVIOUS
<1>1. TypeAcc
  BY Ranges, CountAssumption DEF Init, TypeAcc, Records
<1>2. TypeWork
  BY WorkersTypes, Ranges DEF Init, TypeWork, Work_, Idle, NoObserver, Stages
<1>3. service \in BOOLEAN /\ earned \in BOOLEAN /\ parked \in BOOLEAN
  BY Zenon DEF Init
<1>4. TypeRest
  BY <1>3, Ranges, CountAssumption DEF Init, TypeRest
<1>5. Times
  <2>1. events = 0 /\ clock = 0 /\ ends = 0 /\ acc.until = 0 /\ bus = {}
    BY DEF Init
  <2>2. Reach \in Nat
    BY <2>1, ReachBound, Ranges DEF Reach
  <2> QED BY <2>1, <2>2 DEF Times
<1> QED BY <1>1, <1>2, <1>4, <1>5, Parts

LEMMA TypeStep == TypeOK /\ Times /\ [Next]_vars => (TypeOK /\ Times)'
<1> SUFFICES ASSUME TypeOK, Times, [Next]_vars PROVE TypeOK' /\ Times'
  OBVIOUS
<1>1. TypeAcc' /\ TypeWork'
  BY TypeAccStep, TypeWorkStep
<1>2. TypeRest' /\ Times'
  BY TimesStep, RestStep, BoolStep, EarnedStep, ConsentStep DEF TypeRest
<1> QED BY <1>1, <1>2 DEF TypeOK, TypeAcc, TypeWork, TypeRest, Work_

\* Times stay within the bounds the events give them, and every record written
\* is one of the lifecycle's (transitionLifecycle and the recovery workers).
THEOREM TypeCorrect == Spec => []TypeOK
BY TypeInit, TypeStep, PTL DEF Spec

-----------------------------------------------------------------------------
(* Service is earned, and nothing is forgotten.                             *)

\* A recovery that carries the generation of the record began after the last stop.
FreshIsClean ==
    \A w \in Workers : workers[w].fresh /\ workers[w].at \notin {"idle", "failed"}
                         => workers[w].clean

\* No service-level ban goes unremembered.
Parked == service => parked

LEMMA CleanStep == TypeOK /\ FreshIsClean /\ [Next]_vars => FreshIsClean'
<1> SUFFICES ASSUME TypeOK, FreshIsClean, [Next]_vars PROVE FreshIsClean'
  OBVIOUS
<1>0. workers \in [Workers -> Work_]
  BY DEF TypeOK, Work_
<1> USE DEF FreshIsClean
<1>1. CASE workers' = workers
  BY <1>1
<1>2. CASE workers' = Superseded \/ workers' = Stopped
  BY <1>0, <1>2 DEF Superseded, Stopped, Work_
<1>3. ASSUME NEW w \in Workers, NEW r \in Work_,
             workers' = [workers EXCEPT ![w] = r] \/ workers' = [Superseded EXCEPT ![w] = r],
             r.fresh /\ r.at \notin {"idle", "failed"} => r.clean
      PROVE  FreshIsClean'
  BY <1>0, <1>3 DEF Superseded, Work_
<1>4. ASSUME NEW w \in Workers, NEW from \in Stages \ {"idle", "failed"}, NEW to \in Stages,
             Goes(w, from, to)
      PROVE  FreshIsClean'
  <2> DEFINE c == workers[w].clean /\ to # "failed"
             r == [at |-> to, fresh |-> workers[w].fresh, clean |-> c,
                   seen |-> IF to = "verify" THEN workers[w].seen ELSE 0]
  <2>1. workers' = [workers EXCEPT ![w] = r] /\ workers[w].at = from
    BY <1>4 DEF Goes
  <2>2. c \in BOOLEAN /\ workers[w] \in Work_
    BY <1>0
  <2>3. to # "failed" /\ workers[w].fresh => c
    BY <2>1
  <2> HIDE DEF c
  <2>4. r \in Work_
    BY <2>2, Ranges DEF Work_
  <2>5. r.fresh /\ r.at \notin {"idle", "failed"} => r.clean
    BY <2>3
  <2> HIDE DEF r
  <2> QED BY <1>3, <2>1, <2>4, <2>5
<1>5. ASSUME NEW w \in Workers, Claim(w) PROVE FreshIsClean'
  <2>1. \/ workers' = Superseded
        \/ workers' = [workers EXCEPT ![w] =
                         [at |-> "get", fresh |-> TRUE, clean |-> TRUE, seen |-> 0]]
    BY <1>5, Zenon DEF Claim, Bump
  <2>2. [at |-> "get", fresh |-> TRUE, clean |-> TRUE, seen |-> 0] \in Work_
    BY Ranges DEF Work_, Stages
  <2> QED BY <1>2, <1>3, <2>1, <2>2
<1>6. ASSUME NEW w \in Workers, NoteTime(w) PROVE FreshIsClean'
  BY <1>0, <1>6 DEF NoteTime, Work_
<1>7. ASSUME NEW w \in Workers, WorkerDies(w) \/ FinishOk(w) \/ FinishFailed(w)
      PROVE  FreshIsClean'
  <2>1. workers' \in {[workers EXCEPT ![w] = Idle], [Superseded EXCEPT ![w] = Idle]}
    BY <1>7, Zenon DEF WorkerDies, FinishOk, FinishFailed
  <2>2. Idle \in Work_ /\ Idle.at = "idle"
    BY Ranges DEF Idle, Work_, Stages
  <2> QED BY <1>3, <2>1, <2>2
<1>8. ASSUME NEW w \in Workers,
             GetCurrent(w) \/ BotBanned(w) \/ VerifyUnban(w) \/ Enroll(w) \/ CallFails(w)
      PROVE  FreshIsClean'
  <2>1. PICK from \in Stages \ {"idle", "failed"}, to \in Stages : Goes(w, from, to)
    BY <1>8 DEF GetCurrent, BotBanned, VerifyUnban, Enroll, CallFails, Stages
  <2> QED BY <1>4, <2>1
<1>9. \/ workers' \in {workers, Superseded, Stopped}
      \/ \E w \in Workers :
            \/ Claim(w) \/ NoteTime(w) \/ WorkerDies(w) \/ FinishOk(w) \/ FinishFailed(w)
            \/ GetCurrent(w) \/ BotBanned(w) \/ VerifyUnban(w) \/ Enroll(w) \/ CallFails(w)
  BY Zenon DEF Next, Twitch, People, Events, Work, Due, vars, Moderate, Happen, RevokeChat,
     GrantEvent, Tick, Enable, Disable, RetryRecovery, SetBanned, ObserveModeration, ReadForGrant,
     ObserveGrant, ObserverDies, ExpireTimeout, AttemptDue, RetryDegraded, RetractionAcked,
     Bump, Stop, Keep
<1> QED BY <1>1, <1>2, <1>5, <1>6, <1>7, <1>8, <1>9

LEMMA ParkedStep == Parked /\ [Next]_vars => Parked'
<1> SUFFICES ASSUME Parked, [Next]_vars PROVE Parked'
  OBVIOUS
<1>1. CASE SetBanned
  BY <1>1, Zenon DEF SetBanned, Parked
<1>2. CASE ~SetBanned
  <2>1. service' = service /\ parked' = parked
    BY <1>2, Zenon DEF Next, Twitch, People, Events, Work, Due, vars, Moderate, Happen, RevokeChat,
       GrantEvent, Tick, Enable, Disable, RetryRecovery, ObserveModeration, ReadForGrant,
       ObserveGrant, ObserverDies, ExpireTimeout, AttemptDue, RetryDegraded, RetractionAcked,
       Claim, GetCurrent, NoteTime, BotBanned, VerifyUnban, Enroll, CallFails, WorkerDies,
       FinishOk, FinishFailed, Goes
  <2> QED BY <2>1, Zenon DEF Parked
<1> QED BY <1>1, <1>2

\* What the properties ask of a record alone.
Coherent(a) ==
    /\ a.chat = "banned" \/ a.grant = "missing" => a.incident
    /\ ~a.desired => a.state = "disabled"
    /\ a.state = "active" => a.desired /\ a.chat = "none" /\ a.grant = "healthy"

Watched(a) ==
    ~parked /\ CanRecover(a) => a.state \in {"active", "recovering", "degraded"}

Served == acc.state = "active" => earned

Sound == Coherent(acc) /\ Watched(acc) /\ Served

LEMMA SoundIs == Sound /\ TypeOK => ServingIsEarned /\ NeverForgotten
BY Zenon DEF Sound, Coherent, Watched, Served, ServingIsEarned, NeverForgotten

LEMMA RestrictCoherent ==
  ASSUME NEW a \in Records, a.chat = "banned" \/ a.grant = "missing" => a.incident
  PROVE  Coherent(Restrict(a)) /\ Restrict(a).state # "active"
         /\ Restrict(a).chat = a.chat /\ Restrict(a).grant = a.grant
BY DEF Restrict, Records, Coherent

LEMMA RecoverCoherent ==
  ASSUME NEW a \in Records, Coherent(a)
  PROVE  /\ Coherent(Recover(a)) /\ (Recover(a).state = "active" => a.state = "active")
         /\ CanRecover(a) => Recover(a).state = "recovering"
         /\ ~CanRecover(a) => Recover(a) = a
         /\ CanRecover(Recover(a)) <=> CanRecover(a)
BY DEF Recover, Recovering, CanRecover, Records, Coherent

\* The step's own record decides, when the service ban does not move.
LEMMA Settles ==
  ASSUME NEW a, acc' = a, Coherent(a), Watched(a), UNCHANGED <<service, parked>>,
         a.state = "active" => earned'
  PROVE  Sound'
BY DEF Sound, Coherent, Watched, Served, CanRecover

LEMMA SoundStep ==
  TypeOK /\ TypeOK' /\ FreshIsClean /\ Parked /\ Sound /\ [Next]_vars => Sound'
<1> SUFFICES ASSUME TypeOK, TypeOK', FreshIsClean, Parked, Sound, [Next]_vars PROVE Sound'
  OBVIOUS
<1>0. acc \in Records /\ Coherent(acc) /\ Watched(acc) /\ Served
  BY DEF TypeOK, Sound
<1>1. CASE UNCHANGED <<acc, service, parked, earned>>
  BY <1>0, <1>1, Settles DEF Served
<1>2. CASE SetBanned
  BY <1>0, <1>2 DEF SetBanned, Sound, Coherent, Watched, Served
<1>3. CASE Enable
  <2> DEFINE a == [acc EXCEPT !.desired = TRUE]
  <2>1. a \in Records /\ Coherent(a) /\ a.state # "active"
    BY <1>0, <1>3 DEF Enable, Records, Coherent
  <2>2. UNCHANGED <<service, parked, earned>>
    BY <1>3 DEF Enable
  <2>3. CASE acc.chat # "none" \/ acc.grant = "missing"
    <3>1. acc' = Restrict(a) /\ (a.chat # "none" \/ a.grant = "missing")
      BY <1>0, <1>3, <2>3 DEF Enable, Records
    <3> HIDE DEF a
    <3>2. Coherent(Restrict(a)) /\ ~CanRecover(Restrict(a)) /\ Restrict(a).state # "active"
      BY <2>1, <3>1, RestrictCoherent DEF CanRecover, Coherent
    <3> QED BY <2>2, <3>1, <3>2, Settles DEF Watched
  <2>4. CASE ~(acc.chat # "none" \/ acc.grant = "missing")
    <3>1. acc' = Recover(a)
      BY <1>3, <2>4 DEF Enable
    <3> HIDE DEF a
    <3>2. Coherent(Recover(a)) /\ Watched(Recover(a)) /\ Recover(a).state # "active"
      BY <2>1, RecoverCoherent DEF Watched
    <3> QED BY <2>2, <3>1, <3>2, Settles
  <2> QED BY <2>3, <2>4
<1>4. CASE Disable
  <2> DEFINE a == [acc EXCEPT !.desired = FALSE, !.state = "disabled", !.due = FALSE]
  <2>1. acc' = a /\ UNCHANGED <<service, parked, earned>>
    BY <1>4 DEF Disable
  <2>2. Coherent(a) /\ a.state = "disabled" /\ ~a.desired
    BY <1>0 DEF Records, Coherent
  <2> QED BY <2>1, <2>2, Settles DEF Watched, CanRecover
<1>5. CASE acc' = Recovering(acc) /\ UNCHANGED <<service, parked, earned>> /\ acc.desired
  <2>1. Coherent(Recovering(acc)) /\ Recovering(acc).state = "recovering"
    BY <1>0, <1>5 DEF Records, Coherent, Recovering
  <2> QED BY <1>5, <2>1, Settles DEF Watched
<1>6. CASE RetryRecovery
  BY <1>5, <1>6 DEF RetryRecovery, RetryBlocked
<1>7. ASSUME NEW a \in Records, Coherent(a), a.state = "active" => acc.state = "active",
             acc' = Recover(a), UNCHANGED <<service, parked, earned>>
      PROVE  Sound'
  <2>1. Watched(Recover(a))
    BY <1>7, RecoverCoherent DEF Parked, Watched
  <2> QED BY <1>0, <1>7, <2>1, RecoverCoherent, Settles DEF Served
<1>8. ASSUME NEW a \in Records, a.chat = "banned" \/ a.grant = "missing" => a.incident,
             a.chat # "none" \/ a.grant = "missing",
             acc' = Restrict(a), UNCHANGED <<service, parked, earned>>
      PROVE  Sound'
  <2>1. ~CanRecover(Restrict(a))
    BY <1>8, RestrictCoherent DEF CanRecover
  <2> QED BY <1>8, <2>1, RestrictCoherent, Settles DEF Watched
<1>9. ASSUME NEW f \in bus, NEW again \in BOOLEAN, ObserveModeration(f, again) PROVE Sound'
  <2> DEFINE a == [acc EXCEPT !.modAt = f.at, !.modId = f.kind]
  <2>1. f \in Moderation /\ UNCHANGED <<service, parked, earned>>
    BY <1>9 DEF ObserveModeration
  <2>2. /\ a \in Records /\ Coherent(a) /\ a.state = acc.state /\ a.grant = acc.grant
        /\ a.incident = acc.incident
    BY <1>0, <2>1 DEF Records, Moderation, Coherent
  <2>3. acc' \in {acc, Unbanned(a), TimedOut(a, f), Banned(a)}
    BY <1>9, Zenon DEF ObserveModeration, Moderated
  <2>t. CASE acc' = TimedOut(a, f)
    <3> DEFINE b == [a EXCEPT !.chat = "timeout", !.until = (f.at \div 2) + TimeoutLength]
    <3>1. acc' = Restrict(b) /\ acc' \in Records
      BY <2>t DEF TimedOut, TypeOK
    <3>2. acc'.until = (f.at \div 2) + TimeoutLength
      BY <2>2, <3>1 DEF Restrict, Records
    <3>3. (f.at \div 2) + TimeoutLength \in 0 .. Horizon
      BY <3>1, <3>2 DEF Records
    <3>4. b \in Records /\ b.chat = "timeout" /\ (b.grant = "missing" => b.incident)
      BY <2>2, <3>3 DEF Records, Coherent
    <3> HIDE DEF b
    <3> QED BY <1>8, <2>1, <3>1, <3>4
  <2> HIDE DEF a
  <2>u. CASE acc' = Unbanned(a)
    <3> DEFINE b == [a EXCEPT !.chat = "none", !.until = 0]
    <3>1. b \in Records /\ Coherent(b) /\ b.state = acc.state
      BY <2>2, Ranges DEF Records, Coherent
    <3>2. acc' = Recover(b)
      BY <2>u DEF Unbanned
    <3> HIDE DEF b
    <3> QED BY <1>7, <2>1, <3>1, <3>2
  <2>b. CASE acc' = Banned(a)
    <3> DEFINE b == [a EXCEPT !.chat = "banned", !.until = 0, !.incident = TRUE]
    <3>1. b \in Records /\ b.chat = "banned" /\ b.incident
      BY <2>2, Ranges DEF Records
    <3>2. acc' = Restrict(b)
      BY <2>b DEF Banned
    <3> HIDE DEF b
    <3> QED BY <1>8, <2>1, <3>1, <3>2
  <2> QED BY <1>1, <2>1, <2>3, <2>t, <2>u, <2>b
<1>10. ASSUME NEW again \in BOOLEAN, ObserveGrant(again) PROVE Sound'
  <2> DEFINE f == observer.fact
             a == [acc EXCEPT !.grantAt = f.at, !.grantId = f.kind]
  <2>1. f \in Grants /\ UNCHANGED <<service, parked, earned>>
    BY <1>10 DEF ObserveGrant, TypeOK
  <2> HIDE DEF f
  <2>2. /\ a \in Records /\ Coherent(a) /\ a.state = acc.state
        /\ a.chat = acc.chat /\ a.grant = acc.grant /\ a.desired = acc.desired
    BY <1>0, <2>1 DEF Grants, Records, Coherent
  <2>3. \/ acc' = Restrict([a EXCEPT !.grant = "missing", !.incident = TRUE])
        \/ acc' = Recover([a EXCEPT !.grant = "healthy"])
        \/ acc' \in {a, acc}
    BY <1>10, Zenon DEF ObserveGrant, f
  <2> HIDE DEF a
  <2>4. CASE acc' = Restrict([a EXCEPT !.grant = "missing", !.incident = TRUE])
    <3> DEFINE b == [a EXCEPT !.grant = "missing", !.incident = TRUE]
    <3>1. b \in Records /\ b.grant = "missing" /\ b.incident
      BY <2>2 DEF Records
    <3>2. acc' = Restrict(b)
      BY <2>4
    <3> HIDE DEF b
    <3> QED BY <1>8, <2>1, <3>1, <3>2
  <2>5. CASE acc' = Recover([a EXCEPT !.grant = "healthy"])
    <3> DEFINE b == [a EXCEPT !.grant = "healthy"]
    <3>1. b \in Records /\ Coherent(b) /\ b.state = acc.state
      BY <2>2 DEF Records, Coherent
    <3>2. acc' = Recover(b)
      BY <2>5
    <3> HIDE DEF b
    <3> QED BY <1>7, <2>1, <3>1, <3>2
  <2>6. CASE acc' = a
    <3>1. Watched(a)
      BY <1>0, <2>2 DEF Watched, CanRecover
    <3> QED BY <1>0, <2>1, <2>2, <2>6, <3>1, Settles DEF Served
  <2> QED BY <1>1, <2>1, <2>3, <2>4, <2>5, <2>6
<1>11. CASE ExpireTimeout
  <2> DEFINE b == [acc EXCEPT !.chat = "none", !.until = 0]
  <2>1. b \in Records /\ Coherent(b) /\ b.state = acc.state
    BY <1>0, <1>11, Ranges DEF ExpireTimeout, Records, Coherent
  <2>2. acc' = Recover(b) /\ UNCHANGED <<service, parked, earned>>
    BY <1>11 DEF ExpireTimeout
  <2> HIDE DEF b
  <2> QED BY <1>7, <2>1, <2>2
<1>12. ASSUME NEW a \in Records, acc' = a, UNCHANGED <<service, parked, earned>>,
              a.state = acc.state, a.desired = acc.desired, a.chat = acc.chat,
              a.grant = acc.grant, a.incident = acc.incident
       PROVE  Sound'
  <2>1. Coherent(a) /\ Watched(a)
    BY <1>0, <1>12 DEF Coherent, Watched, CanRecover
  <2> QED BY <1>0, <1>12, <2>1, Settles DEF Served
<1>13. CASE AttemptDue \/ RetractionAcked
  <2>1. acc' \in Records /\ UNCHANGED <<service, parked, earned>>
    BY <1>13 DEF AttemptDue, RetractionAcked, TypeOK
  <2>2. /\ acc'.state = acc.state /\ acc'.desired = acc.desired /\ acc'.chat = acc.chat
        /\ acc'.grant = acc.grant /\ acc'.incident = acc.incident
    BY <1>0, <1>13 DEF AttemptDue, RetractionAcked, Records
  <2> QED BY <1>12, <2>1, <2>2
<1>14. CASE acc' = [acc EXCEPT !.due = FALSE] /\ UNCHANGED <<service, parked, earned>>
  <2> DEFINE a == [acc EXCEPT !.due = FALSE]
  <2>1. /\ a \in Records /\ a.state = acc.state /\ a.desired = acc.desired
        /\ a.chat = acc.chat /\ a.grant = acc.grant /\ a.incident = acc.incident
    BY <1>0 DEF Records
  <2>2. acc' = a
    BY <1>14
  <2> HIDE DEF a
  <2> QED BY <1>12, <1>14, <2>1, <2>2
<1>15. CASE acc' = Degraded /\ UNCHANGED <<service, parked, earned>> /\ acc.state = "recovering"
  <2>1. Coherent(Degraded) /\ Degraded.state = "degraded"
    BY <1>0, <1>15 DEF Records, Coherent, Degraded
  <2>2. Watched(Degraded)
    BY <2>1 DEF Watched
  <2>3. Degraded.state # "active"
    BY <2>1
  <2> QED BY <1>15, <2>1, <2>2, <2>3, Settles
<1>16. CASE RetryDegraded
  <2>1. UNCHANGED <<service, parked, earned>> /\ acc.state = "degraded"
    BY <1>16 DEF RetryDegraded
  <2>2. acc.desired
    BY <1>0, <2>1 DEF Coherent
  <2>3. acc' = [acc EXCEPT !.due = FALSE] \/ acc' = Recovering(acc)
    BY <1>16, Zenon DEF RetryDegraded
  <2> QED BY <1>5, <1>14, <2>1, <2>2, <2>3
<1>17. ASSUME NEW w \in Workers, Claim(w) PROVE Sound'
  <2>1. UNCHANGED <<service, parked, earned>> /\ acc.state = "recovering"
    BY <1>17 DEF Claim
  <2>2. acc' = Degraded \/ acc' = [acc EXCEPT !.attempts = @ + 1, !.due = FALSE]
    BY <1>17, Zenon DEF Claim
  <2>3. CASE acc' = [acc EXCEPT !.attempts = @ + 1, !.due = FALSE]
    <3>1. acc' \in Records
      BY DEF TypeOK
    <3>2. /\ acc'.state = acc.state /\ acc'.desired = acc.desired /\ acc'.chat = acc.chat
          /\ acc'.grant = acc.grant /\ acc'.incident = acc.incident
      BY <1>0, <2>3 DEF Records
    <3> QED BY <1>12, <2>1, <3>1, <3>2
  <2> QED BY <1>15, <2>1, <2>2, <2>3
<1>18. ASSUME NEW w \in Workers, VerifyUnban(w) PROVE Sound'
  <2> DEFINE a == [acc EXCEPT !.chat = "none", !.until = 0, !.modAt = workers[w].seen,
                              !.modId = "verified"]
  <2>1. UNCHANGED <<service, parked, earned>>
    BY <1>18 DEF VerifyUnban, Goes
  <2>2. CASE acc' = a /\ acc.state = "recovering"
    <3>1. Coherent(a) /\ a.state = "recovering"
      BY <1>0, <2>2 DEF Records, Coherent
    <3> HIDE DEF a
    <3> QED BY <2>1, <2>2, <3>1, Settles DEF Watched
  <2>3. acc' = acc \/ (acc' = a /\ acc.state = "recovering")
    BY <1>18, Zenon DEF VerifyUnban, RecoveryMatches
  <2> QED BY <1>1, <2>1, <2>2, <2>3
<1>19. ASSUME NEW w \in Workers, FinishOk(w) PROVE Sound'
  <2>1. UNCHANGED <<service, parked>>
    BY <1>19 DEF FinishOk
  <2>2. CASE RecoveryMatches(w) /\ CanSucceed
    <3>1. acc' = Succeeded /\ earned' = workers[w].clean /\ workers[w].at = "ok"
      BY <1>19, <2>2 DEF FinishOk
    <3>2. workers[w].clean
      BY <2>2, <3>1 DEF RecoveryMatches, FreshIsClean
    <3>3. Coherent(Succeeded) /\ Succeeded.state = "active"
      BY <1>0, <2>2 DEF CanSucceed, CanRecover, Succeeded, Coherent, Records
    <3>4. earned'
      BY <3>1, <3>2
    <3> QED BY <2>1, <3>1, <3>3, <3>4, Settles DEF Watched
  <2>3. CASE ~(RecoveryMatches(w) /\ CanSucceed)
    <3>1. UNCHANGED <<acc, earned>>
      BY <1>19, <2>3 DEF FinishOk
    <3> QED BY <1>1, <2>1, <3>1
  <2> QED BY <2>2, <2>3
<1>20. ASSUME NEW w \in Workers, FinishFailed(w) PROVE Sound'
  <2>1. UNCHANGED <<service, parked, earned>>
    BY <1>20 DEF FinishFailed
  <2>2. \/ acc' = Degraded /\ acc.state = "recovering"
        \/ acc' \in {acc, [acc EXCEPT !.due = FALSE]}
    BY <1>20, Zenon DEF FinishFailed, RecoveryMatches
  <2> QED BY <1>1, <1>14, <1>15, <2>1, <2>2
<1>21. \/ UNCHANGED <<acc, service, parked, earned>>
       \/ SetBanned \/ Enable \/ Disable \/ RetryRecovery \/ AttemptDue \/ RetryDegraded
       \/ RetractionAcked \/ ExpireTimeout
       \/ \E f \in bus, again \in BOOLEAN : ObserveModeration(f, again)
       \/ \E again \in BOOLEAN : ObserveGrant(again)
       \/ \E w \in Workers : Claim(w) \/ VerifyUnban(w) \/ FinishOk(w) \/ FinishFailed(w)
  BY Zenon DEF Next, Twitch, People, Events, Work, Due, vars, Moderate, Happen, RevokeChat,
     GrantEvent, Tick, ReadForGrant, ObserverDies, GetCurrent, NoteTime, BotBanned,
     Enroll, CallFails, WorkerDies, Goes
<1> QED BY <1>1, <1>2, <1>3, <1>4, <1>6, <1>9, <1>10, <1>11, <1>13, <1>16, <1>17, <1>18, <1>19,
           <1>20, <1>21

LEMMA SoundInit == Init => FreshIsClean /\ Parked /\ Sound
<1> SUFFICES ASSUME Init PROVE FreshIsClean /\ Parked /\ Sound
  OBVIOUS
<1>1. Parked /\ Served
  BY Zenon DEF Init, Parked, Served
<1>2. FreshIsClean /\ Coherent(acc) /\ Watched(acc)
  BY DEF Init, FreshIsClean, Idle, Coherent, Watched
<1> QED BY <1>1, <1>2 DEF Sound

LEMMA SoundAlways == Spec => [](TypeOK /\ Sound)
<1> DEFINE Inv == TypeOK /\ Times /\ FreshIsClean /\ Parked /\ Sound
<1>1. Init => Inv
  BY TypeInit, SoundInit
<1>2. Inv /\ [Next]_vars => Inv'
  BY TypeStep, CleanStep, ParkedStep, SoundStep
<1>3. Inv => TypeOK /\ Sound
  OBVIOUS
<1> QED BY <1>1, <1>2, <1>3, PTL DEF Spec

\* A channel is served only on the word of a recovery claimed after whatever
\* stopped it last (completeRecovery, bump).
THEOREM ServiceEarned == Spec => []ServingIsEarned
BY SoundAlways, SoundIs, PTL

\* A ban or a lost grant keeps its incident, and a channel that could be served
\* is on the list of the sweep (incident, recover, restrict).
THEOREM NothingForgotten == Spec => []NeverForgotten
BY SoundAlways, SoundIs, PTL

-----------------------------------------------------------------------------
(* The newest fact governs.                                                 *)

\* Events happen at even moments that passed, two never at the same one.
EventsDistinct ==
    /\ \A f \in bus \cup handled : \E k \in 1 .. clock : f.at = 2 * k
    /\ \A f, g \in bus \cup handled : f.at = g.at => f = g

Odd(n) == \E k \in Nat : n = 2 * k + 1

\* A worker that asks about the ban has noted an odd moment.
SeenOdd == \A w \in Workers : workers[w].at \in {"ask", "verify"} => Odd(workers[w].seen)

\* The record carries the newest moment of all facts that governed; the chat is
\* free up to that moment, or restricted by the event of that moment.
Governed ==
    /\ \A f \in handled : f.at <= acc.modAt
    /\ lifted <= acc.modAt
    /\ acc.chat = "none" => lifted = acc.modAt
    /\ acc.chat # "none" => /\ lifted < acc.modAt
                            /\ \E g \in handled : g.kind \in Restrictions /\ g.at = acc.modAt
    /\ \/ acc.modAt = 0
       \/ Odd(acc.modAt)
       \/ \E g \in handled : g.at = acc.modAt /\ g.kind = acc.modId

LEMMA GovernedDecides == TypeOK /\ Governed => NewestFactGoverns
<1> SUFFICES ASSUME TypeOK, Governed PROVE NewestFactGoverns
  OBVIOUS
<1>1. \A f \in handled : f.at \in Nat
  BY Ranges DEF TypeOK, Moderation, Moments
<1>2. lifted \in Nat /\ acc.modAt \in Nat
  BY Ranges DEF TypeOK, Moments, Records
<1> QED BY <1>1, <1>2 DEF Governed, NewestFactGoverns

\* What a step may do to bus, handled events and time.
LEMMA EventMoves ==
  ASSUME TypeOK, [Next]_vars
  PROVE  \/ /\ clock' \in {clock, clock + 1} /\ bus' \cup handled' \subseteq bus \cup handled
         \/ \E kind \in Restrictions \cup {"unban", "missing", "restored"} :
              Happen(kind)
<1>1. ASSUME NEW kind \in {"ban", "timeout", "unban"}, Moderate(kind)
      PROVE  kind \in Restrictions \cup {"unban"} /\ Happen(kind)
  BY <1>1 DEF Moderate, Restrictions
<1>2. ASSUME NEW f \in bus, NEW again \in BOOLEAN, ObserveModeration(f, again)
      PROVE  clock' = clock /\ bus' \cup handled' \subseteq bus \cup handled
  BY <1>2 DEF ObserveModeration, Consume, outside
<1>3. ASSUME NEW again \in BOOLEAN, ObserveGrant(again)
      PROVE  clock' = clock /\ bus' \cup handled' \subseteq bus \cup handled
  BY <1>3 DEF ObserveGrant, Consume, outside
<1>4. ASSUME NEW w \in Workers, Enroll(w)
      PROVE  clock' = clock /\ bus' \cup handled' \subseteq bus \cup handled
  BY <1>4 DEF Enroll, Goes, outside
<1>5. \/ clock' = clock /\ UNCHANGED <<bus, handled>>
      \/ clock' = clock + 1 /\ UNCHANGED <<bus, handled>>
      \/ \E kind \in {"ban", "timeout", "unban"} : Moderate(kind)
      \/ \E kind \in {"missing", "restored", "revoked"} : Happen(kind)
      \/ \E f \in bus, again \in BOOLEAN : ObserveModeration(f, again)
      \/ \E again \in BOOLEAN : ObserveGrant(again)
      \/ \E w \in Workers : Enroll(w)
  BY Zenon DEF Next, Twitch, People, Events, Work, Due, vars, RevokeChat,
     GrantEvent, Tick, Enable, Disable, RetryRecovery, SetBanned, ReadForGrant,
     ObserverDies, ExpireTimeout, AttemptDue, RetryDegraded, RetractionAcked,
     Claim, GetCurrent, NoteTime, BotBanned, VerifyUnban, CallFails, WorkerDies,
     FinishOk, FinishFailed, Goes, outside
<1> QED BY <1>1, <1>2, <1>3, <1>4, <1>5 DEF Restrictions

LEMMA EventsStep == TypeOK /\ EventsDistinct /\ [Next]_vars => EventsDistinct'
<1> SUFFICES ASSUME TypeOK, EventsDistinct, [Next]_vars PROVE EventsDistinct'
  OBVIOUS
<1>0. clock \in Nat
  BY Ranges DEF TypeOK
<1>1. CASE clock' \in {clock, clock + 1} /\ bus' \cup handled' \subseteq bus \cup handled
  <2>1. \A f \in bus \cup handled : \E k \in 1 .. clock' : f.at = 2 * k
    BY <1>0, <1>1 DEF EventsDistinct
  <2> QED BY <1>1, <2>1 DEF EventsDistinct
<1>2. ASSUME NEW kind, Happen(kind) PROVE EventsDistinct'
  <2> DEFINE e == [kind |-> kind, at |-> 2 * (clock + 1)]
  <2>1. e.at = 2 * (clock + 1) /\ clock' = clock + 1 /\ bus' \subseteq bus \cup {e} /\ handled' = handled
    BY <1>2 DEF Happen
  <2> HIDE DEF e
  <2>2. \A f \in bus \cup handled : \E k \in 1 .. clock' : f.at = 2 * k
    BY <1>0, <2>1 DEF EventsDistinct
  <2>3. clock + 1 \in 1 .. clock'
    BY <1>0, <2>1
  <2>4. \A f \in bus \cup handled : f.at # e.at
    BY <1>0, <2>1 DEF EventsDistinct
  <2> QED BY <2>1, <2>2, <2>3, <2>4 DEF EventsDistinct
<1> QED BY <1>1, <1>2, EventMoves

LEMMA SeenStep == TypeOK /\ SeenOdd /\ [Next]_vars => SeenOdd'
<1> SUFFICES ASSUME TypeOK, SeenOdd, [Next]_vars PROVE SeenOdd'
  OBVIOUS
<1>0. workers \in [Workers -> Work_] /\ clock \in Nat
  BY Ranges DEF TypeOK, Work_
<1> USE DEF SeenOdd
<1>1. CASE workers' \in {workers, Superseded, Stopped}
  BY <1>0, <1>1 DEF Superseded, Stopped, Work_
<1>2. ASSUME NEW w \in Workers, NEW r \in Work_,
             workers' = [workers EXCEPT ![w] = r] \/ workers' = [Superseded EXCEPT ![w] = r],
             r.at \in {"ask", "verify"} => Odd(r.seen)
      PROVE  SeenOdd'
  <2>1. \A v \in Workers : Superseded[v].at = workers[v].at /\ Superseded[v].seen = workers[v].seen
    BY <1>0 DEF Superseded, Work_
  <2>2. Superseded \in [Workers -> Work_]
    BY <1>0 DEF Superseded, Work_
  <2> HIDE DEF Superseded
  <2>3. /\ workers'[w] = r
        /\ \A v \in Workers : v # w => /\ workers'[v].at = workers[v].at
                                       /\ workers'[v].seen = workers[v].seen
    BY <1>0, <1>2, <2>1, <2>2
  <2> QED BY <1>2, <2>3
<1>3. ASSUME NEW w \in Workers, Claim(w) PROVE SeenOdd'
  <2>1. \/ workers' = Superseded
        \/ workers' = [workers EXCEPT ![w] =
                         [at |-> "get", fresh |-> TRUE, clean |-> TRUE, seen |-> 0]]
    BY <1>3, Zenon DEF Claim, Bump
  <2>2. [at |-> "get", fresh |-> TRUE, clean |-> TRUE, seen |-> 0] \in Work_
    BY Ranges DEF Work_, Stages
  <2> QED BY <1>1, <1>2, <2>1, <2>2
<1>4. ASSUME NEW w \in Workers, NoteTime(w) PROVE SeenOdd'
  <2>1. Odd(2 * clock + 1)
    BY <1>0 DEF Odd
  <2> QED BY <1>0, <1>4, <2>1 DEF NoteTime, Work_
<1>5. ASSUME NEW w \in Workers, WorkerDies(w) \/ FinishOk(w) \/ FinishFailed(w)
      PROVE  SeenOdd'
  <2>1. workers' \in {[workers EXCEPT ![w] = Idle], [Superseded EXCEPT ![w] = Idle]}
    BY <1>5, Zenon DEF WorkerDies, FinishOk, FinishFailed
  <2>2. Idle \in Work_ /\ Idle.at = "idle"
    BY Ranges DEF Idle, Work_, Stages
  <2> QED BY <1>2, <2>1, <2>2
<1>6. ASSUME NEW w \in Workers, NEW from \in Stages, NEW to \in Stages, Goes(w, from, to),
             to # "ask", to = "verify" => from = "ask"
      PROVE  SeenOdd'
  <2> DEFINE r == [at |-> to, fresh |-> workers[w].fresh,
                   clean |-> workers[w].clean /\ to # "failed",
                   seen |-> IF to = "verify" THEN workers[w].seen ELSE 0]
  <2>1. workers' = [workers EXCEPT ![w] = r] /\ workers[w].at = from
    BY <1>6 DEF Goes
  <2>2. r.at = to /\ (to = "verify" => r.seen = workers[w].seen)
    OBVIOUS
  <2> HIDE DEF r
  <2>3. \A v \in Workers : v # w => workers'[v] = workers[v]
    BY <1>0, <2>1
  <2>4. workers'[w] = r
    BY <1>0, <2>1
  <2>5. workers'[w].at \in {"ask", "verify"} => Odd(workers'[w].seen)
    BY <1>6, <2>1, <2>2, <2>4
  <2> QED BY <2>3, <2>5
<1>7. ASSUME NEW w \in Workers,
             GetCurrent(w) \/ BotBanned(w) \/ VerifyUnban(w) \/ Enroll(w) \/ CallFails(w)
      PROVE  SeenOdd'
  <2>1. PICK from \in Stages, to \in Stages :
           Goes(w, from, to) /\ to # "ask" /\ (to = "verify" => from = "ask")
    BY <1>7 DEF GetCurrent, BotBanned, VerifyUnban, Enroll, CallFails, Stages
  <2> QED BY <1>6, <2>1
<1>8. \/ workers' \in {workers, Superseded, Stopped}
      \/ \E w \in Workers :
            \/ Claim(w) \/ NoteTime(w) \/ WorkerDies(w) \/ FinishOk(w) \/ FinishFailed(w)
            \/ GetCurrent(w) \/ BotBanned(w) \/ VerifyUnban(w) \/ Enroll(w) \/ CallFails(w)
  BY Zenon DEF Next, Twitch, People, Events, Work, Due, vars, Moderate, Happen, RevokeChat,
     GrantEvent, Tick, Enable, Disable, RetryRecovery, SetBanned, ObserveModeration, ReadForGrant,
     ObserveGrant, ObserverDies, ExpireTimeout, AttemptDue, RetryDegraded, RetractionAcked,
     Bump, Stop, Keep
<1> QED BY <1>1, <1>3, <1>4, <1>5, <1>7, <1>8

\* What a step may do to the facts that govern.
Governing == <<acc.chat, acc.modAt, acc.modId, lifted>>
Lifts(at) == acc'.chat = "none" /\ acc'.modAt = at /\ lifted' = Newest(lifted, at)

LEMMA GoverningMoves ==
  ASSUME TypeOK, TypeOK', [Next]_vars
  PROVE  \/ UNCHANGED Governing /\ UNCHANGED handled
         \/ \E f \in bus \cap Moderation :
              \/ UNCHANGED Governing /\ TimeoutFallback(f) /\ UNCHANGED handled
              \/ UNCHANGED Governing /\ ~TimeoutFallback(f) /\ ~AcceptsModeration(f)
                 /\ handled' = handled \cup {f}
              \/ /\ AcceptsModeration(f) /\ handled' = handled \cup {f}
                 /\ acc'.modId = f.kind /\ acc'.modAt = f.at
                 /\ \/ f.kind = "unban" /\ Lifts(f.at)
                    \/ f.kind # "unban" /\ acc'.chat # "none" /\ lifted' = lifted
         \/ acc.chat = "timeout" /\ Lifts(acc.modAt) /\ acc'.modId = acc.modId /\ UNCHANGED handled
         \/ \E w \in Workers :
              /\ workers[w].at = "verify" /\ workers[w].seen >= acc.modAt
              /\ Lifts(workers[w].seen) /\ UNCHANGED handled
<1>0. acc \in Records
  BY DEF TypeOK
<1>a. \A a \in Records : /\ Recover(a).chat = a.chat /\ Recover(a).modAt = a.modAt
                         /\ Recover(a).modId = a.modId
                         /\ Restrict(a).chat = a.chat /\ Restrict(a).modAt = a.modAt
                         /\ Restrict(a).modId = a.modId
                         /\ Recovering(a).chat = a.chat /\ Recovering(a).modAt = a.modAt
                         /\ Recovering(a).modId = a.modId
  BY DEF Recover, Recovering, Restrict, Records
<1>1. CASE UNCHANGED <<acc, lifted, handled>>
  BY <1>1 DEF Governing
<1>2. CASE UNCHANGED <<lifted, handled>> /\ acc'.chat = acc.chat /\ acc'.modAt = acc.modAt
           /\ acc'.modId = acc.modId
  BY <1>2 DEF Governing
<1>3. CASE Enable
  <2> DEFINE a == [acc EXCEPT !.desired = TRUE]
  <2>1. a \in Records /\ a.chat = acc.chat /\ a.modAt = acc.modAt /\ a.modId = acc.modId
    BY <1>0 DEF Records
  <2>2. acc' \in {Restrict(a), Recover(a)} /\ UNCHANGED <<lifted, handled>>
    BY <1>3, Zenon DEF Enable
  <2> HIDE DEF a
  <2> QED BY <1>2, <1>a, <2>1, <2>2
<1>4. CASE Disable \/ AttemptDue \/ RetractionAcked
  BY <1>0, <1>2, <1>4 DEF Disable, AttemptDue, RetractionAcked, Records
<1>5. CASE RetryRecovery \/ RetryDegraded
  <2>1. acc' \in {Recovering(acc), [acc EXCEPT !.due = FALSE]} /\ UNCHANGED <<lifted, handled>>
    BY <1>5, Zenon DEF RetryRecovery, RetryDegraded
  <2>2. LET a == [acc EXCEPT !.due = FALSE] IN
        a.chat = acc.chat /\ a.modAt = acc.modAt /\ a.modId = acc.modId
    BY <1>0 DEF Records
  <2> QED BY <1>0, <1>2, <1>a, <2>1, <2>2
<1>6. ASSUME NEW f \in bus, NEW again \in BOOLEAN, ObserveModeration(f, again)
      PROVE  /\ f \in Moderation
             /\ \/ UNCHANGED Governing /\ TimeoutFallback(f) /\ UNCHANGED handled
                \/ UNCHANGED Governing /\ ~TimeoutFallback(f) /\ ~AcceptsModeration(f)
                   /\ handled' = handled \cup {f}
                \/ /\ AcceptsModeration(f) /\ handled' = handled \cup {f}
                   /\ acc'.modId = f.kind /\ acc'.modAt = f.at
                   /\ \/ f.kind = "unban" /\ Lifts(f.at)
                      \/ f.kind # "unban" /\ acc'.chat # "none" /\ lifted' = lifted
  <2> DEFINE a == [acc EXCEPT !.modAt = f.at, !.modId = f.kind]
  <2>1. f \in Moderation /\ handled' = IF TimeoutFallback(f) THEN handled ELSE handled \cup {f}
    BY <1>6 DEF ObserveModeration
  <2>2. a \in Records /\ a.modAt = f.at /\ a.modId = f.kind
    BY <1>0, <2>1 DEF Records, Moderation
  <2>3. CASE ~AcceptsModeration(f)
    <3>1. acc' = acc /\ lifted' = lifted
      BY <1>6, <2>3 DEF ObserveModeration
    <3>2. UNCHANGED Governing
      BY <3>1 DEF Governing
    <3> QED BY <2>1, <2>3, <3>2, Zenon
  <2>4. CASE AcceptsModeration(f)
    <3>1. acc' = Moderated(f) /\ handled' = handled \cup {f}
          /\ lifted' = IF f.kind = "unban" THEN Newest(lifted, f.at) ELSE lifted
      BY <1>6, <2>4 DEF ObserveModeration, AcceptsModeration
    <3>2. CASE f.kind = "unban"
      <4>1. acc' = Unbanned(a)
        BY <3>1, <3>2, Zenon DEF Moderated
      <4> HIDE DEF a
      <4> DEFINE b == [a EXCEPT !.chat = "none", !.until = 0]
      <4>2. b \in Records /\ b.chat = "none" /\ b.modAt = a.modAt /\ b.modId = a.modId
        BY <2>2, Ranges DEF Records
      <4>3. acc' = Recover(b)
        BY <4>1 DEF Unbanned
      <4> HIDE DEF b
      <4>4. acc'.chat = "none" /\ acc'.modAt = f.at /\ acc'.modId = f.kind
        BY <1>a, <2>2, <4>2, <4>3
      <4>5. lifted' = Newest(lifted, f.at)
        BY <3>1, <3>2
      <4> QED BY <2>1, <2>4, <3>1, <3>2, <4>4, <4>5, Zenon DEF Lifts
    <3>3. CASE f.kind # "unban"
      <4>1. acc' \in {TimedOut(a, f), Banned(a)}
        BY <3>1, <3>3, Zenon DEF Moderated
      <4>2. acc'.chat # "none" /\ acc'.modAt = f.at /\ acc'.modId = f.kind
        <5> HIDE DEF a
        <5>1. CASE acc' = TimedOut(a, f)
          <6> DEFINE b == [a EXCEPT !.chat = "timeout", !.until = (f.at \div 2) + TimeoutLength]
          <6>1. acc' = Restrict(b) /\ acc' \in Records
            BY <5>1 DEF TimedOut, TypeOK
          <6>2. acc'.until = (f.at \div 2) + TimeoutLength
            BY <2>2, <6>1 DEF Restrict, Records
          <6>3. (f.at \div 2) + TimeoutLength \in 0 .. Horizon
            BY <6>1, <6>2 DEF Records
          <6>4. b \in Records /\ b.chat = "timeout" /\ b.modAt = a.modAt /\ b.modId = a.modId
            BY <2>2, <6>3 DEF Records
          <6> HIDE DEF b
          <6> QED BY <1>a, <2>2, <6>1, <6>4
        <5>2. CASE acc' = Banned(a)
          <6> DEFINE b == [a EXCEPT !.chat = "banned", !.until = 0, !.incident = TRUE]
          <6>1. b \in Records /\ b.chat = "banned" /\ b.modAt = a.modAt /\ b.modId = a.modId
            BY <2>2, Ranges DEF Records
          <6>2. acc' = Restrict(b)
            BY <5>2 DEF Banned
          <6> HIDE DEF b
          <6> QED BY <1>a, <2>2, <6>1, <6>2
        <5> QED BY <4>1, <5>1, <5>2
      <4>3. lifted' = lifted
        BY <3>1, <3>3
      <4> QED BY <2>1, <2>4, <3>1, <3>3, <4>2, <4>3, Zenon
    <3> QED BY <3>2, <3>3
  <2> QED BY <2>3, <2>4
<1>7. ASSUME NEW again \in BOOLEAN, ObserveGrant(again)
      PROVE  UNCHANGED Governing /\ UNCHANGED handled
  <2> DEFINE f == observer.fact
             a == [acc EXCEPT !.grantAt = f.at, !.grantId = f.kind]
             l == [a EXCEPT !.grant = "missing", !.incident = TRUE]
             h == [a EXCEPT !.grant = "healthy"]
  <2>1. f \in Grants /\ UNCHANGED <<lifted, handled>>
    BY <1>7 DEF ObserveGrant, TypeOK
  <2>2. \/ acc' = Restrict(l) \/ acc' = Recover(h) \/ acc' \in {a, acc}
    BY <1>7, Zenon DEF ObserveGrant
  <2> HIDE DEF f
  <2>3. a \in Records /\ a.chat = acc.chat /\ a.modAt = acc.modAt /\ a.modId = acc.modId
    BY <1>0, <2>1 DEF Grants, Records
  <2> HIDE DEF a
  <2>4. l \in Records /\ l.chat = a.chat /\ l.modAt = a.modAt /\ l.modId = a.modId
    BY <2>3 DEF Records
  <2>5. h \in Records /\ h.chat = a.chat /\ h.modAt = a.modAt /\ h.modId = a.modId
    BY <2>3 DEF Records
  <2> HIDE DEF l, h
  <2>6. acc'.chat = acc.chat /\ acc'.modAt = acc.modAt /\ acc'.modId = acc.modId
    BY <1>a, <2>2, <2>3, <2>4, <2>5
  <2> QED BY <2>1, <2>6 DEF Governing
<1>8. CASE ExpireTimeout
  <2> DEFINE b == [acc EXCEPT !.chat = "none", !.until = 0]
  <2>1. b \in Records /\ b.chat = "none" /\ b.modAt = acc.modAt /\ b.modId = acc.modId
    BY <1>0, Ranges DEF Records
  <2>2. /\ acc' = Recover(b) /\ acc.chat = "timeout" /\ handled' = handled
        /\ lifted' = Newest(lifted, acc.modAt)
    BY <1>8 DEF ExpireTimeout
  <2> HIDE DEF b
  <2> QED BY <1>a, <2>1, <2>2 DEF Lifts
<1>9. ASSUME NEW w \in Workers, VerifyUnban(w)
      PROVE  \/ UNCHANGED <<acc, lifted, handled>>
             \/ /\ workers[w].at = "verify" /\ workers[w].seen >= acc.modAt
                /\ Lifts(workers[w].seen) /\ UNCHANGED handled
  <2> DEFINE seen == workers[w].seen
             a == [acc EXCEPT !.chat = "none", !.until = 0, !.modAt = seen, !.modId = "verified"]
  <2>1. seen \in Moments
    BY DEF TypeOK
  <2>2. handled' = handled /\ workers[w].at = "verify"
    BY <1>9 DEF VerifyUnban, Goes
  <2>3. \/ acc' = acc /\ lifted' = lifted
        \/ seen >= acc.modAt /\ acc' = a /\ lifted' = Newest(lifted, seen)
    BY <1>9, Zenon DEF VerifyUnban
  <2> HIDE DEF seen
  <2>4. a.chat = "none" /\ a.modAt = seen
    BY <1>0, <2>1 DEF Records
  <2> HIDE DEF a
  <2> QED BY <2>2, <2>3, <2>4 DEF Lifts, seen
<1>10. ASSUME NEW w \in Workers, Claim(w) \/ FinishOk(w) \/ FinishFailed(w)
       PROVE  UNCHANGED <<lifted, handled>> /\ acc'.chat = acc.chat /\ acc'.modAt = acc.modAt
              /\ acc'.modId = acc.modId
  <2>1. UNCHANGED <<lifted, handled>>
        /\ acc' \in {acc, Degraded, Succeeded, [acc EXCEPT !.due = FALSE],
                     [acc EXCEPT !.attempts = @ + 1, !.due = FALSE]}
    BY <1>10, Zenon DEF Claim, FinishOk, FinishFailed
  <2>2. CASE acc' \in {acc, Degraded, [acc EXCEPT !.due = FALSE]}
    BY <1>0, <2>1, <2>2 DEF Degraded, Records
  <2>3. CASE acc' = Succeeded
    BY <1>0, <2>1, <2>3 DEF Succeeded, Records
  <2>4. CASE acc' = [acc EXCEPT !.attempts = @ + 1, !.due = FALSE]
    BY <1>0, <2>1, <2>4 DEF Records
  <2> QED BY <2>1, <2>2, <2>3, <2>4
<1>11. \/ UNCHANGED <<acc, lifted, handled>>
       \/ Enable \/ Disable \/ AttemptDue \/ RetractionAcked \/ RetryRecovery \/ RetryDegraded
       \/ ExpireTimeout
       \/ \E f \in bus, again \in BOOLEAN : ObserveModeration(f, again)
       \/ \E again \in BOOLEAN : ObserveGrant(again)
       \/ \E w \in Workers : Claim(w) \/ VerifyUnban(w) \/ FinishOk(w) \/ FinishFailed(w)
  BY Zenon DEF Next, Twitch, People, Events, Work, Due, vars, Moderate, Happen, RevokeChat,
     GrantEvent, Tick, SetBanned, ReadForGrant, ObserverDies, GetCurrent, NoteTime, BotBanned,
     Enroll, CallFails, WorkerDies, Goes
<1>12. ASSUME NEW f \in bus, NEW again \in BOOLEAN, ObserveModeration(f, again)
       PROVE  f \in bus \cap Moderation
  BY <1>6, <1>12
<1> QED BY <1>1, <1>2, <1>3, <1>4, <1>5, <1>6, <1>7, <1>8, <1>9, <1>10, <1>11, <1>12

LEMMA GovernedStep ==
  ASSUME TypeOK, TypeOK', EventsDistinct, SeenOdd, Governed, [Next]_vars
  PROVE  Governed'
<1>0. /\ acc.modAt \in Nat /\ lifted \in Nat /\ acc'.modAt \in Nat /\ lifted' \in Nat
      /\ \A f \in bus \cap Moderation : f.at \in Nat
      /\ \A f \in handled : f.at \in Nat
  BY Ranges DEF TypeOK, Records, Moments, Moderation
<1>1. CASE UNCHANGED Governing /\ UNCHANGED handled
  BY <1>1, Zenon DEF Governing, Governed
\* An event has news for the record only if it is newer than all it knows.
<1>2. ASSUME NEW f \in bus \cap Moderation, AcceptsModeration(f) PROVE f.at > acc.modAt
  <2>1. f.at >= acc.modAt /\ ~(f.kind = acc.modId /\ f.at = acc.modAt)
    BY <1>2 DEF AcceptsModeration
  <2>2. ASSUME f.at = acc.modAt PROVE FALSE
    <3>1. PICK k \in 1 .. clock : f.at = 2 * k
      BY DEF EventsDistinct
    <3>2. k \in Nat /\ k > 0
      BY Ranges DEF TypeOK
    <3>3. f.at # 0 /\ ~Odd(f.at)
      BY <3>1, <3>2 DEF Odd
    <3>4. PICK g \in handled : g.at = acc.modAt /\ g.kind = acc.modId
      BY <2>2, <3>3 DEF Governed
    <3>5. g = f
      BY <2>2, <3>4 DEF EventsDistinct
    <3> QED BY <2>1, <3>4, <3>5
  <2> QED BY <1>0, <2>1, <2>2
<1>3. ASSUME NEW f \in bus \cap Moderation, UNCHANGED Governing, ~TimeoutFallback(f),
             ~AcceptsModeration(f), handled' = handled \cup {f}
      PROVE  Governed'
  <2>1. f.at <= acc.modAt
    BY <1>0, <1>3 DEF AcceptsModeration, AmbiguousUnban
  <2> QED BY <1>3, <2>1 DEF Governing, Governed
<1>4. ASSUME NEW f \in bus \cap Moderation, AcceptsModeration(f), handled' = handled \cup {f},
             acc'.modId = f.kind, acc'.modAt = f.at
      PROVE  /\ \A g \in handled' : g.at <= acc'.modAt
             /\ \E g \in handled' : g.at = acc'.modAt /\ g.kind = acc'.modId
             /\ lifted < f.at
  <2>1. f.at > acc.modAt
    BY <1>2, <1>4
  <2> QED BY <1>0, <1>4, <2>1 DEF Governed
<1>5. ASSUME NEW f \in bus \cap Moderation, AcceptsModeration(f), handled' = handled \cup {f},
             acc'.modId = f.kind, acc'.modAt = f.at, f.kind = "unban", Lifts(f.at)
      PROVE  Governed'
  <2>1. /\ \A g \in handled' : g.at <= acc'.modAt
        /\ \E g \in handled' : g.at = acc'.modAt /\ g.kind = acc'.modId
        /\ lifted < f.at
    BY <1>4, <1>5
  <2>2. acc'.chat = "none" /\ lifted' = acc'.modAt
    BY <1>0, <1>5, <2>1 DEF Lifts, Newest
  <2> QED BY <1>0, <2>1, <2>2 DEF Governed
<1>6. ASSUME NEW f \in bus \cap Moderation, AcceptsModeration(f), handled' = handled \cup {f},
             acc'.modId = f.kind, acc'.modAt = f.at, f.kind # "unban", acc'.chat # "none",
             lifted' = lifted
      PROVE  Governed'
  <2>1. /\ \A g \in handled' : g.at <= acc'.modAt
        /\ \E g \in handled' : g.at = acc'.modAt /\ g.kind = acc'.modId
        /\ lifted < f.at
    BY <1>4, <1>6
  <2>2. f \in handled' /\ f.kind \in Restrictions
    BY <1>6 DEF Moderation
  <2> QED BY <1>0, <1>6, <2>1, <2>2 DEF Governed
<1>7. CASE acc.chat = "timeout" /\ Lifts(acc.modAt) /\ acc'.modId = acc.modId
           /\ UNCHANGED handled
  <2>1. acc'.chat = "none" /\ acc'.modAt = acc.modAt /\ lifted' = acc.modAt
    BY <1>0, <1>7 DEF Lifts, Newest, Governed
  <2> QED BY <1>0, <1>7, <2>1 DEF Governed
<1>8. ASSUME NEW w \in Workers, workers[w].at = "verify", workers[w].seen >= acc.modAt,
             Lifts(workers[w].seen), UNCHANGED handled
      PROVE  Governed'
  <2>1. Odd(workers[w].seen) /\ workers[w].seen \in Nat
    BY <1>0, <1>8 DEF SeenOdd, Lifts
  <2>2. acc'.chat = "none" /\ acc'.modAt = workers[w].seen /\ lifted' = acc'.modAt
    BY <1>0, <1>8, <2>1 DEF Lifts, Newest, Governed
  <2>3. \A f \in handled' : f.at <= acc'.modAt
    BY <1>0, <1>8, <2>1, <2>2 DEF Governed
  <2> QED BY <1>0, <2>1, <2>2, <2>3 DEF Governed
<1> QED BY <1>1, <1>3, <1>5, <1>6, <1>7, <1>8, GoverningMoves

LEMMA GovernedInit == Init => EventsDistinct /\ SeenOdd /\ Governed
<1> SUFFICES ASSUME Init PROVE EventsDistinct /\ SeenOdd /\ Governed
  OBVIOUS
<1>1. EventsDistinct /\ SeenOdd
  BY DEF Init, EventsDistinct, SeenOdd, Idle
<1>2. Governed
  BY DEF Init, Governed
<1> QED BY <1>1, <1>2

\* The chat is free if and only if every restriction anyone heard of was over by
\* a newer moment than its own (acceptsModeration, verifyUnban, expireTimeout).
THEOREM NewestGoverns == Spec => []NewestFactGoverns
<1> DEFINE Inv == TypeOK /\ Times /\ EventsDistinct /\ SeenOdd /\ Governed
<1>1. Init => Inv
  BY TypeInit, GovernedInit
<1>2. Inv /\ [Next]_vars => Inv'
  BY TypeStep, EventsStep, SeenStep, GovernedStep
<1>3. Inv => NewestFactGoverns
  BY GovernedDecides
<1> QED BY <1>1, <1>2, <1>3, PTL DEF Spec
=============================================================================
