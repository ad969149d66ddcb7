-------------------------- MODULE ChannelLifecycle --------------------------
(***************************************************************************)
(* The lifecycle record Users keeps for one channel, and those who change   *)
(* it: the owner, administrators, moderation and grant events of Twitch,    *)
(* and the outgress workers that bring a channel back.  A transition is one *)
(* compare-and-swap of the row, so it is one step.                          *)
(*                                                                         *)
(* The admission generation of a request is compared with the row's for     *)
(* equality only, and generations never come back: the model keeps of them  *)
(* which requests still carry the row's own ("fresh").  A recovery's        *)
(* operation id changes with the generation and is left out.                *)
(***************************************************************************)
EXTENDS Naturals

CONSTANTS Workers,          \* outgress workers
          NoFact,
          MaxAttempts,      \* lifecycle.MaxRecoveryAttempts
          RetractionLimit,  \* retractions a record holds
          TimeoutLength,    \* moments a timeout lasts
          MaxEvents,        \* bound: events at Twitch
          MaxCommands,      \* bound: commands of the owner and of administrators
          MaxFaults         \* bound: checks and enrolments that fail, crashes, and
                            \* events delivered again

ASSUME CountAssumption == /\ MaxAttempts \in Nat \ {0} /\ RetractionLimit \in Nat \ {0}
                          /\ TimeoutLength \in Nat \ {0} /\ MaxEvents \in Nat
                          /\ MaxCommands \in Nat /\ MaxFaults \in Nat

VARIABLES acc,        \* the record
          service,    \* User.banned, the service-level ban
          twitch,     \* the bot at Twitch: none, banned, timeout
          ends,       \* when its timeout ends there
          consent,    \* the owner's authorization there: given, withdrawn
          clock, events,
          bus,        \* events not handled for the last time
          workers,    \* recoveries under way
          observer,   \* the grant event being handled
          lifted,     \* newest moment up to which restrictions are over (history)
          handled,    \* moderation events handled, but for the revocations that are
                    \* part of a timeout (history)
          earned,     \* the last recovery to succeed began after the last stop (history)
          parked,     \* there was a service-level ban (history)
          commands, faults

vars == <<acc, service, twitch, ends, consent, clock, events, bus, workers, observer, lifted,
          handled, earned, parked, commands, faults>>
outside == <<twitch, ends, consent, clock, events>>
bounds == <<commands, faults>>

Horizon == MaxEvents * (TimeoutLength + 1)
Moments == 0 .. 2 * Horizon + 1
Restrictions == {"ban", "timeout", "revoked"}
Moderation == [kind : Restrictions \cup {"unban"}, at : Moments]
Grants == [kind : {"missing", "restored"}, at : Moments]

ASSUME FactAssumption == NoFact \notin Grants

Records ==
    [desired : BOOLEAN, state : {"active", "blocked", "disabled", "recovering", "degraded"},
     chat : {"none", "banned", "timeout"}, until : 0 .. Horizon,
     modAt : Moments, modId : Restrictions \cup {"unban", "verified", "none"},
     grant : {"healthy", "missing"}, grantAt : Moments, grantId : {"missing", "restored", "none"},
     attempts : 0 .. MaxAttempts, due : BOOLEAN, incident : BOOLEAN,
     retractions : 0 .. RetractionLimit]
Stages == {"idle", "get", "look", "ask", "verify", "enroll", "ok", "failed"}

TypeOK ==
    /\ acc \in Records /\ (acc.due => acc.state \in {"recovering", "degraded"})
    /\ service \in BOOLEAN /\ twitch \in {"none", "banned", "timeout"}
    /\ consent \in {"given", "withdrawn"}
    /\ ends \in 0 .. Horizon /\ clock \in 0 .. Horizon /\ events \in 0 .. MaxEvents
    /\ bus \subseteq Moderation \cup Grants
    /\ workers \in [Workers -> [at : Stages, fresh : BOOLEAN, clean : BOOLEAN, seen : Moments]]
    /\ observer \in [fact : Grants \cup {NoFact}, fresh : BOOLEAN]
    /\ lifted \in Moments /\ handled \subseteq Moderation
    /\ earned \in BOOLEAN /\ parked \in BOOLEAN
    /\ commands \in 0 .. MaxCommands /\ faults \in 0 .. MaxFaults

Idle == [at |-> "idle", fresh |-> FALSE, clean |-> FALSE, seen |-> 0]
NoObserver == [fact |-> NoFact, fresh |-> FALSE]

\* A channel that works.
Init ==
    /\ acc = [desired |-> TRUE, state |-> "active", chat |-> "none", until |-> 0,
              modAt |-> 0, modId |-> "none", grant |-> "healthy", grantAt |-> 0,
              grantId |-> "none", attempts |-> 0, due |-> FALSE, incident |-> FALSE,
              retractions |-> 0]
    /\ service = FALSE /\ twitch = "none" /\ ends = 0 /\ consent = "given" /\ clock = 0 /\ events = 0
    /\ bus = {} /\ workers = [w \in Workers |-> Idle] /\ observer = NoObserver
    /\ lifted = 0 /\ handled = {} /\ earned = TRUE /\ parked = FALSE
    /\ commands = 0 /\ faults = 0

Fault == faults < MaxFaults /\ faults' = faults + 1
Command == commands < MaxCommands /\ commands' = commands + 1
Newest(a, b) == IF a > b THEN a ELSE b

-----------------------------------------------------------------------------
(* Twitch.  Events happen at even moments; a worker that asks about the ban  *)
(* notes an odd one.  Without the authorization of the owner there is no      *)
(* subscription by which a moderation could be heard of.                     *)

Happen(kind) ==
    /\ events < MaxEvents /\ events' = events + 1 /\ clock' = clock + 1
    /\ bus' = IF consent = "given" \/ kind \in {"missing", "restored"}
              THEN bus \cup {[kind |-> kind, at |-> 2 * (clock + 1)]} ELSE bus
    /\ UNCHANGED <<acc, service, workers, observer, lifted, handled, earned, parked>>
    /\ UNCHANGED bounds

\* A timeout ends at Twitch by itself and without an event.
Restricted == twitch = "banned" \/ (twitch = "timeout" /\ clock < ends)

Moderate(kind) ==
    /\ kind = "unban" => Restricted
    /\ Happen(kind)
    /\ twitch' = CASE kind = "unban" -> "none" [] kind = "ban" -> "banned" [] OTHER -> "timeout"
    /\ ends' = IF kind = "timeout" THEN clock + 1 + TimeoutLength ELSE 0
    /\ UNCHANGED consent

\* The chat subscription of a restricted bot is revoked as well, at once or later.
RevokeChat == Restricted /\ Happen("revoked") /\ UNCHANGED <<twitch, ends, consent>>

\* The owner withdraws the authorization, or gives it (again).
GrantEvent(kind) ==
    /\ Happen(kind) /\ consent' = (IF kind = "missing" THEN "withdrawn" ELSE "given")
    /\ UNCHANGED <<twitch, ends>>

\* Time passes while a timeout runs.
Tick ==
    /\ clock < Newest(ends, acc.until) /\ clock' = clock + 1
    /\ UNCHANGED <<acc, service, twitch, ends, consent, events, bus, workers, observer, lifted,
                   handled, earned, parked, bounds>>

-----------------------------------------------------------------------------
(* Transitions of the record                                                *)

CanRecover(a) == a.desired /\ ~service /\ a.chat = "none" /\ a.grant # "missing"

\* Variant: the date of the next attempt survives a restriction.
RestrictKeepsDate(a) == [a EXCEPT !.state = IF a.desired THEN "blocked" ELSE "disabled"]

Restrict(a) ==
    [a EXCEPT !.state = IF a.desired THEN "blocked" ELSE "disabled", !.due = FALSE]

Recovering(a) == [a EXCEPT !.state = "recovering", !.attempts = 0, !.due = TRUE]

Recover(a) == IF CanRecover(a) THEN Recovering(a) ELSE a

\* bump: requests under way carry an old generation from now on.
Superseded == [w \in Workers |-> [workers[w] EXCEPT !.fresh = FALSE]]
Bump == workers' = Superseded /\ observer' = [observer EXCEPT !.fresh = FALSE]

\* A bump that stops the channel; the recoveries under way began before it.
Stopped == [w \in Workers |-> [workers[w] EXCEPT !.fresh = FALSE, !.clean = FALSE]]
Stop == workers' = Stopped /\ observer' = [observer EXCEPT !.fresh = FALSE]

Keep == UNCHANGED <<workers, observer>>

-----------------------------------------------------------------------------
(* The owner and administrators                                             *)

Enable ==
    /\ Command /\ ~(acc.desired /\ acc.state = "active")
    /\ LET a == [acc EXCEPT !.desired = TRUE] IN
       acc' = IF a.chat # "none" \/ a.grant = "missing" THEN Restrict(a) ELSE Recover(a)
    /\ Bump
    /\ UNCHANGED <<service, bus, lifted, handled, earned, parked, faults>> /\ UNCHANGED outside

Disable ==
    /\ Command /\ (acc.desired \/ acc.state # "disabled")
    /\ acc' = [acc EXCEPT !.desired = FALSE, !.state = "disabled", !.due = FALSE]
    /\ Stop
    /\ UNCHANGED <<service, bus, lifted, handled, earned, parked, faults>> /\ UNCHANGED outside

RetryBlocked == acc.state = "recovering" \/ ~acc.desired \/ service

\* "retry" of the dashboard
RetryRecovery ==
    /\ Command /\ ~RetryBlocked /\ acc' = Recovering(acc) /\ Bump
    /\ UNCHANGED <<service, bus, lifted, handled, earned, parked, faults>> /\ UNCHANGED outside

\* SetBanned writes the flag and leaves the lifecycle alone.
SetBanned ==
    /\ Command /\ service' = ~service /\ parked' = TRUE
    /\ UNCHANGED <<acc, bus, workers, observer, lifted, handled, earned, faults>>
    /\ UNCHANGED outside

-----------------------------------------------------------------------------
(* Moderation and grant events                                              *)

\* An event leaves the bus when it was handled, or is delivered again later.
Consume(f, again) ==
    /\ bus' = IF again THEN bus ELSE bus \ {f}
    /\ IF again THEN Fault ELSE UNCHANGED faults

\* The revocation of the chat subscription during a known timeout is part of it.
TimeoutFallback(f) == f.kind = "revoked" /\ acc.chat = "timeout"

AmbiguousUnban(f) == f.kind = "unban" /\ f.at = acc.modAt /\ acc.chat # "none"

\* Variant: an event is taken for news unless it is the last one again.
AcceptsUnordered(f) == f.kind # acc.modId \/ f.at # acc.modAt

AcceptsModeration(f) ==
    /\ ~TimeoutFallback(f) /\ ~AmbiguousUnban(f)
    /\ f.at >= acc.modAt /\ ~(f.kind = acc.modId /\ f.at = acc.modAt)

\* Variant: a ban opens no incident while the owner has the bot off.
BannedQuietly(a) == Restrict([a EXCEPT !.chat = "banned", !.until = 0, !.incident = a.desired])

Banned(a) == Restrict([a EXCEPT !.chat = "banned", !.until = 0, !.incident = TRUE])

TimedOut(a, f) ==
    Restrict([a EXCEPT !.chat = "timeout", !.until = (f.at \div 2) + TimeoutLength])

Unbanned(a) == Recover([a EXCEPT !.chat = "none", !.until = 0])

Moderated(f) ==
    LET a == [acc EXCEPT !.modAt = f.at, !.modId = f.kind]
    IN  CASE f.kind = "unban" -> Unbanned(a)
          [] f.kind = "timeout" -> TimedOut(a, f)
          [] OTHER -> Banned(a)

ObserveModeration(f, again) ==
    /\ f \in bus \cap Moderation /\ Consume(f, again)
    /\ handled' = IF TimeoutFallback(f) THEN handled ELSE handled \cup {f}
    /\ IF AcceptsModeration(f)
       THEN /\ acc' = Moderated(f)
            /\ IF f.kind = "unban" THEN Bump /\ lifted' = Newest(lifted, f.at)
                                   ELSE Stop /\ UNCHANGED lifted
       ELSE UNCHANGED acc /\ Keep /\ UNCHANGED lifted
    /\ UNCHANGED <<service, earned, parked, commands>> /\ UNCHANGED outside

\* The sweep finds the deadline passed.
ExpireTimeout ==
    /\ acc.chat = "timeout" /\ clock >= acc.until
    /\ acc' = Recover([acc EXCEPT !.chat = "none", !.until = 0]) /\ Bump
    /\ lifted' = Newest(lifted, acc.modAt)
    /\ UNCHANGED <<service, bus, handled, earned, parked, bounds>> /\ UNCHANGED outside

\* observeGrant reads the record, and asks for the transition with the
\* generation it has read.
ReadForGrant(f) ==
    /\ observer = NoObserver /\ f \in bus \cap Grants
    /\ observer' = [fact |-> f, fresh |-> TRUE]
    /\ UNCHANGED <<acc, service, bus, workers, lifted, handled, earned, parked, bounds>>
    /\ UNCHANGED outside

Loses(f) == /\ f.kind = "missing" /\ observer.fresh
            /\ f.kind # acc.grantId \/ f.at # acc.grantAt
            /\ f.at >= acc.grantAt

Restores(f) == f.kind = "restored" /\ observer.fresh /\ f.at > acc.grantAt

\* An event that meets another generation is acknowledged all the same.
ObserveGrant(again) ==
    LET f == observer.fact
        a == [acc EXCEPT !.grantAt = f.at, !.grantId = f.kind]
    IN
    /\ f # NoFact /\ Consume(f, again) /\ observer' = NoObserver
    /\ CASE Loses(f) /\ acc.grant = "healthy" ->
                /\ acc' = Restrict([a EXCEPT !.grant = "missing", !.incident = TRUE])
                /\ workers' = Stopped
         [] Restores(f) /\ acc.grant = "missing" ->
                acc' = Recover([a EXCEPT !.grant = "healthy"]) /\ workers' = Superseded
         [] OTHER -> /\ acc' = IF Loses(f) \/ Restores(f) THEN a ELSE acc
                     /\ UNCHANGED workers
    /\ UNCHANGED <<service, lifted, handled, earned, parked, commands>> /\ UNCHANGED outside

ObserverDies ==
    /\ observer # NoObserver /\ Fault /\ observer' = NoObserver
    /\ UNCHANGED <<acc, service, bus, workers, lifted, handled, earned, parked, commands>>
    /\ UNCHANGED outside

-----------------------------------------------------------------------------
(* Recovery, by an outgress worker                                           *)

\* Variant: the generation is not compared.
MatchesAnyRecovery(w) == acc.state = "recovering"

\* The answer belongs to the recovery the record is in.
RecoveryMatches(w) == workers[w].fresh /\ acc.state = "recovering"

Degraded == [acc EXCEPT !.state = "degraded", !.due = FALSE]

\* The claim that exceeds the attempts degrades instead.
Claim(w) ==
    /\ acc.state = "recovering" /\ acc.due /\ workers[w].at = "idle"
    /\ IF acc.attempts >= MaxAttempts
       THEN acc' = Degraded /\ Bump
       ELSE /\ acc' = [acc EXCEPT !.attempts = @ + 1, !.due = FALSE]
            /\ workers' = [workers EXCEPT ![w] =
                             [at |-> "get", fresh |-> TRUE, clean |-> TRUE, seen |-> 0]]
            /\ UNCHANGED observer
    /\ UNCHANGED <<service, bus, lifted, handled, earned, parked, bounds>> /\ UNCHANGED outside

Goes(w, from, to) ==
    /\ workers[w].at = from
    /\ workers' = [workers EXCEPT ![w] =
                     [at |-> to, fresh |-> workers[w].fresh,
                      clean |-> workers[w].clean /\ to # "failed",
                      seen |-> IF to = "verify" THEN workers[w].seen ELSE 0]]
    /\ UNCHANGED <<service, observer, handled, earned, parked, commands>>
    /\ UNCHANGED outside

GetCurrent(w) ==
    /\ Goes(w, "get", IF ~workers[w].fresh THEN "failed"
                      ELSE IF acc.chat # "none" THEN "look" ELSE "enroll")
    /\ UNCHANGED <<acc, bus, lifted, faults>>

\* The moment is noted before Twitch is asked.
NoteTime(w) ==
    /\ workers[w].at = "look"
    /\ workers' = [workers EXCEPT ![w].at = "ask", ![w].seen = 2 * clock + 1]
    /\ UNCHANGED <<acc, service, bus, observer, lifted, handled, earned, parked, bounds>>
    /\ UNCHANGED outside

BotBanned(w) == /\ Goes(w, "ask", IF Restricted THEN "failed" ELSE "verify")
                /\ UNCHANGED <<acc, bus, lifted, faults>>

\* No bump: the recovery goes on under its own generation.
VerifyUnban(w) ==
    LET seen == workers[w].seen
        applies == RecoveryMatches(w) /\ acc.desired /\ seen >= acc.modAt
    IN  /\ Goes(w, "verify", IF applies THEN "enroll" ELSE "failed")
        /\ acc' = IF applies THEN [acc EXCEPT !.chat = "none", !.until = 0, !.modAt = seen,
                                              !.modId = "verified"]
                             ELSE acc
        /\ lifted' = IF applies THEN Newest(lifted, seen) ELSE lifted
        /\ UNCHANGED <<bus, faults>>

\* Twitch takes no subscription without the owner's authorization (403), and no
\* chat subscription of a restricted bot.  Revocations of the old one are not
\* heeded after the new one was recorded.
Accepted == consent = "given" /\ ~Restricted

Enroll(w) ==
    /\ Goes(w, "enroll", IF workers[w].fresh /\ Accepted THEN "ok" ELSE "failed")
    /\ bus' = IF workers'[w].at = "ok" THEN {f \in bus : f.kind # "revoked"} ELSE bus
    /\ UNCHANGED <<acc, lifted, faults>>

CallFails(w) ==
    /\ Fault /\ \E stage \in {"get", "ask", "verify", "enroll"} : Goes(w, stage, "failed")
    /\ UNCHANGED <<acc, bus, lifted>>

\* Nobody tells the record; its next attempt comes when it is due.
WorkerDies(w) ==
    /\ Fault /\ workers[w].at # "idle" /\ workers' = [workers EXCEPT ![w] = Idle]
    /\ UNCHANGED <<acc, service, bus, observer, lifted, handled, earned, parked, commands>>
    /\ UNCHANGED outside

CanSucceed == CanRecover(acc) /\ ~(acc.incident /\ acc.retractions >= RetractionLimit)

Succeeded ==
    [acc EXCEPT !.state = "active", !.grant = "healthy", !.due = FALSE, !.incident = FALSE,
                !.retractions = @ + (IF acc.incident THEN 1 ELSE 0)]

FinishOk(w) ==
    /\ workers[w].at = "ok"
    /\ IF RecoveryMatches(w) /\ CanSucceed
       THEN /\ acc' = Succeeded /\ earned' = workers[w].clean
            /\ workers' = [Superseded EXCEPT ![w] = Idle]
            /\ observer' = [observer EXCEPT !.fresh = FALSE]
       ELSE workers' = [workers EXCEPT ![w] = Idle] /\ UNCHANGED <<acc, earned, observer>>
    /\ UNCHANGED <<service, bus, lifted, handled, parked, bounds>> /\ UNCHANGED outside

FinishFailed(w) ==
    /\ workers[w].at = "failed"
    /\ IF RecoveryMatches(w) /\ acc.attempts >= MaxAttempts
       THEN /\ acc' = Degraded /\ workers' = [Superseded EXCEPT ![w] = Idle]
            /\ observer' = [observer EXCEPT !.fresh = FALSE]
       ELSE /\ acc' = IF RecoveryMatches(w) THEN [acc EXCEPT !.due = FALSE] ELSE acc
            /\ workers' = [workers EXCEPT ![w] = Idle] /\ UNCHANGED observer
    /\ UNCHANGED <<service, bus, lifted, handled, earned, parked, bounds>>
    /\ UNCHANGED outside

\* Variant: a degraded record is left to its owner.
AwaitedOnce == {"recovering"}

\* NextAttemptAt passes: a minute or more after a claim or a failure, an hour
\* after the record was degraded.
Awaited == {"recovering", "degraded"}

AttemptDue ==
    /\ acc.state \in Awaited /\ ~acc.due /\ acc' = [acc EXCEPT !.due = TRUE]
    /\ UNCHANGED <<service, bus, workers, observer, lifted, handled, earned, parked, bounds>>
    /\ UNCHANGED outside

RetryDegraded ==
    /\ acc.state = "degraded" /\ acc.due
    /\ IF RetryBlocked THEN acc' = [acc EXCEPT !.due = FALSE] /\ Keep
                       ELSE acc' = Recovering(acc) /\ Bump
    /\ UNCHANGED <<service, bus, lifted, handled, earned, parked, bounds>> /\ UNCHANGED outside

RetractionAcked ==
    /\ acc.retractions > 0 /\ acc' = [acc EXCEPT !.retractions = @ - 1] /\ Keep
    /\ UNCHANGED <<service, bus, lifted, handled, earned, parked, bounds>> /\ UNCHANGED outside

-----------------------------------------------------------------------------
Twitch == \/ \E kind \in {"ban", "timeout", "unban"} : Moderate(kind)
          \/ \E kind \in {"missing", "restored"} : GrantEvent(kind)
          \/ RevokeChat \/ Tick

People == Enable \/ Disable \/ RetryRecovery \/ SetBanned

Events == \/ \E f \in bus, again \in BOOLEAN : ObserveModeration(f, again)
          \/ \E f \in bus : ReadForGrant(f)
          \/ \E again \in BOOLEAN : ObserveGrant(again)
          \/ ObserverDies

Work(w) == \/ GetCurrent(w) \/ NoteTime(w) \/ BotBanned(w) \/ VerifyUnban(w) \/ Enroll(w)
           \/ FinishOk(w) \/ FinishFailed(w)

Due == ExpireTimeout \/ AttemptDue \/ RetryDegraded \/ RetractionAcked

Next == \/ Twitch \/ People \/ Events \/ Due
        \/ \E w \in Workers : Claim(w) \/ Work(w) \/ CallFails(w) \/ WorkerDies(w)

Spec == Init /\ [][Next]_vars

\* The sweep runs for ever, a call ends, time passes, and the bus delivers until
\* an event is acknowledged; nobody is obliged to act at Twitch or to command.
FairSpec ==
    /\ Spec
    /\ WF_vars(Tick) /\ WF_vars(ExpireTimeout) /\ WF_vars(AttemptDue) /\ WF_vars(RetryDegraded)
    /\ WF_vars(RetractionAcked)
    /\ WF_vars(\E w \in Workers : Claim(w)) /\ \A w \in Workers : WF_vars(Work(w))
    /\ WF_vars(\E f \in bus : ObserveModeration(f, FALSE))
    /\ WF_vars(\E f \in bus : ReadForGrant(f)) /\ WF_vars(ObserveGrant(FALSE))

-----------------------------------------------------------------------------
\* The chat is free if and only if every restriction anyone heard of was over by
\* a newer moment than its own: a ban handled late, an unban or an expiry that a
\* newer ban overtook, and a check of Twitch overtaken by one, all lose to the
\* newest fact (acceptsModeration, verifyUnban, expireTimeout).
NewestFactGoverns ==
    acc.chat = "none" <=> \A f \in handled : f.kind \in Restrictions => f.at <= lifted

\* A channel is served only on the word of a recovery that was claimed after the
\* last decision, ban, timeout or lost grant that stopped it (succeedRecovery).
ServingIsEarned ==
    acc.state = "active" => /\ acc.desired /\ acc.chat = "none" /\ acc.grant = "healthy"
                            /\ earned

\* A ban or a lost grant leaves an incident for its notice even when it comes
\* while the bot is off, and the record of a channel that could be served is one
\* the sweep will look at (incident, recover, restrict).
NeverForgotten ==
    /\ acc.chat = "banned" \/ acc.grant = "missing" => acc.incident
    /\ ~acc.desired => acc.state = "disabled"
    /\ ~parked /\ CanRecover(acc) => acc.state \in {"active", "recovering", "degraded"}

\* The record and Twitch agree that the bot may serve, but for a timeout.
Wanted == /\ acc.desired /\ ~parked
          /\ acc.grant = "healthy" /\ consent = "given"
          /\ acc.chat # "banned" /\ twitch # "banned"

\* A channel its owner wants and authorizes, and nothing but a timeout keeps from
\* serving, is served again, whatever checks fail, workers die and enrolments were
\* refused meanwhile (retryDegraded, claimRecovery, expireTimeout).
EventuallyResumes == Wanted ~> (acc.state = "active" \/ ~Wanted)
=============================================================================
