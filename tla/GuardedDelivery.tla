--------------------------- MODULE GuardedDelivery ---------------------------
(***************************************************************************)
(* One message of a durable lane of pkg/bus, handled behind the guard of    *)
(* pkg/idempotency (Guard over NewTiered over ValkeyStore) by the pods of a *)
(* queue group.  A delivery looks for the claim in its pod's memory, then   *)
(* claims in Valkey, runs the handler, gives the claim back when it failed, *)
(* and answers the broker.  JetStream redelivers what was refused and what  *)
(* nobody keeps alive.  A delivery can be spent without a run, when the     *)
(* subscriber's queue is full or its subscription stops.                    *)
(***************************************************************************)
EXTENDS Naturals, FiniteSets

CONSTANTS Pods,
          NoPod,
          MaxDeliver,   \* deliveries the consumer is configured for
          Lanes,        \* kinds of lane the message may be on
          Faults,       \* kinds of fault that may happen
          MaxFaults,    \* bound: faults
          MaxFailures   \* bound: handler runs that return an error or panic

FaultKinds == {"seen", "reply", "release", "ack", "giveUp", "crash", "expiry",
               "unrun", "aged", "letter"}

\* "data" lanes defer and keep dead letters, "work" queues confirm their
\* acknowledgements, "plain" lanes do neither.
LaneKinds == {"data", "work", "plain"}

ASSUME LaneAssumption == /\ MaxDeliver \in Nat \ {0, 1} /\ Lanes \subseteq LaneKinds
                         /\ Faults \subseteq FaultKinds
ASSUME PodAssumption == NoPod \notin Pods
ASSUME BoundAssumption == MaxFaults \in Nat /\ MaxFailures \in Nat

VARIABLES lane,       \* the kind of lane, fixed when it is bound
          status,     \* the message at the broker
          delivered,  \* deliveries so far
          at, pod,    \* where each delivery is, and on which pod
          watched,    \* deliveries whose watch keeps them alive and will answer
          claim,      \* the Valkey key exists
          cached,     \* pods whose memory holds the claim
          letter,     \* the dead letter stream holds the message
          succeeded,  \* handler runs that returned nil (history)
          failed,     \* handler runs that failed (history)
          deferred,   \* handler runs that failed and asked to come later (history)
          unrun,      \* deliveries spent before the handler had them (history)
          lapses,     \* fail-opens, crashes and expiries of the claim (history)
          faults,     \* faults so far
          happened    \* their kinds (history)

vars == <<lane, status, delivered, at, pod, watched, claim, cached, letter, succeeded,
          failed, deferred, unrun, lapses, faults, happened>>

Deliveries == 1 .. MaxDeliver
\* "unsure" after an unconfirmed acknowledgement, "term" after the dead letter.
Refusals == {"nack", "defer", "unsure"}
Resolved == {"unsure", "term"}   \* resolve has taken the watch from the wheel
Stages == {"none", "lookup", "store", "handle", "open", "release", "later", "ack", "term",
           "done"} \cup Refusals
Releasing == {"release", "later"}   \* "later" for an error with RetryAfter
Running == {n \in Deliveries : at[n] \in {"handle", "open"}}
Settled == {"acked", "terminated", "exhausted"}

TypeOK ==
    /\ lane \in Lanes /\ status \in {"ready", "out"} \cup Settled
    /\ delivered \in 0 .. MaxDeliver
    /\ at \in [Deliveries -> Stages] /\ pod \in [Deliveries -> Pods \cup {NoPod}]
    /\ watched \subseteq Deliveries /\ cached \subseteq Pods
    /\ claim \in BOOLEAN /\ letter \in BOOLEAN
    /\ status = "ready" => delivered < MaxDeliver
    /\ \A n \in watched : at[n] \notin {"none", "done"}
    /\ letter => lane = "data"
    /\ succeeded \in Nat /\ failed \in Nat /\ deferred \in Nat /\ unrun \in Nat
    /\ lapses \in Nat /\ faults \in 0 .. MaxFaults
    /\ happened \subseteq Faults

Init ==
    /\ lane \in Lanes /\ status = "ready" /\ delivered = 0
    /\ at = [n \in Deliveries |-> "none"] /\ pod = [n \in Deliveries |-> NoPod]
    /\ watched = {} /\ claim = FALSE /\ cached = {} /\ letter = FALSE
    /\ succeeded = 0 /\ failed = 0 /\ deferred = 0 /\ unrun = 0 /\ lapses = 0
    /\ faults = 0 /\ happened = {}

faultVars == <<faults, happened>>
Fault(kind) == /\ kind \in Faults /\ faults < MaxFaults
               /\ faults' = faults + 1 /\ happened' = happened \cup {kind}
Go(n, to) == at' = [at EXCEPT ![n] = to]
LaneUnchanged == UNCHANGED <<lane, letter>>
BrokerUnchanged == LaneUnchanged /\ UNCHANGED <<status, delivered, pod, watched>>
ClaimUnchanged == UNCHANGED <<claim, cached>>
FailuresUnchanged == UNCHANGED <<failed, deferred>>
HistoryUnchanged == FailuresUnchanged /\ UNCHANGED <<succeeded, unrun, lapses>>

-----------------------------------------------------------------------------
(* The broker and the subscriber                                            *)

\* Variant: the consumer is provisioned without its limit.
RedeliveredAlways == "ready"

\* The server delivers again as often as it was told to.
Redelivered == IF delivered < MaxDeliver THEN "ready" ELSE "exhausted"

\* The delivery waits for a worker under a watch; or nobody will see it, because
\* the queue overflows or the subscription stops, and AckWait runs.
Deliver(p) ==
    LET n == delivered + 1
    IN  /\ status = "ready" /\ delivered < MaxDeliver
        /\ status' = "out" /\ delivered' = n /\ pod' = [pod EXCEPT ![n] = p]
        /\ \/ Go(n, "lookup") /\ watched' = watched \cup {n}
              /\ UNCHANGED <<unrun, faults, happened>>
           \/ Go(n, "done") /\ Fault("unrun") /\ unrun' = unrun + 1 /\ UNCHANGED watched
        /\ LaneUnchanged /\ ClaimUnchanged /\ FailuresUnchanged
        /\ UNCHANGED <<succeeded, lapses>>

\* The subscription stops before a worker took the delivery.
Unwind(n) ==
    /\ at[n] = "lookup" /\ Go(n, "done") /\ watched' = watched \ {n}
    /\ Fault("unrun") /\ unrun' = unrun + 1
    /\ LaneUnchanged /\ ClaimUnchanged /\ FailuresUnchanged
    /\ UNCHANGED <<status, delivered, pod, succeeded, lapses>>

\* AckWait passes without progress reports: the latest delivery is not watched
\* any more.
AckWaitPasses ==
    /\ status = "out" /\ delivered \notin watched
    /\ status' = Redelivered
    /\ LaneUnchanged /\ ClaimUnchanged /\ HistoryUnchanged
    /\ UNCHANGED <<delivered, at, pod, watched, faults, happened>>

\* The stream drops the message for its age, wherever its deliveries are.
AgesOut ==
    /\ status \in {"ready", "out"} /\ Fault("aged") /\ status' = "exhausted"
    /\ LaneUnchanged /\ ClaimUnchanged /\ HistoryUnchanged
    /\ UNCHANGED <<delivered, at, pod, watched>>

\* The keep-alive wheel reports progress for handlerDeadline only; afterwards
\* the watch is finished and the handler's answer is not sent.
GiveUp(n) ==
    /\ n \in watched /\ at[n] \notin Resolved /\ Fault("giveUp")
    /\ watched' = watched \ {n}
    /\ LaneUnchanged /\ ClaimUnchanged /\ HistoryUnchanged
    /\ UNCHANGED <<status, delivered, at, pod>>

\* What an ordinary failure may use: a lane with deferral keeps one delivery more.
Limit == IF lane = "data" THEN MaxDeliver - 1 ELSE MaxDeliver

\* Variant: the last refusal is not recognised.
SpentLate(n, word) == n > IF word = "defer" THEN MaxDeliver ELSE Limit

\* nakDelay says terminateDelivery.
Spent(n, word) == n >= IF word = "defer" THEN MaxDeliver ELSE Limit

\* resolve: an unwatched delivery says nothing, and the broker listens only to
\* answers about a message it still has out.  A late refusal of an earlier
\* delivery leads to none beyond the last.
Answer(n, word) ==
    /\ at[n] = word /\ (n \in watched /\ word \in Refusals => ~Spent(n, word))
    /\ Go(n, "done") /\ watched' = watched \ {n}
    /\ status' = IF n \notin watched \/ status # "out" THEN status
                 ELSE IF word = "ack" THEN "acked"
                 ELSE IF word = "term" THEN "terminated" ELSE Redelivered
    /\ LaneUnchanged /\ ClaimUnchanged /\ HistoryUnchanged
    /\ UNCHANGED <<delivered, pod, faults, happened>>

\* terminate: the dead letter is published first, and TERM follows even when the
\* publication failed and the message is lost.
Park(n) ==
    /\ n \in watched /\ at[n] \in Refusals /\ Spent(n, at[n]) /\ Go(n, "term")
    /\ \/ letter' = (letter \/ lane = "data") /\ UNCHANGED faultVars
       \/ lane = "data" /\ Fault("letter") /\ UNCHANGED letter
    /\ ClaimUnchanged /\ HistoryUnchanged
    /\ UNCHANGED <<lane, status, delivered, pod, watched>>

\* The acknowledgement does not reach the broker.  A work queue misses the
\* confirmation and refuses the delivery at once.
AckLost(n) ==
    /\ at[n] = "ack" /\ n \in watched /\ Fault("ack")
    /\ \/ lane = "work" /\ Go(n, "unsure") /\ UNCHANGED watched
       \/ lane # "work" /\ Go(n, "done") /\ watched' = watched \ {n}
    /\ LaneUnchanged /\ ClaimUnchanged /\ HistoryUnchanged
    /\ UNCHANGED <<status, delivered, pod>>

-----------------------------------------------------------------------------
(* Seen: the pod's memory, then the primary.                                *)

\* Variant: the claim is given back on every path.
DuplicateReleases == "release"

Duplicate == "ack"

Lookup(n) ==
    /\ at[n] = "lookup"
    /\ Go(n, IF pod[n] \in cached THEN Duplicate ELSE "store")
    /\ BrokerUnchanged /\ ClaimUnchanged /\ HistoryUnchanged /\ UNCHANGED faultVars

\* A claim that is there makes the delivery a duplicate, acked unhandled; both
\* answers are remembered.
ClaimOnce(n) ==
    /\ at[n] = "store"
    /\ Go(n, IF claim THEN Duplicate ELSE "handle")
    /\ claim' = TRUE /\ cached' = cached \cup {pod[n]}
    /\ BrokerUnchanged /\ HistoryUnchanged /\ UNCHANGED faultVars

\* Variant: the miss is remembered.
FailOpenCached(n) == cached' = cached \cup {pod[n]}

\* A fail-open miss is never cached.
FailOpen(n) == UNCHANGED cached

\* Valkey errors before or after it set the key: the handler runs unclaimed.
StoreFails(n) ==
    /\ at[n] = "store" /\ Go(n, "open") /\ FailOpen(n)
    /\ \/ Fault("seen") /\ UNCHANGED claim
       \/ Fault("reply") /\ claim' = TRUE
    /\ lapses' = lapses + 1
    /\ BrokerUnchanged /\ FailuresUnchanged /\ UNCHANGED <<succeeded, unrun>>

-----------------------------------------------------------------------------
(* runClaimed and Release                                                   *)

Succeed(n) ==
    /\ n \in Running /\ Go(n, "ack") /\ succeeded' = succeeded + 1
    /\ BrokerUnchanged /\ ClaimUnchanged /\ FailuresUnchanged
    /\ UNCHANGED <<unrun, lapses, faults, happened>>

\* An error, with or without RetryAfter, or a panic; only a claimed run gives its
\* claim back.
Fail(n) ==
    /\ n \in Running /\ failed + deferred < MaxFailures
    /\ \/ failed' = failed + 1 /\ UNCHANGED deferred
          /\ Go(n, IF at[n] = "handle" THEN "release" ELSE "nack")
       \/ deferred' = deferred + 1 /\ UNCHANGED failed
          /\ Go(n, IF at[n] = "handle" THEN "later" ELSE "defer")
    /\ BrokerUnchanged /\ ClaimUnchanged
    /\ UNCHANGED <<succeeded, unrun, lapses, faults, happened>>

\* Variant: the pod's memory keeps the claim.
ForgottenNowhere(n) == cached

Forgotten(n) == cached \ {pod[n]}

Release(n) ==
    /\ at[n] \in Releasing /\ Go(n, IF at[n] = "release" THEN "nack" ELSE "defer")
    /\ cached' = Forgotten(n)
    /\ \/ claim' = FALSE /\ UNCHANGED faultVars
       \/ Fault("release") /\ UNCHANGED claim   \* the error is ignored
    /\ BrokerUnchanged /\ HistoryUnchanged

-----------------------------------------------------------------------------
(* Expiry, eviction, crashes                                                *)

ClaimExpires ==
    /\ claim /\ Fault("expiry")
    /\ claim' = FALSE /\ lapses' = lapses + 1
    /\ BrokerUnchanged /\ FailuresUnchanged /\ UNCHANGED <<at, cached, succeeded, unrun>>

\* Evicted from the pod's LRU, or expired there.
EvictLocal(p) ==
    /\ p \in cached /\ cached' = cached \ {p}
    /\ BrokerUnchanged /\ HistoryUnchanged /\ UNCHANGED <<at, claim, faults, happened>>

Crash(p) ==
    LET dead == {n \in Deliveries : pod[n] = p /\ at[n] \notin {"none", "done"}}
    IN  /\ dead # {} /\ Fault("crash")
        /\ at' = [n \in Deliveries |-> IF n \in dead THEN "done" ELSE at[n]]
        /\ watched' = watched \ dead /\ cached' = cached \ {p}
        /\ lapses' = lapses + 1
        /\ LaneUnchanged /\ FailuresUnchanged
        /\ UNCHANGED <<status, delivered, pod, claim, succeeded, unrun>>

-----------------------------------------------------------------------------
Handle(n) ==
    \/ Lookup(n) \/ ClaimOnce(n) \/ Succeed(n) \/ Release(n) \/ Park(n)
    \/ \E word \in {"ack", "term"} \cup Refusals : Answer(n, word)

Broker == AckWaitPasses \/ \E p \in Pods : Deliver(p)

Next ==
    \/ Broker \/ AgesOut \/ ClaimExpires
    \/ \E p \in Pods : EvictLocal(p) \/ Crash(p)
    \/ \E n \in Deliveries :
          Handle(n) \/ Fail(n) \/ StoreFails(n) \/ Unwind(n) \/ GiveUp(n) \/ AckLost(n)

Spec == Init /\ [][Next]_vars

\* The broker delivers and pods work; errors come in bounded number.
FairSpec == Spec /\ WF_vars(Broker) /\ \A n \in Deliveries : WF_vars(Handle(n))

-----------------------------------------------------------------------------
(* Properties                                                               *)

\* What may leave the claim of a run that never succeeds: its watch gave up, its
\* pod died, its release failed, or Valkey took the claim and did not say so.
Lossy == happened \cap {"giveUp", "crash", "release", "reply"} # {}

\* An acknowledged message whose runs are over was handled by one of them: apart
\* from Lossy faults, a duplicate is dropped only in favour of a run that counts.
AckedWasHandled == status = "acked" /\ Running = {} /\ ~Lossy => succeeded > 0

\* Every run that did not fail, beyond the first, is the price of a fail-open, a
\* crash or an expired claim: redeliveries, lost acknowledgements and
\* deliveries to several pods alone never run the handler twice.
RunsAccounted == succeeded + Cardinality(Running) <= 1 + lapses

\* Failed runs and deliveries nobody ran used up what the lane allows; only when
\* every failed run asked for deferral does the delivery kept for it count.
UsedUp == failed + deferred + unrun >= IF failed > 0 THEN Limit ELSE MaxDeliver

\* A run handles the message before its deliveries are used up, apart from Lossy
\* faults and the age limit of the stream.
EventuallyHandled == <>(succeeded > 0 \/ Lossy \/ UsedUp \/ "aged" \in happened)

\* Every delivery was run and answered, and the dead letter could be published.
Answered == ~Lossy /\ happened \cap {"unrun", "aged", "letter"} = {}

\* A message is not delivered for ever; on a data lane one that no run handled
\* ends as a dead letter when each of its deliveries was Answered.
EventuallySettled ==
    <>(status \in Settled /\ (lane = "data" /\ succeeded = 0 /\ Answered => letter))
=============================================================================
