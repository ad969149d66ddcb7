---------------------------- MODULE PrizePromise ----------------------------
(***************************************************************************)
(* What a premium giveaway promises its winners, award by award: dates are  *)
(* fixed once and last the full prize; Users grants exactly those dates,    *)
(* never two prizes of a winner at a time, never an unprotected             *)
(* subscription, never less than the whole prize; and nothing is shown as   *)
(* delivered that was not granted.  How many replicas, retries and late     *)
(* messages take part does not matter.                                      *)
(***************************************************************************)
EXTENDS Integers

CONSTANTS Awards, UserOf, Months, None

VARIABLES today,
          prize,    \* dates promised to the winner of an award, or None
          granted,  \* what Users knows of them
          covered,  \* awards whose subscription is paused to their end
          shown     \* dates the award is shown delivered with, or None

vars == <<today, prize, granted, covered, shown>>

Init == /\ today = 0
        /\ prize = [a \in Awards |-> None]
        /\ granted = [a \in Awards |-> "none"]
        /\ covered = {}
        /\ shown = [a \in Awards |-> None]

Dates == [start : Nat, end : Nat,
          rule : {"provider-monthly", "promotional-calendar-month"}]
Runs(a) == granted[a] \in {"prepared", "committed"}
Given(a) == granted[a] \in {"committed", "expired"}
Apart(i, j) == i.end <= j.start \/ j.end <= i.start
Becomes(a, from, to) == granted[a] = from /\ granted' = [granted EXCEPT ![a] = to]

\* Dates are chosen once; they last the whole prize.
Promise(a) ==
    /\ prize[a] = None /\ prize'[a] \in Dates
    /\ prize'[a].end = prize'[a].start + Months[a]
    /\ prize' = [prize EXCEPT ![a] = prize'[a]]
    /\ UNCHANGED <<today, granted, covered, shown>>

Prepare(a) ==
    /\ prize[a] # None /\ Becomes(a, "none", "prepared")
    /\ \A b \in Awards \ {a} : UserOf[b] = UserOf[a] /\ Runs(b) => Apart(prize[a], prize[b])
    /\ UNCHANGED <<today, prize, covered, shown>>

\* The provider's pause reaches the end of the prizes in S.
Cover(S) ==
    /\ \A a \in S : prize[a] # None
    /\ covered' = covered \cup S
    /\ UNCHANGED <<today, prize, granted, shown>>

Commit(a) ==
    /\ Becomes(a, "prepared", "committed")
    /\ prize[a].rule = "provider-monthly" => a \in covered
    /\ UNCHANGED <<today, prize, covered, shown>>

Expire(a) ==
    /\ Becomes(a, "committed", "expired") /\ prize[a].end <= today
    /\ UNCHANGED <<today, prize, covered, shown>>

Show(a) ==
    /\ Given(a)
    /\ shown' = [shown EXCEPT ![a] = [start |-> prize[a].start, end |-> prize[a].end]]
    /\ UNCHANGED <<today, prize, granted, covered>>

\* A late replica sends the award back to review.
Withdraw(a) ==
    /\ shown' = [shown EXCEPT ![a] = None]
    /\ UNCHANGED <<today, prize, granted, covered>>

Pass == today' = today + 1 /\ UNCHANGED <<prize, granted, covered, shown>>

Next == \/ \E a \in Awards : \/ Promise(a) \/ Prepare(a) \/ Commit(a) \/ Expire(a)
                             \/ Show(a) \/ Withdraw(a)
        \/ \E S \in SUBSET Awards : Cover(S)
        \/ Pass
Spec == Init /\ [][Next]_vars
==============================================================================
