------------------------ MODULE MCGiveawayFulfillment ------------------------
(* Small instances of GiveawayFulfillment for TLC. *)
EXTENDS GiveawayFulfillment, TLC

CONSTANTS a1, a2, u1, r1

MCAwards1 == {a1}
MCAwards2 == {a1, a2}
MCSameUser == [a \in Awards |-> u1]
MCOneMonth == [a \in Awards |-> 1]
MCTwoMonths == [a \in Awards |-> 2]
MCTwoThenOne == [a \in Awards |-> IF a = a1 THEN 2 ELSE 1]
MCCreated == [a \in Awards |-> IF a = a1 THEN 1 ELSE 2]
MCNextPayment == [r \in Refs |-> 1]

Free == [ref |-> None, paid |-> 0, uncertain |-> FALSE, cancel |-> FALSE]
Subscriber == [ref |-> r1, paid |-> 1, uncertain |-> FALSE, cancel |-> FALSE]
Leaving == [Subscriber EXCEPT !.cancel = TRUE]
MCFree == {Free}
Prepaid == [Subscriber EXCEPT !.paid = 3]
MCSubscriber == {Subscriber}
MCPaid == {Subscriber, Prepaid}
MCAnyAccount == {Free, Subscriber, Leaving}

WorkerSymmetry == Permutations(Workers)
==============================================================================
