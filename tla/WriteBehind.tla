----------------------------- MODULE WriteBehind -----------------------------
(***************************************************************************)
(* What a write-behind buffer promises its callers: an accepted write per  *)
(* key is numbered, the store only ever moves forward through accepted     *)
(* writes, and whatever was accepted last is eventually stored or refused  *)
(* for good, unless the buffer is abandoned.                               *)
(***************************************************************************)
EXTENDS Naturals

CONSTANT Keys

VARIABLES newest,    \* number of the last write accepted per key, 0 for none
          stored,    \* number of the write the store holds per key
          dropped,   \* number of the last write refused per key
          abandoned  \* the owner gave up waiting while closing

vars == <<newest, stored, dropped, abandoned>>

Init == /\ newest = [k \in Keys |-> 0]
        /\ stored = newest
        /\ dropped = newest
        /\ abandoned = FALSE

Accept == /\ newest' \in [Keys -> Nat]
          /\ \E k \in Keys : /\ newest[k] < newest'[k]
                             /\ newest' = [newest EXCEPT ![k] = newest'[k]]
          /\ UNCHANGED <<stored, dropped, abandoned>>

Forward(old, new) ==
    /\ new \in [Keys -> Nat]
    /\ \A k \in Keys : /\ old[k] <= new[k]
                       /\ new[k] <= newest[k]
                       /\ new[k] # old[k] =>
                             /\ stored[k] <= new[k]
                             /\ dropped[k] <= new[k]

\* Any set of keys moves forward, in one window.
Settle == /\ Forward(stored, stored') /\ Forward(dropped, dropped')
          /\ UNCHANGED <<newest, abandoned>>

Abandon == abandoned' = TRUE /\ UNCHANGED <<newest, stored, dropped>>

Next == Accept \/ Settle \/ Abandon
Spec == Init /\ [][Next]_vars
==============================================================================
