-------------------------- MODULE MCGuardedDelivery --------------------------
(* Small instances of GuardedDelivery for TLC. *)
EXTENDS GuardedDelivery

==============================================================================
