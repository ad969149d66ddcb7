SPECIFICATION FairSpec
CONSTANTS
  Pods = {p1, p2}
  NoPod = none
  MaxDeliver = 3
  Lanes = {"data", "work", "plain"}
  Faults = {"seen", "reply", "release", "ack", "giveUp", "crash", "expiry", "unrun", "aged", "letter"}
  MaxFaults = 2
  MaxFailures = 3
CHECK_DEADLOCK FALSE
INVARIANTS TypeOK RunsAccounted AckedWasHandled
PROPERTIES EventuallyHandled EventuallySettled
