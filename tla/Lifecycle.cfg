SPECIFICATION FairSpec
CONSTANTS
  Workers = {w1, w2}
  NoFact = NoFact
  MaxAttempts = 2
  RetractionLimit = 1
  TimeoutLength = 1
  MaxEvents = 2
  MaxCommands = 1
  MaxFaults = 1
INVARIANTS TypeOK NewestFactGoverns ServingIsEarned NeverForgotten
CHECK_DEADLOCK FALSE
PROPERTY EventuallyResumes
