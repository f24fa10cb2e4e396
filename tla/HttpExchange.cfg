SPECIFICATION FairSpec
CONSTANTS
  Capacity = 2
  MaxMessages = 2
  MaxSteps = 4
CHECK_DEADLOCK FALSE
INVARIANTS ConfirmationComes
PROPERTIES FailedIsAnswered ActorReclaimed
