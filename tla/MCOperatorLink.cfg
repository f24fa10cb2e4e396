SPECIFICATION FairSpec
CONSTANTS
  m1 = m1
  q1 = q1
  q2 = q2
  Modules = {m1}
  Questions = {q1}
  Capacity = 1
  MaxCommands = 1
  MaxEvents = 1
  MaxFailures = 1
CHECK_DEADLOCK FALSE
INVARIANTS OneConnection AnswerFindsListener
PROPERTIES LinkRecovers OperatorKnows
