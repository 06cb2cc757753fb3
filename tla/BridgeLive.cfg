SPECIFICATION FairSpec
CONSTANTS
  g1 = g1
  g2 = g2
  early = early
  late = late
  None = None
  Gates = {g1}
  Clocks = {early}
  MaxSteps = 3
  RequestWait = 1
  OutcomeWait = 2
PROPERTIES
  CommandIsAnswered
  FailureEndsTheRun
