SPECIFICATION Spec
CONSTANTS
  g1 = g1
  g2 = g2
  early = early
  late = late
  None = None
  Gates = {g1}
  Clocks = {early, late}
  MaxSteps = 5
  RequestWait = 1
  OutcomeWait = 2
INVARIANTS
  TypeOK
  ResultIsCoherent
  FedAtMostOnce
  NoTaintedReply
  ServedUnderAckedClock
  ReplyMatchesCommand
PROPERTIES
  NoRequestAfterReply
