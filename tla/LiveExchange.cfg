SPECIFICATION Spec
CONSTANTS
  None = None
  Scripts <- MCScripts
  Quirks <- MCQuirks
  Course <- MCCourse
  Lineage <- MCLineage
  MaxFaults = 1
  MaxAttempts = 2
INVARIANTS TypeOK NoFalseAlarm CleansUp MisreadsFail EarnedReport DeparturesNoticed
CHECK_DEADLOCK FALSE
