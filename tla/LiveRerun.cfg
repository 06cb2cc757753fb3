SPECIFICATION Spec
CONSTANTS
  None = None
  Scripts <- MCFirstCampaign
  Quirks <- MCNoQuirks
  Course <- MCCourse
  Lineage <- MCLineage
  MaxFaults = 0
  MaxAttempts = 2
INVARIANT RerunAgrees
CHECK_DEADLOCK FALSE
