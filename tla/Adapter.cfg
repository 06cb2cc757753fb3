SPECIFICATION Spec
CONSTANTS
  None = None
  Width = 2
  MaxDepth = 1
  MaxMembers = 2
  MaxChanges = 2
INVARIANTS TypeOK ContractDecides SaysWhatWasAsked
