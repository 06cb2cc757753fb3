SPECIFICATION Spec
CONSTANTS
  None = None
  Together <- MCTogether
  Repository <- MCRepository
INVARIANTS TypeOK PassIsNormative PassIsGuarded
