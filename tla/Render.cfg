CONSTANTS
  Registries <- AllRegistries
  None = None
SPECIFICATION Spec
INVARIANTS DocumentIsExact Deterministic ConflictsCounted NoConflictNoOverlap
