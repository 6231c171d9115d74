SPECIFICATION Spec
CONSTANTS
  Units = {0, 1, 2}
  Names <- MCNames
  Registries <- CyclicRegistries
INVARIANT RequirementCyclesRejected
CHECK_DEADLOCK FALSE
