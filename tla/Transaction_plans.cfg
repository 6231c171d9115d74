SPECIFICATION Spec
CONSTANTS
  Units = {0, 1, 2}
  Names <- MCNames
  Registries <- MCRegistries
INVARIANTS TypeOK ClosureIsReachability PlanRespectsOrdering CycleErrorIsReal PlanIsDeterministic
PROPERTY Terminates
CHECK_DEADLOCK FALSE
