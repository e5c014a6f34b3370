SPECIFICATION Spec
CONSTANTS
  Handlers = {h1, h2}
  Names <- MCNames
  NameOf <- MCNameOf
  Triggers = {ctrlc, sigterm}
  FORCED = 100
  MaxSignals = 3
INVARIANTS PendingExact
PROPERTIES LastIsLast ErrorsReported GracefulCompletes
CHECK_DEADLOCK FALSE
