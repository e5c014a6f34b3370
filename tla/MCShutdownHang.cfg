SPECIFICATION Spec
CONSTANTS
  Handlers = {h1}
  Names <- MCNames
  NameOf <- MCNameOf
  Triggers = {ctrlc}
  FORCED = 100
  MaxSignals = 1
PROPERTIES WaitCompletes
CHECK_DEADLOCK FALSE
