SPECIFICATION Spec
CONSTANTS
  Tasks = {t1}
  Keeper = keeper
  Implementors <- MCFallible
  Setups <- OneSetup
  MaxTries = 2
  Probes = {}
  MaxRestarts = 0
PROPERTIES Renewed
CHECK_DEADLOCK FALSE
