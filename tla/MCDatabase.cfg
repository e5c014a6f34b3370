SPECIFICATION Spec
CONSTANTS
  Tasks = {t1, t2}
  Keeper = keeper
  Implementors <- MCImplementors
  Setups <- AgreeingSetups
  MaxTries = 2
  Probes = {probe}
  MaxRestarts = 1
INVARIANTS RightCredential SecretErased WaitersAreFlagged
PROPERTIES FirstDecides WatchedOrFlagged
CHECK_DEADLOCK FALSE
