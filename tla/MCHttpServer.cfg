SPECIFICATION SpecServer
CONSTANTS
  Http = http
  Handlers = {http}
  Names <- MCNames
  NameOf <- MCNameOf
  Triggers = {ctrlc, sigterm}
  FORCED = 100
  MaxSignals = 4
  MaxConns = 2
INVARIANTS TypeOKServer ServerStoppedFirst
PROPERTIES ForcedReturns SecondInterruptStops FirstInterruptStops
CHECK_DEADLOCK FALSE
