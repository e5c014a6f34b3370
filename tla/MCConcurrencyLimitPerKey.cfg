SPECIFICATION SpecMap
CONSTANTS
  a = a
  b = b
  r1 = r1
  r2 = r2
  r3 = r3
  r4 = r4
  Keys = {a, b}
  ShardOf <- MCShardOf
  KeyOf <- MCKeyOf
  Nobody = Nobody
  Requests = {r1, r2, r3, r4}
  SoftLimit = 1
  HardLimit = 3
PROPERTIES PerKeyLimit
