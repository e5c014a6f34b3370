SPECIFICATION Spec
CONSTANTS
  Sessions = {s1}
  Lifetimes <- MCLifetimes
  MaxLifetime = 5
  Leeway = 1
  MaxNow = 8
  MaxSetBack = 2
  NoLimit = NoLimit
  Never = Never
INVARIANTS TypeOK SessionBounded
PROPERTIES NewTokenWorks DeadStaysDead
CHECK_DEADLOCK FALSE
