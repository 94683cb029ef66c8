SPECIFICATION ThrottleSpec
CONSTANTS
  Callers = {g1, g2, g3}
  Categories = {c1, c2}
  Interval = 2
  Never = Never
  NoCategory = NoCategory
  MaxCalls = 4
  MaxClock = 3
SYMMETRY Interchangeable
INVARIANT ThrottleTypeOK
INVARIANT EveryCallAccounted
INVARIANT OncePerInterval
