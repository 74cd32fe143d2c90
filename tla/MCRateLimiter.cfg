SPECIFICATION Spec
CONSTANTS
  Client = {a, b}
  Rate = 2
  Cost = 3
  Burst = 2
  Second = 2
  Sweep = 4
  MaxTime = 6
INVARIANTS WindowBound LimiterExact
PROPERTY RetryAfterHonoured
