CONSTANTS
  t1 = t1
  t2 = t2
  NoTimer = NoTimer
  Timers <- MCTimers
  MaxCalls = 10
  RestartsOnce = TRUE
SPECIFICATION Spec
INVARIANTS CalledOnlyIfOn
