CONSTANTS
  t1 = t1
  t2 = t2
  NoTimer = NoTimer
  Timers <- MCTimers
  MaxCalls = 10
  RestartsOnce = FALSE
SPECIFICATION FairSpec
INVARIANTS TypeOK RunningIffScheduled CalledOnlyIfOn
PROPERTIES PeriodicKeepsFiring
