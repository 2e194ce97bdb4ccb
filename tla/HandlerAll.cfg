\* The production times, in ticks of 100 ms.
CONSTANTS
  TotalBudget = 240
  SlotWait = 80
  CheckTimeout = 30
  HomepageTimeout = 100
  RetryWindow = 30
  CheckPause = 4
  RetryPause = 3
  OriginReserve = 40
  JSTimeout = 60
  ProbeTimeout = 100
  Durations = {1, 29, 99}
SPECIFICATION Spec
INVARIANTS
  WithinBudget
  FirstFailureReported
