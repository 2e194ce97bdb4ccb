\* Three requests for one slot, with a two-tick queue timer.
CONSTANTS
  Requests = {r1, r2, r3}
  MaxInflight = 1
  SlotWait = 2
SPECIFICATION Spec
INVARIANTS
  SlotsMatchScans
  LineOnlyWhenFull
PROPERTIES
  ImplementsPool
  EveryoneAnswered
