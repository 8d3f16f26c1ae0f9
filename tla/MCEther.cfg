SPECIFICATION FairSpec
CONSTANTS
  RetryMax = 2
  ReadRequests = 2
  RxFrames = 1
  OwedMax = 1
  Blank = Blank
CHECK_DEADLOCK FALSE
INVARIANTS
  OneToken
  NoLostGive
  HandlesCreated
PROPERTIES
  ImplementsCycle
  ImplementsPms
  ImplementsBme
  CycleStopsOnlyInRead
