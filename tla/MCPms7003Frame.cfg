SPECIFICATION FairFrameSpec
CONSTANTS
  Base = 3
  FrameSize = 6
  Start1 = 1
  Start2 = 2
  Contents <- MCContents
  RxBytes = 7
  Faults = 1
INVARIANTS
  AcceptedIsAFrame
  UndisturbedIsExact
PROPERTIES
  UndisturbedIsFound
  ImplementsReader
