SPECIFICATION FairSpec
CONSTANTS
  RetryMax = 1
  ReadRequests = 1
  RxFrames = 1
  OwedMax = 1
  Blank = Blank
CHECK_DEADLOCK FALSE
PROPERTY ReadReturns
