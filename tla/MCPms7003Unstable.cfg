SPECIFICATION PmsSpec
CONSTANTS
  RetryMax = 5
  ReadRequests = 5
  RxFrames = 1
  OwedMax = 1
VIEW PmsView
INVARIANT OnlyStableDataHandedOver
