SPECIFICATION PmsSpec
CONSTANTS
  RetryMax = 5
  ReadRequests = 5
  RxFrames = 2
  OwedMax = 2
VIEW PmsView
INVARIANTS
  PmsTypeOK
  OnlySettledFrames
  NoColdReading
  RoundStartsAfresh
PROPERTY SuccessfulRoundIsSound
