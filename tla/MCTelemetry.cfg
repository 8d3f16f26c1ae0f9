SPECIFICATION FairSpec
CONSTANTS
  Cycles = 3
  Blank = Blank
INVARIANT ArrivedWhole
PROPERTIES
  ImplementsFeed
  TestTrafficEnds
  SubscriptionsSettle
