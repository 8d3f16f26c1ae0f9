SPECIFICATION BmeSpec
CONSTANT RetryMax = 5
VIEW BmeView
INVARIANTS
  BmeTypeOK
  PressureFollowsTemperature
  CalibratedMeansSetUp
  HumidityLags
PROPERTY RoundHandsOverTogether
