SPECIFICATION BmeSpec
CONSTANT RetryMax = 5
VIEW BmeView
INVARIANT CompensationHasCalibration
