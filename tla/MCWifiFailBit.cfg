SPECIFICATION Spec
CONSTANT WIFI_CONTROLLER_RETRY_MAX = 5
INVARIANT FailureIsReported
