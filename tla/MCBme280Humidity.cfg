SPECIFICATION DriverSpec
CONSTANTS
  Links = 2
  BufferSize = 33
  Bytes <- MCBytes
INVARIANT HumidityCalibrationKept
