SPECIFICATION DriverSpec
CONSTANTS
  Links = 2
  BufferSize = 33
  Bytes <- MCBytes
INVARIANTS
  DriverTypeOK
  LinksAccountedFor
  CalibrationKept
PROPERTIES
  ReceivedAsAsked
  ImplementsOperations
