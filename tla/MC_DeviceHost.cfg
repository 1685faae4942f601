SPECIFICATION FairSpec
INVARIANT TypeOK
PROPERTIES
  WhoIsComplete
  RightDeviceAnswers
  ReadersReturn
CONSTANTS
  Setups <- AllSetups
  Datagrams <- AnyDatagram
  MinPort = 10000
  BacnetPort = 47808
  BufferSize = 1024
CHECK_DEADLOCK FALSE
