SPECIFICATION Spec
PROPERTY AllDevicesAnswer
CONSTANTS
  Setups <- OnePortSetups
  Datagrams <- Requests
  MinPort = 10000
  BacnetPort = 47808
  BufferSize = 1024
CHECK_DEADLOCK FALSE
