SPECIFICATION FairSpec
CONSTANTS
  Endpoint = {"srv", "cli"}
  File = {"shm", "pipe"}
  Mappable = {"shm"}
  Id <- MCId
  MaxMsg = 1
  MaxFds = 3
  Cap = 5
  Mtu = 1
  Page = 16
PROPERTY PacketsArrive
CHECK_DEADLOCK FALSE
