SPECIFICATION UnlinkSpec
CONSTANTS
  NFd = 5
  NFiles = 4
  Byte = 16
  UserArgs <- JustStdin
  NewArgs <- JustStdout
  FileKinds = {"REG"}
  DriverByte = 9
  DriverIsFs = FALSE
INVARIANTS
  RefCountIsFdCount
CHECK_DEADLOCK FALSE
