SPECIFICATION Spec
CONSTANTS
  NFd = 5
  NFiles = 4
  Byte = 16
  UserArgs <- OwnHalf
  NewArgs <- OnlyFree
  FileKinds = {"REG", "DIR"}
  DriverByte = 9
  DriverIsFs = FALSE
CONSTRAINT UntilDrift

  
PROPERTIES
  KernelHalfStays
