SPECIFICATION Spec
CONSTANTS
  NFd = 5
  NFiles = 3
  Byte = 16
  UserArgs <- SomeArgs
  NewArgs <- SomeNews
  FileKinds = {"REG"}
  DriverByte = 9
  DriverIsFs = TRUE
CONSTRAINT UntilDrift
INVARIANTS
  RefCountExact
  LiveIffHeld
PROPERTIES
  OpenFileStable
  DriftBreaks
  ImplementsOpenFiles
