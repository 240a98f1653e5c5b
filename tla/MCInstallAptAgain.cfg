SPECIFICATION Spec
CONSTANTS
  Disks <- Installed
  ImageSizes = {2, 3}
  NameLengths = {7, 15}
  StartSector = 2
  BufferSize = 2
  AvailEnd = 9
  CountLimit = 12
  MayLosePower = FALSE
INVARIANTS
  InvisibleUnlessSuccessful
CHECK_DEADLOCK FALSE
