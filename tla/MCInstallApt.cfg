SPECIFICATION Spec
CONSTANTS
  Disks <- All
  ImageSizes = {0, 2, 3, 4, 9, 14}
  NameLengths = {7, 15, 16}
  StartSector = 2
  BufferSize = 2
  AvailEnd = 9
  CountLimit = 12
  MayLosePower = TRUE
INVARIANTS
  PartitionsUntouched
  LabelMeansComplete
CHECK_DEADLOCK FALSE
