SPECIFICATION Spec
CONSTANTS
  Banks = 5
  Interval = 4
  BankSizes = {0, 1, 3, 4}
  ImageEnds = {1, 4, 5}
  Characters = {"K", "_", "nl", ":", "#"}
  Whitespace = {"_"}
  Newline = "nl"
  Colon = ":"
  Hash = "#"
  Options <- MCOptions
  Required <- MCRequired
  SizeMax = 31
  Files <- MCFiles
  PageSize = 4
  SectorSize = 2
  TableSize = 2
  WordSize = 32
  StdoutPath <- MCStdoutPath
  InitrdPath <- MCInitrdPath
  CommandLine <- MCCommandLine
  BootVolume <- MCBootVolume
  NoString = NoString
  Machines <- MCUnalignedMachines
INVARIANTS
  ImageAsPromised
