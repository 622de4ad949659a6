CONSTANTS
  BlockSize = 4
  FillChar = fill
  Zero = zero
  Unset = unset
  Data = {a}
  MaxLen = 2
  PageSize = 3
  RlidxMax = 2
  GroupPages <- Pages
  NumSects = 2
  MaxRecord = 6
  Formats = {"flat", "pe", "os2", "qnx", "elf", "dos"}
  FmtSizes <- RelocSizes
  MaxRelocs <- RelocBound
SPECIFICATION OutSpec
INVARIANTS BothTypeOK GroupsInPlace RelocsInPlace PaddingClean FreedOnce PressureReachesAll
PROPERTIES ImplementsFile ImplementsRelocs
