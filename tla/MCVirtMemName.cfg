SPECIFICATION Spec
CONSTANTS
    MaxSeg = 2
    MaxHuge = 0
    NodeSize = 2
    SubSize = 2
    NumSub = 2
    TinyCutoff = 1
    SectorSize = 2
    DiskSize = 6
    LinkSpace = 6
    MaxFiles = 2
    MaxLen = 2
    Ops = {"load", "save", "null", "cmp", "copy"}
    Sizes <- PageSizes
    Data = {d1}
    Zero = zero
    Junk = junk
    NameMayFail = TRUE
PROPERTIES ImplementsStore
