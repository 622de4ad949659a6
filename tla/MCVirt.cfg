SPECIFICATION MemSpec
CONSTANTS
    MaxSeg = 3
    MaxHuge = 0
    NodeSize = 2
    SubSize = 2
    NumSub = 2
    TinyCutoff = 1
    SectorSize = 2
    DiskSize = 6
    LinkSpace = 6
    MaxFiles = 1
    MaxLen = 2
    Ops = {"load", "save"}
    Sizes <- PageSizes
    Data = {d1}
    Zero = zero
    Junk = junk
    NameMayFail = FALSE
INVARIANTS TypeOK OneHome SwapListComplete StorageApart RequestFits CleanUp
PROPERTIES HugeRequestsServed ImplementsStore
