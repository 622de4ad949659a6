CONSTANTS
  obj = obj
  omf = omf
  ar = ar
  Null = Null
  CachedFiles <- AllFiles
  Objects = {obj, omf}
  ObjLibFiles <- LibList
  IsLibrary = {omf, ar}
  ArLibs = {ar}
  Length <- Lengths
  DictStart <- Dicts
  DictSize <- DictSizes
  PageSize = 2
  Headroom = 3
  SectorSize = 3
  CacheOptions = {"CACHE", "NOCACHE", "default"}
  StripCode = FALSE
  n1 = n1
  n2 = n2
  n3 = n3
  n4 = n4
  l1 = l1
  Nil = Nil
SPECIFICATION Pass1Spec
INVARIANTS TypeOK KeptStays PositionKnown NothingLeft AliasMeansTarget TargetsPulled
PROPERTIES ReadsRight LinkEnds
