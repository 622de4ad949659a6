CONSTANTS
  obj = obj
  omf = omf
  ar = ar
  Null = Null
  CachedFiles <- AllFiles
  Objects = {obj, omf}
  ObjLibFiles <- LibList
  IsLibrary = {omf, ar}
  ArLibs = {ar}
  Length <- Lengths
  DictStart <- Dicts
  DictSize <- DictSizes
  PageSize = 2
  Headroom = 3
  SectorSize = 3
  CacheOptions = {"CACHE", "NOCACHE", "default"}
  StripCode = TRUE
SPECIFICATION Spec
INVARIANTS TablesLive
