CONSTANTS
  n1 = n1
  n2 = n2
  n3 = n3
  Names = {n1, n2}
  Nil = Nil
  Clip <- SameLength
  Libs = {l1}
  Directives = {"alias"}
  Records = {"ext"}
  Aliases <- Circle
  MaxDirectives = 2
  MaxObjs = 1
  MaxRecords = 1
SPECIFICATION Spec
INVARIANTS LookupsEnd
