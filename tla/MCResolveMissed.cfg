CONSTANTS
  n1 = n1
  n2 = n2
  n3 = n3
  Names = {n1, n2}
  Nil = Nil
  Clip <- SameLength
  Libs = {l1}
  Directives = {"library"}
  Records = {"ext", "pub", "lazy", "vf"}
  Aliases <- NoAliases
  MaxDirectives = 1
  MaxObjs = 1
  MaxRecords = 4
SPECIFICATION Spec
INVARIANTS NothingMissed
