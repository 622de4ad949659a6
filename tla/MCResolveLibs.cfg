CONSTANTS
  n1 = n1
  n2 = n2
  n3 = n3
  l1 = l1
  l2 = l2
  l3 = l3
  Names = {n1, n2}
  Nil = Nil
  Clip <- SameLength
  Libs = {l1, l2}
  Directives = {"library"}
  Records = {"ext", "pub", "lazy", "weak", "lib"}
  Aliases <- NoAliases
  MaxDirectives = 1
  MaxObjs = 2
  MaxRecords = 4
SPECIFICATION PartSpec
SYMMETRY Symmetric
INVARIANTS BothTypeOK NothingMissedPlain StrongStaysStrong DirectivesFirst DictionaryFinds ComdatsRight
PROPERTIES PullsWanted DefinitionsStay
