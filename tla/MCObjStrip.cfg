CONSTANTS
  n1 = n1
  n2 = n2
  n3 = n3
  Names = {n1, n2}
  Segs = {s1, s2, s3}
  Nil = Nil
  Ways <- SteadyWays
SPECIFICATION SegSpec
SYMMETRY Symmetric
INVARIANTS TypeOK LiveCodeStays UnusedCodeGoes NoDanglingFixup LayoutRight FixupsFollow VectorsExact ReferencesRight
CHECK_DEADLOCK FALSE
