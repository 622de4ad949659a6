CONSTANTS
  BlockSize = 4
  FillChar = fill
  Zero = zero
  Files = {"exe", "ovl"}
  Layouts <- SharedBSS
  Para = 2
  HdrSize = 3
  EasSize = 3
SPECIFICATION Spec
INVARIANT GroupsInPlace
