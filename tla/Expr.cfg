SPECIFICATION Spec
CONSTANTS
  Names = {op, l, r}
  Texts <- TestTexts
  Row <- TestRow
  Ops <- OpType
  Null = Null
  MaxWide = 3
  MaxNodes = 4
  DeepOps <- FewOps
INVARIANTS TypeOK ResultIsMeaning ExitHasCause CrashHasCause ConstantsOwned TestSeesTrue
PROPERTIES FreesWholeTree
SYMMETRY NameSymmetry
CHECK_DEADLOCK FALSE
