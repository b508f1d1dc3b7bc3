SPECIFICATION Spec
CONSTANTS
  Names = {op, l, r}
  Texts <- TestTexts
  Row <- TestRow
  Ops <- OpType
  Null = Null
  MaxWide = 3
  MaxNodes = 3
  DeepOps <- FewOps
INVARIANT EqualsItsMeaning
SYMMETRY NameSymmetry
CHECK_DEADLOCK FALSE
