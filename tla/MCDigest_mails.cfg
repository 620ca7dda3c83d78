SPECIFICATION Spec
CONSTANTS
  Messages <- AllMails
  MaxDepth = 3
  longRun = 3
  minLineLength = 2
  atomicNumLines = 4
  Bad = Bad
INVARIANTS
  TypeOK
  NormalizesByToken
  LineEndingsIrrelevant
  TagsPartWords
  PieceChoice
  LeavesInOrder
CHECK_DEADLOCK FALSE
