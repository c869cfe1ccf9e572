SPECIFICATION Spec
CONSTANTS
  Size = 3
  Content <- MCContent
  Thread = {"t1", "t2"}
  BlockSize = 2
  InitTries = 2
  Word = 8
CHECK_DEADLOCK FALSE
INVARIANTS
  WriteIsComplete
