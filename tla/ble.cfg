SPECIFICATION FairSpec
CONSTANTS
  Conn = {c1}
  FullLevel = 4
  AdvMayFail = TRUE
INVARIANTS
  TypeOK
  NeverStranded
PROPERTIES
  FoundAgain
