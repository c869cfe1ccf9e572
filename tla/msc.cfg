SPECIFICATION FairSpec
CONSTANTS
  MountMayFail = TRUE
  UnmountMayFail = TRUE
  EnableMayFail = TRUE
  DisableMayFail = TRUE
INVARIANTS
  OneMaster
  FormatOnlyAtBoot
PROPERTIES
  OnlyHostWrites
  DriveComesBack
