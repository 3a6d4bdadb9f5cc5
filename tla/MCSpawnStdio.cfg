SPECIFICATION Spec
CONSTANTS
  Count = 3
  LastFd = 4
CHECK_DEADLOCK FALSE
INVARIANTS
  FilesStayApart
