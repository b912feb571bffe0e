SPECIFICATION FairSpec
CONSTANTS
  MaxConns = 3
  MaxFd = 2
  NoDataLimit = 1
  MaxInput = 2
INVARIANTS
  ServesNewest
  LeaksAreErrors
  OverlapAtMostOne
  SpinSeesError
  OneStrayAtMost
PROPERTIES
  SessionEnds
  WriterLeavesSpin
