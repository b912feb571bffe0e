SPECIFICATION Spec
CONSTANTS
  MaxConns = 1
  MaxFd = 1
  NoDataLimit = 1
  MaxInput = 1
INVARIANTS
  NoErrorMeansHandshake
