SPECIFICATION Spec
CONSTANTS
  MayFail = TRUE
  KeyKinds = {"HMAC", "ECDSA_KEYPAIR", "ECDSA_PRI_KEY", "ECDSA_PUB_KEY"}
  KeyValues = {"K1"}
  KeyIndices = {0, 8}
  HmacSizes = {60, 256}
  Rooms = {0, 48}
  CertValues = {"V1"}
  CertIndices = {0, 96}
  CertArrays = {0, 20}
  CertCuts = {8192}
  FileValues = {"V1", "V2"}
  FileIndices = {96}
  FileArrays = {20}
  FileCuts = {0, 5300, 5340, 8192, 8193}
  MAX_IO = 3
  MaxSize = 5
  MaxCalls = 2
  Base = 3
  Counters = {0, 2, 8}
  HASH_IO = 3
  HashSize = 10
  HashCalls = 3
  HashKeys = {0, 1, 8}
INVARIANTS
  SizesRight
  KnownIsStored
  PrefixExact
  ResultOfMessage
  LateOnlyShort
CHECK_DEADLOCK FALSE
