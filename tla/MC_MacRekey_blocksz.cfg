\* Whether the read block size only grows across rekeys.
CONSTANTS
  Role = "client"
  Algos <- MCAlgos
  MaxRounds = 2
  MaxChan = 1
  KexDigest = "sha256"
  InteropMacLen = TRUE
  DigestCanFail = FALSE
  Attacker = FALSE
  SeqWrap = 2
SPECIFICATION Spec
PROPERTY BlockSizeMonotonic
