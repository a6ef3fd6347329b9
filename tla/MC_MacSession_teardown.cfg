\* Whether proxy_ssh_mac_free leaves key material behind.
CONSTANTS
  Role = "client"
  Algos <- MCSessionAlgos
  MaxRounds = 1
  MaxChan = 1
  KexDigest = "sha256"
  InteropMacLen = TRUE
  DigestCanFail = FALSE
  SeqWrap = 2
SPECIFICATION Spec
INVARIANT KeysScrubbedAtTeardown
CHECK_DEADLOCK FALSE
