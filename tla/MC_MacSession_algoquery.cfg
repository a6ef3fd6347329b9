\* Whether proxy_ssh_mac_get_read_algo answers whenever the session is up.
CONSTANTS
  Role = "client"
  Algos <- MCSessionAlgos
  MaxRounds = 1
  MaxChan = 1
  KexDigest = "sha256"
  InteropMacLen = TRUE
  DigestCanFail = FALSE
  SeqWrap = 2
SPECIFICATION Spec
INVARIANT AlgoQueryDefined
CHECK_DEADLOCK FALSE
