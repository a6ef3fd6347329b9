\* A correct peer, no digest failures, two key exchanges: the first may
\* install umac-64, the second retires it.
CONSTANTS
  Role = "client"
  Algos <- MCAlgos
  MaxRounds = 2
  MaxChan = 2
  KexDigest = "sha256"
  InteropMacLen = TRUE
  DigestCanFail = FALSE
  Attacker = FALSE
  SeqWrap = 3
SPECIFICATION Spec
INVARIANT RetiredKeysScrubbed
CHECK_DEADLOCK FALSE
