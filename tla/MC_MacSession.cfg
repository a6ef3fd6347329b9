\* Both directions against a correct peer, no digest failures: three key
\* exchanges, up to two packets in flight each way.  The session ends with
\* proxy_ssh_mac_free, after which nothing runs.
CONSTANTS
  Role = "client"
  Algos <- MCSessionAlgos
  MaxRounds = 3
  MaxChan = 2
  KexDigest = "sha256"
  InteropMacLen = TRUE
  DigestCanFail = FALSE
  SeqWrap = 2
SPECIFICATION Spec
INVARIANT TypeOK
INVARIANT NoSpuriousFailure
PROPERTY WriteGenerationsRefined
CHECK_DEADLOCK FALSE
