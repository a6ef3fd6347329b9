\* A digest error inside set_mac_key while a UMAC is being keyed, on either
\* OpenSSL family, with no attacker.
CONSTANTS
  Role = "client"
  Algos <- MCAlgos
  MaxRounds = 2
  MaxChan = 1
  KexDigest = "sha256"
  InteropMacLen = TRUE
  DigestCanFail = TRUE
  Attacker = FALSE
  SeqWrap = 2
SPECIFICATION Spec
INVARIANT NoCrash
CHECK_DEADLOCK FALSE
