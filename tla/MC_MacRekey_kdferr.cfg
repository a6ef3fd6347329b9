\* A digest error inside set_mac_key is not reported by set_read_key; an
\* attacker alters packets in flight.
CONSTANTS
  Role = "client"
  Algos <- MCAlgos
  MaxRounds = 2
  MaxChan = 2
  KexDigest = "sha256"
  InteropMacLen = TRUE
  DigestCanFail = TRUE
  Attacker = TRUE
  SeqWrap = 3
SPECIFICATION Spec
INVARIANT NoForgeryAccepted
CHECK_DEADLOCK FALSE
