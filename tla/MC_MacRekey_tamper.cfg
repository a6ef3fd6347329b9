\* An attacker alters, drops, duplicates and reorders packets; the digest library
\* never fails; we are the server: three key exchanges, up to two packets in flight.
CONSTANTS
  Role = "server"
  Algos <- MCAlgos
  MaxRounds = 3
  MaxChan = 2
  KexDigest = "sha256"
  InteropMacLen = TRUE
  DigestCanFail = FALSE
  Attacker = TRUE
  SeqWrap = 3
SPECIFICATION Spec
INVARIANT TypeOK
INVARIANT NoForgeryAccepted
PROPERTY GenerationsRefined
CHECK_DEADLOCK FALSE
