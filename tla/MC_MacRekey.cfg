\* Correct peer, no digest failures: four key exchanges
\* (the third and the fourth reuse the slots of the first two), up to three
\* packets in flight.
CONSTANTS
  Role = "client"
  Algos <- MCAlgos
  MaxRounds = 4
  MaxChan = 3
  KexDigest = "sha256"
  InteropMacLen = TRUE
  DigestCanFail = FALSE
  Attacker = FALSE
  SeqWrap = 4
SPECIFICATION Spec
INVARIANT TypeOK
INVARIANT NoSpuriousMismatch
PROPERTY GenerationsRefined
