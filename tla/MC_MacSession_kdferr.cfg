\* As MC_MacSession.cfg, but a digest call of set_mac_key may fail: does the
\* write direction still send only tags of the negotiated generation?
CONSTANTS
  Role = "client"
  Algos <- MCSessionAlgos
  MaxRounds = 2
  MaxChan = 2
  KexDigest = "sha256"
  InteropMacLen = TRUE
  DigestCanFail = TRUE
  SeqWrap = 2
SPECIFICATION Spec
PROPERTY WriteGenerationsRefined
CHECK_DEADLOCK FALSE
