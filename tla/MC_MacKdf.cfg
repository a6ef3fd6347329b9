\* One set_mac_key call for every algorithm, kex hash and interop setting,
\* with every digest call allowed to fail, under weak fairness (one call runs
\* to its return).  A single call ends, so the final states have no successor.
CONSTANTS
  Names <- MCNames
  KexDigests <- MCKexDigests
  MaxHashes = 7
SPECIFICATION FairSpec
INVARIANT TypeOK
INVARIANT NoOverrun
INVARIANT DerivesRfcKey
INVARIANT NoKeyResidue
INVARIANT KeyLenWithinBuffer
PROPERTY Termination
CHECK_DEADLOCK FALSE
