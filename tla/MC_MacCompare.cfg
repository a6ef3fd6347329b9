\* Two byte values and a 3-byte tag: forged tags that first differ at each
\* position, the least that tells an early exit from a full-length compare.
CONSTANTS
  Bytes = {0, 1}
  MacLen = 3
SPECIFICATION Spec
INVARIANT TimeIndependentOfTag
CHECK_DEADLOCK FALSE
