\* Three requests on two keys, a cache of one entry and one byte, a ring of two frames, two connections.
SPECIFICATION EdgeSpec
SYMMETRY Symmetry
CONSTANTS
  Requests = {q1, q2, q3}
  Publishers = {q1, q2, q3}
  Keys = {k1, k2}
  Sizes = {1, 2}
  MaxEntries = 1
  MaxBytes = 1
  NoKey = NoKey
  RingSize = 2
  SubBuf = 1
  MaxConns = 2
  NoPub = NoPub
  MaxRestarts = 1
CHECK_DEADLOCK FALSE
INVARIANTS
  LossIsExcused
  CacheAddsUp
PROPERTIES
  RunsOnce
