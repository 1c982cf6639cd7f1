SPECIFICATION Spec
CONSTANTS
  Asr = {a1}
  Rpc = {r1, r2, r3}
  SlowReaders = {}
  Nobody = Nobody
  MaxConnections = 3
  MaxCalls = 1
SYMMETRY Symmetry
INVARIANTS
  LedgersAgree
  OneCallEach
