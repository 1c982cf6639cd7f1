SPECIFICATION Spec
CONSTANTS
  Asr = {a1}
  Rpc = {r1}
  SlowReaders = {}
  Nobody = Nobody
  MaxConnections = 2
  MaxCalls = 1
INVARIANTS
  NetworkWritesHoldNoGate
