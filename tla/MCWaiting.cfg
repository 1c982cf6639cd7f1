SPECIFICATION WaitingSpec
CONSTANTS
  Thread = {t1, t2, t3, t4}
  Nobody = Nobody
  Asr = {a1, a2}
  Rpc = {r1}
  SlowReaders = {r1}
  MaxConnections = 2
  MaxCalls = 1
INVARIANTS
  MutualExclusion
PROPERTIES
  ImplementsFifoLock
  EveryCallReturns
  WaitIsCapped
  EveryRequestEnds
  NobodyQueuesForEver
