SPECIFICATION FairSpec
CONSTANTS
  Workers = {w1, w2, w3}
  Pids <- MCPids
  Width = 3
  SpinArg = 0
  SpinDefault = 4
  CountMod = 2
  MaxCrashes = 2
INVARIANTS MutualExclusion NoLostUpdate IInv
PROPERTIES LockProgress DeadHolderFreed ImplementsPidLock
