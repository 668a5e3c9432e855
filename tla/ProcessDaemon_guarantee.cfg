SPECIFICATION Spec
CONSTANTS
  ProcessNum = 3
  SignalZeroNum = 2
  Pids = {p1, p2, p3, p4}
  NoPid = NoPid
  MaxForkFails = 1
INVARIANTS SignalsGuaranteed
