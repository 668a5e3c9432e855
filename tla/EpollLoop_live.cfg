SPECIFICATION FairSpec
CONSTANTS
  Conns = {c1, c2}
  Refused = Refused
  MaxEvents = 2
  NFds = 1
  PerRound = 1
  TimeOut = 0
  MaxBuf = 2
  LowByte = 2
  MaxSend = 2
  ShortSends = FALSE
INVARIANTS EchoExact
PROPERTIES Served IdleClosed
CHECK_DEADLOCK FALSE
