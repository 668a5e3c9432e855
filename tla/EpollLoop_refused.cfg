SPECIFICATION Spec
CONSTANTS
  Conns = {c1, c2, c3}
  Refused = Refused
  MaxEvents = 2
  NFds = 3
  PerRound = 2
  TimeOut = 0
  MaxBuf = 2
  LowByte = 2
  MaxSend = 1
  ShortSends = FALSE
PROPERTIES RefusedOnlyWhenFull
CHECK_DEADLOCK FALSE
