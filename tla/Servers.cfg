SPECIFICATION ServersSpec
CONSTANTS
  Conns = {c1, c2}
  Refused = Refused
  MaxEvents = 2
  NFds = 2
  PerRound = 1
  TimeOut = 1
  MaxBuf = 2
  LowByte = 2
  MaxSend = 2
  ShortSends = TRUE
  SelConns = {s1, s2, s3}
  SelUnused = SelUnused
  SelFds = 2
  SelMaxUnread = 2
SYMMETRY Symmetry
INVARIANTS Registered BatchFresh CtlNeverRefused SelectedExact
PROPERTIES OnlyIdleClosed
CHECK_DEADLOCK FALSE
