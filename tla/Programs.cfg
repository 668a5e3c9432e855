SPECIFICATION ProgramsSpec
CONSTANTS
  ProcessNum = 3
  SignalZeroNum = 2
  Pids = {p1, p2, p3, p4}
  NoPid = NoPid
  MaxForkFails = 3
  Rounds = 5
  ListNodes = 5
  ListRuns = 3
  EdgeSend = 4
INVARIANTS ChildrenListed GuaranteedWhileForksSucceed SemaphoresExclude ListExact
PROPERTIES Reaped WaitersGetOn
CHECK_DEADLOCK FALSE
