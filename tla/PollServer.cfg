SPECIFICATION FairSpec
CONSTANTS
  Conns = {c1, c2, c3}
  Unused = Unused
  MaxClients = 4
  NFds = 3
  MaxUnread = 1
INVARIANTS EveryClientPolled ReadsDoNotBlock EntriesExact
PROPERTIES Served
CHECK_DEADLOCK FALSE
