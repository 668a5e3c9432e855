SPECIFICATION Spec
CONSTANTS
  Conns = {c1, c2}
  Unused = Unused
  MaxClients = 3
  NFds = 2
  MaxUnread = 1
PROPERTIES RefusedOnlyWhenFull
CHECK_DEADLOCK FALSE
