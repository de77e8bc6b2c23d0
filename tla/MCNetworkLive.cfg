CONSTANTS
  s1 = s1
  s2 = s2
  Socks <- MCSocks
  Openers = {"connect"}
  MaxConns = 2
  Leaves = {"fin", "rst"}
  MaxData = 0
  MaxSends = 1
  FdMax = 64
  RetSize = 1
  NoSock = NoSock
  Main = Main
  None = None

SPECIFICATION FairSpec

PROPERTIES
  ResetReported

CHECK_DEADLOCK FALSE
