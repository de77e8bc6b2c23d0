CONSTANTS
  s1 = s1
  s2 = s2
  Socks <- MCSocks
  Openers = {"accept"}
  MaxConns = 1
  Leaves = {}
  MaxData = 2
  MaxSends = 2
  FdMax = 64
  RetSize = 1
  NoSock = NoSock
  Main = Main
  None = None

SPECIFICATION FairSpec

PROPERTIES
  PeerIsHeard

CHECK_DEADLOCK FALSE
