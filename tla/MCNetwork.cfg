CONSTANTS
  s1 = s1
  s2 = s2
  Socks <- MCSocks
  Openers = {"accept"}
  MaxConns = 3
  Leaves = {"rst"}
  MaxData = 1
  MaxSends = 1
  FdMax = 64
  RetSize = 1
  NoSock = NoSock
  Main = Main
  None = None

SPECIFICATION Spec

SYMMETRY Symmetric

INVARIANTS
  TypeOK
  HandlerAlive
  EventsInOrder
  NoCrossTalk
  OwnThreadOnly
  CloseHitsItsConn

CHECK_DEADLOCK FALSE
