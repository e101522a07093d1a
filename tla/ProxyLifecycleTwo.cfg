SPECIFICATION ApartSpec
CONSTANTS
  nThreadCount = 2
  c1 = c1
  c2 = c2
  Conn = {c1,c2}
  Addr = {a1,a2}
  Fd = {1,2,3}
  Chatty <- OneClient
  Bulky <- OneClient
  EarlyData = FALSE
  IdleTimeouts = FALSE
  EpollFull = TRUE
  Free = Free
  Closed = Closed
  NoAddr = NoAddr
CHECK_DEADLOCK FALSE
INVARIANTS NoCrossTalk SetHoldsManagers FdAccounted
PROPERTY OnlyClosedAreCut
