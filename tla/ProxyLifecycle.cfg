SPECIFICATION Spec
CONSTANTS
  nThreadCount = 2
  c1 = c1
  c2 = c2
  Conn = {c1}
  Addr = {a1}
  Fd = {1,2}
  Chatty <- OneUpstream
  Bulky <- OneUpstream
  EarlyData = TRUE
  IdleTimeouts = TRUE
  EpollFull = TRUE
  Free = Free
  Closed = Closed
  NoAddr = NoAddr
CHECK_DEADLOCK FALSE
INVARIANTS TypeOK Tracked NoLostWakeup FdAccounted SetLive
PROPERTY PeerCloseTearsDown
