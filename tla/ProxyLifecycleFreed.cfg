SPECIFICATION SafetySpec
CONSTANTS
  nThreadCount = 1
  c1 = c1
  c2 = c2
  Conn = {c1}
  Addr = {a1}
  Fd = {1,2}
  Chatty <- OneUpstream
  Bulky = {}
  EarlyData = FALSE
  IdleTimeouts = FALSE
  EpollFull = TRUE
  Free = Free
  Closed = Closed
  NoAddr = NoAddr
CHECK_DEADLOCK FALSE
INVARIANT NoUseAfterFree
