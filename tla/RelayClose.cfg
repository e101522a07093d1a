SPECIFICATION SafetySpec
CONSTANTS
  BufferSize = 2
  RcvBuf = 3
  SndBuf = 2
  ByteBound = 4
INVARIANTS
  DownOnlyByClose
CHECK_DEADLOCK FALSE
