SPECIFICATION Spec
CONSTANTS
  BufferSize = 2
  RcvBuf = 3
  SndBuf = 2
  ByteBound = 4
INVARIANTS
  TypeOK
PROPERTIES
  ImplementsPipe
  NothingIsStuck
  CloseEndsBoth
CHECK_DEADLOCK FALSE
