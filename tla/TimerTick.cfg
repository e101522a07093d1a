SPECIFICATION Spec
CONSTANT Other = {o1, o2}
INVARIANTS
  TypeOK
  TickNotLost
  ReadNeverBlocks
PROPERTIES
  SweepsForever
  LogIsWritten
