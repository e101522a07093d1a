SPECIFICATION Spec
CONSTANTS
  p1 = p1
  p2 = p2
  Main = Main
  Tolr = Tolr
  Producer = {p1,p2}
  LineBound = 2
  BatchSize = 2
  DayBound = 2
INVARIANTS
  TypeOK
  LinesAccounted
  OrderKept
  SwallowBound
  RightFile
  FlushedAtExit
PROPERTIES
  LinesLeaveQueue
