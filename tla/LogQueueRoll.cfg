SPECIFICATION Spec
CONSTANTS
  p1 = p1
  p2 = p2
  Main = Main
  Tolr = Tolr
  Producer = {p1}
  LineBound = 1
  BatchSize = 2
  DayBound = 1
PROPERTIES
  RollFailureIsReported
