SPECIFICATION Spec
CONSTANTS
  Configs <- SomeConfigs
  PortSpace = 8
  MinInt <- LeastInt
  MaxInt = 15
  Tilde = Tilde
  Garbage = Garbage
  Fds = 7
  ClientBound = 3
INVARIANTS
  TypeOK
  NoneForgotten
  
PROPERTIES
  StuckForGood
  ReactorMovesOn
CHECK_DEADLOCK FALSE
