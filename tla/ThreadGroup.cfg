SPECIFICATION SafetySpec
CONSTANTS
  nThreadCount = 1
  acc = acc
  cli = cli
  srv = srv
  rel = rel
  NoMsg = NoMsg
  Msg = {cli, srv, rel}
  msgType <- MCmsgType
  socketfd <- MCsocketfd
INVARIANTS
  TypeOK
  MainExitsLast
  StopIsPrompt
  LossOnlyOnStop
PROPERTY ImplementsDelivery
