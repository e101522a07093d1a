SPECIFICATION Spec
CONSTANTS
  nThreadCount = 1
  acc = acc
  cli = cli
  srv = srv
  rel = rel
  NoMsg = NoMsg
  Msg = {cli, srv}
  msgType <- MCmsgType
  socketfd <- MCsocketfd
PROPERTIES
  ShutdownCompletes
  EventsAreHandled
