CONSTANTS
  w1 = w1
  MaxConnects = 2
  Workers = {w1}
  Publishing = {1}
SPECIFICATION FairSpec
INVARIANT TypeOK
INVARIANT MappedSocketLive
INVARIANT PolledSocketLive
INVARIANT RequestsResolve
INVARIANT ListenersAreMapped
INVARIANT PingsInSession
PROPERTY SocketsGoOneWay
PROPERTY CallsReturn
PROPERTY DisconnectEndsListener
CHECK_DEADLOCK FALSE
