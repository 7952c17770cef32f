CONSTANTS
  Base = 128
  Topics <- MCTopics
  Payloads <- MCPayloads
  Names <- MCNames
  Ids <- MCIds
  MaxTimes = 2
SPECIFICATION Spec
INVARIANT TypeOK
INVARIANT PublishArrives
INVARIANT OwnPacketsAccepted
INVARIANT ConnectFlagsButOneArrive
CHECK_DEADLOCK FALSE
