CONSTANTS
  Base = 128
  Topics <- MCTopics
  Payloads <- MCPayloads
  Names <- MCNames
  Ids <- MCIds
  MaxTimes = 2
SPECIFICATION Spec
INVARIANT StringsAreCounted
CHECK_DEADLOCK FALSE
