SPECIFICATION RespondingSpec
CONSTANTS
  NoCall = NoCall
  a = a
  b = b
  Calls = {a, b}
INVARIANTS
  RetryOnce
  RetriesOnNewerSession
  RespawnIsSerialized
  OneServer
  LockIsPassedOn
PROPERTY CallEnds
CHECK_DEADLOCK FALSE
