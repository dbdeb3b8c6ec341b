SPECIFICATION ServiceSpec
CONSTANTS
  Inputs <- AllInputs
  Served <- ServedInputs
  FileKey = FileKey
  LegacyKey = LegacyKey
  EnvKey = EnvKey
  Url = Url
  EnvUrl = EnvUrl
  Requests = {r1, r2, r3}
  Connections = {c1, c2}
  NoOne = NoOne
  MaxQueries = 3
  Tunnelled = TRUE
CHECK_DEADLOCK FALSE
INVARIANTS
  EnvironmentOverFile DefaultUrlOfAnother FallbackKey RefusedForAReason
  ConnectedWhileServing NothingLeftOpen NoHoldAndWait
PROPERTIES RequestsEnd ShutdownEnds
