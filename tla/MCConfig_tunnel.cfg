SPECIFICATION ConfigSpec
CONSTANTS
  Inputs <- TunnelInputs
  FileKey = FileKey
  LegacyKey = LegacyKey
  EnvKey = EnvKey
  Url = Url
  EnvUrl = EnvUrl
CHECK_DEADLOCK FALSE
INVARIANT TunnelOffTakesNothing
