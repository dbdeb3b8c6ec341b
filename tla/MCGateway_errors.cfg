SPECIFICATION Spec
CONSTANTS
  ip1 = ip1
  ip2 = ip2
  pk1 = pk1
  pk2 = pk2
  bk1 = bk1
  Requests = {r1}
  Traffic <- EveryRoute
  Ips = {ip1, ip2}
  NoIp = NoIp
  PublicKeys = {pk1, pk2}
  NoKey = NoKey
  BackendKeys = {bk1, bk2}
  Unset = Unset
  MyIp = MyIp
  KeyMap <- MCKeyMap
  Fallback = bk2
  AllowedIps = {}
  DenyMode = "endpoints"
  AccessHops = 1
  AuditHops = 1
  AuditEnabled = TRUE
  MaxCalls = 1
  Ttl = 1
  MaxEvents = 1
  MaxTime = 0
  Monotonic = TRUE
SYMMETRY RequestSymmetry
INVARIANTS ErrorsAreNotFastApis
CHECK_DEADLOCK FALSE
