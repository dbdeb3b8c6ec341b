SPECIFICATION FairSpec
CONSTANTS
  ip1 = ip1
  ip2 = ip2
  pk1 = pk1
  pk2 = pk2
  bk1 = bk1
  Requests = {r1, r2}
  Traffic <- KeyTraffic
  Ips = {ip1, ip2}
  NoIp = NoIp
  PublicKeys = {pk1, pk2}
  NoKey = NoKey
  BackendKeys = {bk1, bk2}
  Unset = Unset
  MyIp = MyIp
  KeyMap <- MCKeyMap
  Fallback = bk2
  AllowedIps = {ip1}
  DenyMode = "endpoints"
  AccessHops = 0
  AuditHops = 1
  AuditEnabled = TRUE
  MaxCalls = 2
  Ttl = 1
  MaxEvents = 1
  MaxTime = 1
  Monotonic = TRUE
INVARIANTS OwnKeyUpstream SubmitAnswerIsTrue DeniedLeavesNoTrace
PROPERTIES RequestsAreAnswered
CHECK_DEADLOCK FALSE
