----------------------------- MODULE MCGateway ------------------------------
(* Gateway on small instances: two client addresses, one of which may also  *)
(* act as a proxy of the other, and two public keys, pk1 mapped to a        *)
(* backend key of its own and pk2 to a blank one.                          *)
EXTENDS Gateway, TLC

CONSTANTS ip1, ip2, pk1, pk2, bk1

RequestSymmetry == Permutations(Requests)

MCKeyMap == (pk1 :> bk1) @@ (pk2 :> NoKey)

From(p, f, k, rt, t) == [peer |-> p, fwd |-> f, key |-> k, route |-> rt, target |-> t]

(* Audits by address and by key, and requests that match them: directly,    *)
(* through the proxy, and by key from elsewhere.                           *)
AuditTraffic ==
  {From(ip1, NoIp, NoKey, "start", MyIp),
   From(ip2, NoIp, NoKey, "start", pk1),
   From(ip1, NoIp, pk1, "face", MyIp),
   From(ip2, ip1, NoKey, "unknown", MyIp),
   From(ip1, NoIp, NoKey, "report", MyIp)}

(* Clients with a mapped key, a blank-mapped one and none, allowed or not,  *)
(* and a request of every kind.                                            *)
KeyTraffic ==
  {From(ip1, NoIp, NoKey, "start", MyIp),
   From(ip1, NoIp, pk1, "face", MyIp),
   From(ip1, NoIp, pk2, "face", MyIp),
   From(ip1, NoIp, pk2, "submit", MyIp),
   From(ip1, ip2, NoKey, "face", MyIp),
   From(ip2, ip1, pk1, "face", MyIp),
   From(ip2, NoIp, NoKey, "open", MyIp),
   From(ip1, NoIp, pk2, "unknown", MyIp),
   From(ip1, NoIp, NoKey, "report", MyIp)}

(* One request of each kind.                                               *)
EveryRoute == {From(ip1, NoIp, pk1, rt, MyIp) : rt \in Routes}
=============================================================================
