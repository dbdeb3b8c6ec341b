--------------------------- MODULE Service_proofs ---------------------------
(***************************************************************************)
(* Configuration and service, for every set of configurations, requests and *)
(* connections.  The db-sync provider is connected while requests need it,  *)
(* leaves nothing open and never lets a request hold one connection while   *)
(* it waits for another.  What the service talks to and with which key is   *)
(* what the layers of its configuration together say.  And the composition  *)
(* of the two is a behaviour of each.                                       *)
(***************************************************************************)
EXTENDS Service, TLAPS

-----------------------------------------------------------------------------
(* The provider.                                                            *)

(* The tunnel is as connect() left it, or lost since.                       *)
TunnelKept == tunnel \in IF Tunnelled THEN {"up", "lost"} ELSE {"none"}

(* What is open at each point of the server's life.                         *)
Lifecycle ==
  /\ server = "connect" => tunnel = "none"
  /\ server \in {"create_pool", "probe", "cleanup", "serving", "draining",
                 "close_pool", "stop_tunnel"} => TunnelKept
  /\ server \in {"probe", "serving", "draining", "close_pool"} => pool = "open"
  /\ server = "stop_tunnel" => pool = "closed"
  /\ server = "failed" => tunnel \in {"none", "stopped"}
  /\ server = "down" =>
       \/ pool = "terminated"
       \/ pool = "closed" /\ tunnel \in {"none", "stopped"}

(* Requests need the database only while they are let in or waited for.     *)
RequestsWithinLife ==
  \A r \in Requests : at[r] \in {"waiting", "querying"} => server \in {"serving", "draining"}

(* A request that is not answered has a query left.                         *)
QueriesLeft == \A r \in Requests : at[r] # "answered" => asked[r] < MaxQueries

IInv ==
  /\ TypeOK
  /\ Lifecycle
  /\ RequestsWithinLife
  /\ QueriesLeft
  /\ NoHoldAndWait

LEMMA InitIInv == Init => IInv
<1> SUFFICES ASSUME Init PROVE IInv
  OBVIOUS
<1>1. TypeOK
  BY DbSyncAssumption DEF Init, TypeOK
<1>2. NoHoldAndWait
  BY DbSyncAssumption DEF Init, NoHoldAndWait
<1> QED
  BY <1>1, <1>2, DbSyncAssumption DEF Init, IInv, Lifecycle, RequestsWithinLife, QueriesLeft

(* Steps of the server and the tunnel leave the requests as they are.       *)
LEMMA ServerStep ==
  ASSUME IInv, Server \/ Stop \/ TunnelLost
  PROVE  IInv'
<1>1. UNCHANGED <<holder, at, asked>>
  BY DEF Server, OpenTunnel, CreatePool, Probe, Cleanup, Drain, ClosePool, CloseTunnel,
         Stop, TunnelLost, requestVars
<1>2. NoHoldAndWait' /\ QueriesLeft'
  BY <1>1 DEF IInv, NoHoldAndWait, QueriesLeft
<1>3. TypeOK' /\ Lifecycle' /\ RequestsWithinLife'
  <2>1. CASE OpenTunnel
    BY <2>1 DEF IInv, TypeOK, Lifecycle, RequestsWithinLife, TunnelKept, OpenTunnel, requestVars
  <2>2. CASE CreatePool
    BY <2>2 DEF IInv, TypeOK, Lifecycle, RequestsWithinLife, TunnelKept, CreatePool, requestVars
  <2>3. CASE Probe
    BY <2>3 DEF IInv, TypeOK, Lifecycle, RequestsWithinLife, TunnelKept, Probe, requestVars
  <2>4. CASE Cleanup
    BY <2>4 DEF IInv, TypeOK, Lifecycle, RequestsWithinLife, TunnelKept, Cleanup, StopTunnel,
                requestVars
  <2>5. CASE Drain
    BY <2>5 DEF IInv, TypeOK, Lifecycle, RequestsWithinLife, TunnelKept, Drain, requestVars
  <2>6. CASE ClosePool
    BY <2>6 DEF IInv, TypeOK, Lifecycle, RequestsWithinLife, TunnelKept, ClosePool, requestVars
  <2>7. CASE CloseTunnel
    BY <2>7 DEF IInv, TypeOK, Lifecycle, RequestsWithinLife, TunnelKept, CloseTunnel, StopTunnel,
                requestVars
  <2>8. CASE Stop
    BY <2>8 DEF IInv, TypeOK, Lifecycle, RequestsWithinLife, TunnelKept, Stop, requestVars
  <2>9. CASE TunnelLost
    BY <2>9 DEF IInv, TypeOK, Lifecycle, RequestsWithinLife, TunnelKept, TunnelLost, requestVars
  <2> QED BY <2>1, <2>2, <2>3, <2>4, <2>5, <2>6, <2>7, <2>8, <2>9 DEF Server
<1> QED BY <1>2, <1>3 DEF IInv

LEMMA ArriveStep ==
  ASSUME IInv, NEW r \in Requests, Arrive(r)
  PROVE  IInv'
<1>1. TypeOK' /\ Lifecycle' /\ RequestsWithinLife' /\ QueriesLeft'
  BY DEF IInv, TypeOK, Lifecycle, TunnelKept, RequestsWithinLife, QueriesLeft, Arrive
<1>2. NoHoldAndWait'
  BY DEF IInv, TypeOK, NoHoldAndWait, Arrive
<1> QED BY <1>1, <1>2 DEF IInv

LEMMA AcquireStep ==
  ASSUME IInv, NEW r \in Requests, Acquire(r)
  PROVE  IInv'
<1>1. PICK c \in Connections :
        /\ holder[c] = NoOne
        /\ \/ holder' = [holder EXCEPT ![c] = r] /\ at' = [at EXCEPT ![r] = "querying"]
           \/ UNCHANGED holder /\ at' = [at EXCEPT ![r] = "answered"]
  BY DEF Acquire
<1>2. TypeOK' /\ Lifecycle' /\ RequestsWithinLife' /\ QueriesLeft'
  BY <1>1 DEF IInv, TypeOK, Lifecycle, TunnelKept, RequestsWithinLife, QueriesLeft, Acquire
<1>3. NoHoldAndWait'
  BY <1>1, DbSyncAssumption DEF IInv, TypeOK, NoHoldAndWait, Acquire
<1> QED BY <1>2, <1>3 DEF IInv

LEMMA FetchStep ==
  ASSUME IInv, NEW r \in Requests, Fetch(r)
  PROVE  IInv'
<1>1. TypeOK' /\ Lifecycle' /\ RequestsWithinLife' /\ QueriesLeft'
  BY DbSyncAssumption
     DEF IInv, TypeOK, Lifecycle, TunnelKept, RequestsWithinLife, QueriesLeft, Fetch, Released
<1>2. NoHoldAndWait'
  BY DbSyncAssumption DEF IInv, TypeOK, NoHoldAndWait, Fetch, Released
<1> QED BY <1>1, <1>2 DEF IInv

LEMMA NextIInv == IInv /\ [Next]_vars => IInv'
<1> SUFFICES ASSUME IInv, [Next]_vars PROVE IInv'
  OBVIOUS
<1>1. CASE Server \/ Stop \/ TunnelLost
  BY <1>1, ServerStep
<1>2. CASE \E r \in Requests : Arrive(r) \/ Serve(r)
  BY <1>2, ArriveStep, AcquireStep, FetchStep DEF Serve
<1>3. CASE UNCHANGED vars
  BY <1>3 DEF vars, IInv, TypeOK, Lifecycle, TunnelKept, RequestsWithinLife, QueriesLeft,
              NoHoldAndWait
<1> QED BY <1>1, <1>2, <1>3 DEF Next

LEMMA IInvHolds == Spec => []IInv
BY InitIInv, NextIInv, PTL DEF Spec

(* Every reachable state is well typed.                                     *)
THEOREM TypeCorrect == Spec => []TypeOK
<1>1. IInv => TypeOK
  BY DEF IInv
<1> QED BY <1>1, IInvHolds, PTL

(* A request that needs the database finds the pool open over the tunnel    *)
(* connect() opened: none connects lazily.                                  *)
THEOREM ServesConnected == Spec => []ConnectedWhileServing
<1>1. IInv => ConnectedWhileServing
  BY DEF IInv, Lifecycle, TunnelKept, RequestsWithinLife, ConnectedWhileServing
<1> QED BY <1>1, IInvHolds, PTL

(* A failed start leaves no tunnel, and a shutdown neither pool, tunnel nor *)
(* waiting request, unless pool.close() raised.                             *)
THEOREM NothingIsLeftOpen == Spec => []NothingLeftOpen
<1>1. IInv => NothingLeftOpen
  BY DEF IInv, TypeOK, Lifecycle, RequestsWithinLife, NothingLeftOpen
<1> QED BY <1>1, IInvHolds, PTL

(* No request holds a connection of the pool while it waits for another.    *)
THEOREM NoRequestHoldsAndWaits == Spec => []NoHoldAndWait
<1>1. IInv => NoHoldAndWait
  BY DEF IInv
<1> QED BY <1>1, IInvHolds, PTL

(* How far a request is from its answer, in steps of its own.               *)
StepsLeft(r) ==
  CASE at[r] = "away"     -> 2 * MaxQueries + 2
    [] at[r] = "waiting"  -> 2 * (MaxQueries - asked[r]) + 1
    [] at[r] = "querying" -> 2 * (MaxQueries - asked[r])
    [] at[r] = "answered" -> 0

LEMMA StepsLeftType ==
  ASSUME IInv, NEW r \in Requests
  PROVE  /\ StepsLeft(r) \in Nat
         /\ at[r] \in {"waiting", "querying"} => StepsLeft(r) > 0
<1>1. /\ at[r] \in {"away", "waiting", "querying", "answered"}
      /\ asked[r] \in 0 .. MaxQueries /\ MaxQueries \in Nat
      /\ at[r] # "answered" => asked[r] < MaxQueries
  BY DbSyncAssumption DEF IInv, TypeOK, QueriesLeft
<1>2. CASE at[r] = "away"
  BY <1>1, <1>2 DEF StepsLeft
<1>3. CASE at[r] = "waiting"
  BY <1>1, <1>3 DEF StepsLeft
<1>4. CASE at[r] = "querying"
  BY <1>1, <1>4 DEF StepsLeft
<1>5. CASE at[r] = "answered"
  BY <1>5 DEF StepsLeft
<1> QED BY <1>1, <1>2, <1>3, <1>4, <1>5

LEMMA ServeAdvances ==
  ASSUME IInv, NEW r \in Requests, Serve(r)
  PROVE  /\ StepsLeft(r)' < StepsLeft(r)
         /\ StepsLeft(r)' \in Nat
<1>1. /\ at \in [Requests -> {"away", "waiting", "querying", "answered"}]
      /\ asked \in [Requests -> 0 .. MaxQueries] /\ MaxQueries \in Nat
      /\ at[r] \in {"waiting", "querying"} /\ StepsLeft(r) > 0
  BY StepsLeftType, DbSyncAssumption DEF IInv, TypeOK, Serve, Acquire, Fetch
<1>2. CASE at'[r] = "answered"
  BY <1>1, <1>2 DEF StepsLeft
<1>3. CASE at[r] = "waiting" /\ at'[r] = "querying" /\ asked' = asked
  BY <1>1, <1>3 DEF StepsLeft
<1>4. CASE at[r] = "querying" /\ at'[r] = "waiting" /\ asked'[r] = asked[r] + 1
  BY <1>1, <1>4 DEF StepsLeft
<1>5. CASE Acquire(r)
  BY <1>1, <1>2, <1>3, <1>5 DEF Acquire
<1>6. CASE Fetch(r)
  BY <1>1, <1>2, <1>4, <1>6 DEF Fetch
<1> QED BY <1>5, <1>6 DEF Serve

LEMMA NobodyIsSetBack ==
  ASSUME IInv, [Next]_vars, NEW r \in Requests
  PROVE  StepsLeft(r)' <= StepsLeft(r)
<1>1. StepsLeft(r) \in Nat /\ at \in [Requests -> {"away", "waiting", "querying", "answered"}]
      /\ asked \in [Requests -> 0 .. MaxQueries] /\ MaxQueries \in Nat
  BY StepsLeftType, DbSyncAssumption DEF IInv, TypeOK
<1>2. CASE at'[r] = at[r] /\ asked'[r] = asked[r]
  <2>1. StepsLeft(r)' = StepsLeft(r)
    BY <1>2 DEF StepsLeft
  <2> QED BY <1>1, <2>1
<1>3. CASE Arrive(r)
  <2>1. at[r] = "away" /\ at'[r] = "waiting" /\ asked'[r] \in 0 .. MaxQueries
    BY <1>1, <1>3 DEF Arrive
  <2> QED BY <1>1, <2>1 DEF StepsLeft
<1>4. CASE Serve(r)
  BY <1>1, <1>4, ServeAdvances
<1>5. ASSUME NEW q \in Requests, Arrive(q) \/ Serve(q), q # r
      PROVE  at'[r] = at[r] /\ asked'[r] = asked[r]
  BY <1>1, <1>5 DEF Arrive, Serve, Acquire, Fetch
<1>6. CASE Server \/ Stop \/ TunnelLost \/ UNCHANGED vars
  <2>1. UNCHANGED <<at, asked>>
    BY <1>6 DEF Server, OpenTunnel, CreatePool, Probe, Cleanup, Drain, ClosePool,
                CloseTunnel, Stop, TunnelLost, requestVars, vars
  <2> QED BY <1>2, <2>1
<1> QED BY <1>2, <1>3, <1>4, <1>5, <1>6 DEF Next

(* Each query and each wait that ends brings its request nearer to the      *)
(* answer, and no step of another request, the server or the tunnel takes   *)
(* any request further away: at most MaxQueries times two steps from the    *)
(* moment it comes in (_fetch, _fetchrow).                                  *)
THEOREM RequestsAdvance ==
  Spec => [][\A r \in Requests :
               /\ StepsLeft(r) \in Nat /\ StepsLeft(r)' <= StepsLeft(r)
               /\ Serve(r) => StepsLeft(r)' < StepsLeft(r)]_vars
<1>1. ASSUME IInv, [Next]_vars
      PROVE  [\A r \in Requests :
               /\ StepsLeft(r) \in Nat /\ StepsLeft(r)' <= StepsLeft(r)
               /\ Serve(r) => StepsLeft(r)' < StepsLeft(r)]_vars
  BY <1>1, StepsLeftType, NobodyIsSetBack, ServeAdvances
<1> QED BY IInvHolds, <1>1, PTL DEF Spec

(* While a request waits for the pool there is a connection for it, or      *)
(* every connection is held by a request whose query runs and that will     *)
(* give it back: requests never all wait for each other, however few the    *)
(* connections and however many queries a handler makes (pool.acquire of    *)
(* _fetch and _fetchrow, which has no timeout).                             *)
PoolMovesOn ==
  \A r \in Requests : at[r] = "waiting" =>
    \/ \E c \in Connections : holder[c] = NoOne
    \/ \A c \in Connections : \E q \in Requests :
         holder[c] = q /\ at[q] = "querying" /\ asked[q] < MaxQueries

THEOREM PoolNeverDeadlocks == Spec => []PoolMovesOn
<1>1. ASSUME IInv PROVE PoolMovesOn
  <2> SUFFICES ASSUME \A c \in Connections : holder[c] # NoOne, NEW c \in Connections
               PROVE  \E q \in Requests :
                        holder[c] = q /\ at[q] = "querying" /\ asked[q] < MaxQueries
    BY DEF PoolMovesOn
  <2>1. holder[c] \in Requests
    BY <1>1 DEF IInv, TypeOK
  <2>2. at[holder[c]] = "querying"
    BY <1>1, <2>1 DEF IInv, NoHoldAndWait
  <2>3. asked[holder[c]] < MaxQueries
    BY <1>1, <2>1, <2>2 DEF IInv, QueriesLeft
  <2> QED BY <2>1, <2>2, <2>3
<1> QED BY IInvHolds, <1>1, PTL

-----------------------------------------------------------------------------
(* The configuration.                                                       *)

(* The settings before and after the environment is put over them.          *)
ReadFromFile ==
  /\ data.face = given.file.face /\ data.provider = given.file.provider
  /\ data.dsn = given.file.dsn /\ data.passthrough = given.file.passthrough
  /\ data.tunnel = given.file.tunnel
  /\ data.api_key = given.file.api_key /\ data.fallback = given.file.fallback
  /\ data.base_url =
       Over(given.file.base_url,
         IF given.file.provider \in Mirrors THEN DefaultUrl(given.file.provider) ELSE Unset)

Layered ==
  /\ data.face = Face /\ data.provider = Source /\ data.base_url = MeantUrl
  /\ data.dsn = Over(given.env.dsn, given.file.dsn)
  /\ data.passthrough = given.file.passthrough
  /\ data.tunnel = EnvTunnel(given.file.tunnel, given.env)

KeysLayered ==
  /\ data.api_key = Over(given.env.api_key, given.file.api_key)
  /\ data.fallback = Over(given.file.fallback, given.env.api_key)

MeantFallback ==
  IF given.file.fallback \notin {Unset, Blank} THEN given.file.fallback
  ELSE Stripped(Over(given.env.api_key, given.file.api_key))

Sound == Complete /\ TunnelValid /\ FaceAndBackendValid

(* The environment cannot be put over this file.                            *)
Unreadable == EnvRaises(given.file.tunnel, given.env)

(* What each step finds: the settings are the layers laid so far, and the   *)
(* checks passed so far have been passed by them.                           *)
ConfigIInv ==
  /\ ConfigTypeOK
  /\ stage = "defaults" => data = given.file
  /\ stage = "environment" => ReadFromFile
  /\ stage \in {"checks", "validation", "factory", "ready", "not_implemented"} =>
       Layered /\ ~Unreadable
  /\ stage \in {"checks", "validation"} => KeysLayered
  /\ stage = "validation" => Complete
  /\ stage = "refused" => Unreadable \/ (Layered /\ ~Sound)
  /\ stage \in {"factory", "ready", "not_implemented"} =>
       Sound /\ data.fallback = MeantFallback
  /\ stage = "not_implemented" => data.provider \in Reserved
  /\ stage = "ready" =>
       /\ backend.source = data.provider /\ backend.base_url = data.base_url
       /\ backend.fallback = data.fallback

LEMMA ConfigInitIInv == ConfigInit => ConfigIInv
<1> SUFFICES ASSUME ConfigInit PROVE ConfigIInv
  OBVIOUS
<1>1. ConfigTypeOK
  BY ConfigAssumption
     DEF ConfigInit, ConfigTypeOK, NoBackend, Settings, Urls, Keys, Unset
<1> QED BY <1>1 DEF ConfigInit, ConfigIInv

LEMMA FillStep ==
  ASSUME ConfigIInv, FillDefaultBaseUrl
  PROVE  ConfigIInv'
<1>1. data = given.file /\ data \in Settings /\ stage' = "environment"
  BY DEF ConfigIInv, ConfigTypeOK, FillDefaultBaseUrl
<1>2. CASE data.base_url = Unset /\ data.provider \in Mirrors
  <2>1. data' = [data EXCEPT !.base_url = DefaultUrl(data.provider)]
    BY <1>2 DEF FillDefaultBaseUrl
  <2>2. DefaultUrl(data.provider) \in Urls
    BY <1>2 DEF Urls
  <2>3. data' \in Settings /\ ReadFromFile'
    BY <1>1, <1>2, <2>1, <2>2 DEF Settings, ReadFromFile, Over, FillDefaultBaseUrl
  <2> QED BY <1>1, <2>3 DEF ConfigIInv, ConfigTypeOK, FillDefaultBaseUrl
<1>3. CASE ~(data.base_url = Unset /\ data.provider \in Mirrors)
  <2>1. data' = data /\ ReadFromFile'
    BY <1>1, <1>3 DEF ReadFromFile, Over, FillDefaultBaseUrl
  <2> QED BY <1>1, <2>1 DEF ConfigIInv, ConfigTypeOK, FillDefaultBaseUrl
<1> QED BY <1>2, <1>3

LEMMA EnvTunnelType ==
  ASSUME NEW section \in Tunnels, NEW env \in Environments
  PROVE  EnvTunnel(section, env) \in Tunnels
<1>1. section.enabled \in Switches /\ section.text \in SshTexts
  BY DEF Tunnels, NoSection, NullSection, NoText, Switches, SshTexts
<1>2. env.tunnel \in Switches /\ env.ssh \in SshTexts
  BY DEF Environments
<1>3. /\ Over(env.tunnel, section.enabled) \in Switches
      /\ [f \in SshFields |-> Over(env.ssh[f], section.text[f])] \in SshTexts
  BY <1>1, <1>2 DEF Over, SshTexts
<1> QED BY <1>3 DEF EnvTunnel, Tunnels

LEMMA OverriddenFields ==
  ASSUME NEW settings \in Settings, NEW env \in Environments
  PROVE  LET new == Overridden(settings, env)
         IN  /\ new \in Settings
             /\ new.face = Over(env.face, settings.face)
             /\ new.provider = Over(env.provider, settings.provider)
             /\ new.base_url = Over(env.base_url, settings.base_url)
             /\ new.dsn = Over(env.dsn, settings.dsn)
             /\ new.passthrough = settings.passthrough
             /\ new.tunnel = EnvTunnel(settings.tunnel, env)
             /\ new.api_key = Over(env.api_key, settings.api_key)
             /\ new.fallback = Over(settings.fallback, env.api_key)
<1>1. EnvTunnel(settings.tunnel, env) \in Tunnels
  BY EnvTunnelType DEF Settings
<1>2. /\ Over(env.face, settings.face) \in Faces \cup {Unset}
      /\ Over(env.provider, settings.provider) \in Sources \cup {Unset}
      /\ Over(env.base_url, settings.base_url) \in Urls
      /\ Over(env.dsn, settings.dsn) \in {Unset, Blank, "dsn"}
      /\ Over(env.api_key, settings.api_key) \in Keys
      /\ Over(settings.fallback, env.api_key) \in Keys
  BY DEF Over, Settings, Environments
<1> QED BY <1>1, <1>2 DEF Overridden, Settings

LEMMA EnvironmentStep ==
  ASSUME ConfigIInv, ApplyEnvOverrides
  PROVE  ConfigIInv'
<1>1. /\ ReadFromFile /\ data \in Settings /\ UNCHANGED <<given, backend>>
      /\ given.env \in Environments
  BY DEF ConfigIInv, ConfigTypeOK, ApplyEnvOverrides
<1>2. EnvRaises(data.tunnel, given.env) <=> Unreadable
  BY <1>1 DEF ReadFromFile, Unreadable
<1>3. Unreadable' <=> Unreadable
  BY <1>1 DEF Unreadable
<1>4. CASE Unreadable
  <2>1. stage' = "refused" /\ data' = data
    BY <1>2, <1>4 DEF ApplyEnvOverrides
  <2>2. ConfigTypeOK'
    BY <1>1, <2>1 DEF ConfigIInv, ConfigTypeOK
  <2>3. Unreadable'
    BY <1>3, <1>4
  <2> QED BY <2>1, <2>2, <2>3 DEF ConfigIInv
<1>5. CASE ~Unreadable
  <2>1. stage' = "checks" /\ data' = Overridden(data, given.env)
    BY <1>2, <1>5 DEF ApplyEnvOverrides
  <2>2. Layered' /\ KeysLayered' /\ data' \in Settings
    BY <1>1, <2>1, OverriddenFields
       DEF ReadFromFile, Layered, KeysLayered, Face, Source, MeantUrl
  <2> QED BY <1>1, <1>3, <1>5, <2>1, <2>2 DEF ConfigIInv, ConfigTypeOK
<1> QED BY <1>4, <1>5

LEMMA CheckStep ==
  ASSUME ConfigIInv, CheckRequired
  PROVE  ConfigIInv'
<1>1. UNCHANGED <<given, data, backend>> /\ Layered /\ KeysLayered /\ ~Unreadable
  BY DEF ConfigIInv, CheckRequired
<1>2. Layered' /\ KeysLayered' /\ (Complete' <=> Complete) /\ ~Unreadable'
  BY <1>1 DEF Layered, KeysLayered, Face, Source, MeantUrl, Complete, Unreadable
<1> QED BY <1>1, <1>2 DEF ConfigIInv, ConfigTypeOK, CheckRequired, Sound

LEMMA ValidateStep ==
  ASSUME ConfigIInv, Validate
  PROVE  ConfigIInv'
<1>1. /\ Layered /\ KeysLayered /\ Complete /\ data \in Settings
      /\ ~Unreadable /\ UNCHANGED <<given, backend>>
  BY DEF ConfigIInv, ConfigTypeOK, Validate
<1>0. ~Unreadable'
  BY <1>1 DEF Unreadable
<1>2. CASE ~(TunnelValid /\ FaceAndBackendValid)
  <2>1. stage' = "refused" /\ data' = data
    BY <1>2 DEF Validate
  <2>2. Layered'
    BY <1>1, <2>1 DEF Layered, Face, Source, MeantUrl
  <2>3. ~Sound'
    BY <1>2, <2>1 DEF Sound, TunnelValid, FaceAndBackendValid
  <2> QED BY <1>1, <2>1, <2>2, <2>3 DEF ConfigIInv, ConfigTypeOK
<1>3. CASE TunnelValid /\ FaceAndBackendValid
  <2>1. stage' = "factory" /\ data' = [data EXCEPT !.fallback = MigratedFallback]
    BY <1>3 DEF Validate
  <2>2. MigratedFallback \in Keys
    BY <1>1 DEF MigratedFallback, Over, Stripped, Settings, Keys
  <2>3. /\ data' \in Settings /\ data'.fallback = MigratedFallback
        /\ data'.face = data.face /\ data'.provider = data.provider
        /\ data'.base_url = data.base_url /\ data'.dsn = data.dsn
        /\ data'.passthrough = data.passthrough /\ data'.tunnel = data.tunnel
    BY <1>1, <2>1, <2>2 DEF Settings
  <2>4. Layered'
    BY <1>1, <2>3 DEF Layered, Face, Source, MeantUrl
  <2>5. Sound'
    BY <1>1, <1>3, <2>3 DEF Sound, Complete, TunnelValid, FaceAndBackendValid
  <2>6. MigratedFallback = MeantFallback
    BY <1>1 DEF KeysLayered, MigratedFallback, MeantFallback, Over, Stripped, Unset, Blank
  <2>7. data'.fallback = MeantFallback'
    BY <1>1, <2>3, <2>6 DEF MeantFallback
  <2> QED BY <1>0, <1>1, <2>1, <2>3, <2>4, <2>5, <2>7 DEF ConfigIInv, ConfigTypeOK
<1> QED BY <1>2, <1>3

LEMMA FactoryStep ==
  ASSUME ConfigIInv, CreateBackend
  PROVE  ConfigIInv'
<1>1. /\ UNCHANGED <<given, data>> /\ data \in Settings
      /\ Layered /\ ~Unreadable /\ Sound /\ data.fallback = MeantFallback
  BY DEF ConfigIInv, ConfigTypeOK, CreateBackend
<1>2. Layered' /\ ~Unreadable' /\ Sound' /\ MeantFallback' = MeantFallback
  BY <1>1 DEF Layered, Face, Source, MeantUrl, Sound, Complete, TunnelValid,
              FaceAndBackendValid, MeantFallback, Unreadable
<1>3. CASE data.provider \in Reserved
  BY <1>1, <1>2, <1>3 DEF ConfigIInv, ConfigTypeOK, CreateBackend
<1>4. CASE data.provider \notin Reserved
  <2>1. stage' = "ready" /\ backend' = [source |-> data.provider, base_url |-> data.base_url,
                                        fallback |-> data.fallback]
    BY <1>4 DEF CreateBackend
  <2>2. backend' \in [source : Sources \cup {Unset}, base_url : Urls, fallback : Keys]
    BY <1>1, <2>1 DEF Settings
  <2> QED BY <1>1, <1>2, <2>1, <2>2 DEF ConfigIInv, ConfigTypeOK
<1> QED BY <1>3, <1>4

LEMMA ConfigNextIInv == ConfigIInv /\ [ConfigNext]_configVars => ConfigIInv'
<1> SUFFICES ASSUME ConfigIInv, [ConfigNext]_configVars PROVE ConfigIInv'
  OBVIOUS
<1>1. CASE UNCHANGED configVars
  BY <1>1 DEF configVars, ConfigIInv, ConfigTypeOK, ReadFromFile, Layered, KeysLayered,
              Face, Source, MeantUrl, MeantFallback, Sound, Complete, TunnelValid,
              FaceAndBackendValid, Unreadable
<1> QED BY <1>1, FillStep, EnvironmentStep, CheckStep, ValidateStep, FactoryStep
        DEF ConfigNext

LEMMA ConfigIInvHolds == ConfigSpec => []ConfigIInv
BY ConfigInitIInv, ConfigNextIInv, PTL DEF ConfigSpec

(* The service talks to what environment, file and defaults, in this order, *)
(* together name (load_config, create_backend).                             *)
THEOREM EnvironmentWins == ConfigSpec => []EnvironmentOverFile
<1>1. ConfigIInv => EnvironmentOverFile
  BY DEF ConfigIInv, Layered, EnvironmentOverFile
<1> QED BY <1>1, ConfigIInvHolds, PTL

(* Another mirror's default URL is talked to only if the environment names  *)
(* a mirror in the place of the file's and nobody gives a URL - provided    *)
(* nobody gives a default URL by hand.                                      *)
THEOREM DefaultsAreOwn ==
  ASSUME \A i \in Inputs, s \in Mirrors : DefaultUrl(s) \notin {i.file.base_url, i.env.base_url}
  PROVE  ConfigSpec => []DefaultUrlOfAnother
<1> DEFINE Given == given \in Inputs
<1>1. ConfigInit => Given
  BY DEF ConfigInit
<1>2. Given /\ [ConfigNext]_configVars => Given'
  BY DEF ConfigNext, FillDefaultBaseUrl, ApplyEnvOverrides, CheckRequired, Validate,
         CreateBackend, configVars
<1>3. Given /\ ConfigIInv => DefaultUrlOfAnother
  <2> SUFFICES ASSUME Given, ConfigIInv, stage = "ready", backend.source \in Mirrors,
                      NEW s \in Mirrors \ {backend.source}, backend.base_url = DefaultUrl(s)
               PROVE  /\ given.env.provider \notin {Unset, given.file.provider}
                      /\ given.file.provider \in Mirrors
                      /\ given.file.base_url = Unset /\ given.env.base_url = Unset
    BY DEF DefaultUrlOfAnother
  <2>1. backend.source = Source /\ MeantUrl = DefaultUrl(s)
    BY DEF ConfigIInv, Layered
  <2>2. DefaultUrl(s) \notin {given.file.base_url, given.env.base_url}
    OBVIOUS
  <2>3. DefaultUrl(s) # Unset
    BY DEF DefaultUrl, Unset
  <2>4. /\ given.file.base_url = Unset /\ given.env.base_url = Unset
        /\ given.file.provider \in Mirrors
        /\ DefaultUrl(given.file.provider) = DefaultUrl(s)
    BY <2>1, <2>2, <2>3 DEF MeantUrl, Over
  <2>5. given.file.provider = s
    BY <2>4 DEF DefaultUrl, Mirrors
  <2> QED BY <2>1, <2>4, <2>5 DEF Source, Over
<1> QED BY <1>1, <1>2, <1>3, ConfigIInvHolds, PTL DEF ConfigSpec

(* Of the three keys the file's fallback comes first, then the              *)
(* environment's, then the file's legacy key; a blank one is none.          *)
THEOREM FallbackKeyIsMeant == ConfigSpec => []FallbackKey
<1>1. ConfigIInv => FallbackKey
  BY DEF ConfigIInv, MeantFallback, FallbackKey
<1> QED BY <1>1, ConfigIInvHolds, PTL

(* The section as it stands after the environment: what a mapping says is   *)
(* what the layers mean, and it is on when they mean a tunnel.              *)
LEMMA SectionIsMeant ==
  ASSUME ConfigIInv, Layered, ~Unreadable
  PROVE  /\ TunnelSection <=> data.tunnel.kind = "mapping"
         /\ TunnelSection => \A f \in SshFields : data.tunnel.text[f] = MeantText(f)
         /\ MeantTunnel <=> TunnelOn(data.tunnel)
<1>1. /\ given.file.tunnel \in Tunnels /\ given.env.tunnel \in Switches
      /\ data.tunnel = EnvTunnel(given.file.tunnel, given.env)
  BY DEF ConfigIInv, ConfigTypeOK, Settings, Environments, Layered
<1>2. CASE Touched(given.env)
  <2>1. /\ data.tunnel.kind = "mapping"
        /\ data.tunnel.enabled = Over(given.env.tunnel, given.file.tunnel.enabled)
        /\ \A f \in SshFields :
             data.tunnel.text[f] = Over(given.env.ssh[f], given.file.tunnel.text[f])
    BY <1>1, <1>2 DEF EnvTunnel
  <2> QED BY <1>2, <2>1 DEF TunnelSection, MeantText, MeantTunnel, TunnelOn
<1>3. CASE ~Touched(given.env)
  <2>1. data.tunnel = given.file.tunnel /\ given.env.tunnel = Unset
    BY <1>1, <1>3 DEF EnvTunnel, Touched
  <2> QED BY <1>3, <2>1 DEF TunnelSection, MeantText, MeantTunnel, TunnelOn, Over
<1> QED BY <1>2, <1>3

LEMMA UnreadableIsUnsound ==
  ASSUME Unreadable
  PROVE  ~ReadableTunnel
<1>1. Touched(given.env) /\ TunnelSection
  BY DEF Unreadable, EnvRaises, TunnelSection
<1>2. ASSUME NEW p \in SshPorts, given.env.ssh[p] \in {Empty, Blank}
      PROVE  MeantText(p) \notin {Unset, Filled}
  BY <1>1, <1>2 DEF MeantText, Over, Unset, Empty, Blank, Filled
<1> QED BY <1>1, <1>2 DEF ReadableTunnel, Unreadable, EnvRaises

LEMMA TunnelChecks ==
  ASSUME ConfigIInv, Layered, ~Unreadable
  PROVE  SoundTunnel <=> TunnelValid /\ (TunnelOn(data.tunnel) => data.provider = "dbsync")
<1>1. /\ TunnelSection <=> data.tunnel.kind = "mapping"
      /\ TunnelSection => \A f \in SshFields : data.tunnel.text[f] = MeantText(f)
      /\ MeantTunnel <=> TunnelOn(data.tunnel)
  BY SectionIsMeant
<1>2. Touched(given.env) => given.file.tunnel.kind # "null"
  BY DEF Unreadable, EnvRaises
<1>3. MeantTunnel => TunnelSection
  BY DEF MeantTunnel
<1>4. /\ "host" \in SshFields /\ "user" \in SshFields
      /\ SshPorts \subseteq SshFields /\ Credentials \subseteq SshFields
  BY DEF SshFields
<1>5. data.provider = Source
  BY DEF Layered
<1> HIDE DEF SshFields, SshPorts, Credentials
<1> QED BY <1>1, <1>2, <1>3, <1>4, <1>5 DEF SoundTunnel, ReadableTunnel, TunnelValid

LEMMA SourceChecks ==
  ASSUME ConfigIInv, Layered
  PROVE  SoundSource <=>
           /\ Complete
           /\ data.provider \in Mirrors =>
                /\ Stripped(data.base_url) # Unset
                /\ data.face = data.provider => data.passthrough
           /\ data.provider = "dbsync" => Stripped(data.dsn) # Unset
<1>1. data.dsn \in {Unset, Blank, "dsn"}
  BY DEF ConfigIInv, ConfigTypeOK, Settings
<1> QED BY <1>1 DEF SoundSource, Layered, Complete, Stripped, Unset, Blank

(* The service is refused exactly when the layers together lack a setting   *)
(* or contradict each other, whichever step finds out: what the steps test  *)
(* of the settings as they stand is what file and environment mean, field   *)
(* by field (_apply_env_overrides, load_config, the validators).            *)
THEOREM RefusalsAreJustified == ConfigSpec => []RefusedForAReason
<1>1. ASSUME ConfigIInv, Layered, ~Unreadable
      PROVE  Sound <=> SoundSource /\ SoundTunnel
  BY <1>1, TunnelChecks, SourceChecks DEF Sound, FaceAndBackendValid
<1>2. Unreadable => ~SoundTunnel
  BY UnreadableIsUnsound DEF SoundTunnel
<1>3. ASSUME ConfigIInv PROVE RefusedForAReason
  <2>1. CASE stage \in {"ready", "not_implemented"}
    BY <1>1, <1>3, <2>1 DEF ConfigIInv, Layered, RefusedForAReason
  <2>2. CASE stage = "refused"
    BY <1>1, <1>2, <1>3, <2>2 DEF ConfigIInv, RefusedForAReason
  <2> QED BY <2>1, <2>2 DEF RefusedForAReason
<1> QED BY <1>3, ConfigIInvHolds, PTL

-----------------------------------------------------------------------------
(* The service as a whole loads its configuration as Config does and runs   *)
(* its provider as DbSyncProvider does, so that what is proved of each      *)
(* holds of both together.                                                  *)
THEOREM ServiceIsBoth == ServiceSpec => ConfigSpec /\ Spec
<1>1. ServiceInit => ConfigInit /\ Init
  BY DEF ServiceInit
<1>2. [ServiceNext]_serviceVars => [ConfigNext]_configVars /\ [Next]_vars
  BY DEF ServiceNext, Serving, serviceVars, configVars, vars
<1> QED BY <1>1, <1>2, PTL DEF ServiceSpec, ConfigSpec, Spec

(* What the service talks to and with which key is what its layers say, it  *)
(* is refused only for a reason, and while it runs the provider's promises  *)
(* hold: of the behaviours that load a configuration and then serve.        *)
THEOREM ServiceIsSound ==
  ServiceSpec =>
    /\ [](EnvironmentOverFile /\ FallbackKey /\ RefusedForAReason)
    /\ [](ConnectedWhileServing /\ NothingLeftOpen /\ NoHoldAndWait)
BY ServiceIsBoth, EnvironmentWins, FallbackKeyIsMeant, RefusalsAreJustified,
   ServesConnected, NothingIsLeftOpen, NoRequestHoldsAndWaits, PTL
=============================================================================
