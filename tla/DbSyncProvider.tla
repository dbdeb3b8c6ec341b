--------------------------- MODULE DbSyncProvider ---------------------------
(***************************************************************************)
(* The db-sync provider: it opens an SSH tunnel, if one is configured, and  *)
(* through it a pool of connections, when the server starts; requests       *)
(* borrow a connection for each of their queries; at shutdown the pool and  *)
(* the tunnel are closed again.  Each step of this is awaited and may fail, *)
(* and the tunnel may be lost at any time.                                  *)
(***************************************************************************)
EXTENDS Naturals

CONSTANTS
  Requests,     \* bound: the requests that ever arrive
  Connections,  \* the pool's connections, five in the code
  NoOne,        \* not a request: holds the connections that are free
  MaxQueries,   \* bound: queries of one request
  Tunnelled     \* ssh_tunnel is configured and enabled

ASSUME DbSyncAssumption ==
  /\ NoOne \notin Requests
  /\ Connections # {}
  /\ MaxQueries \in Nat \ {0}
  /\ Tunnelled \in BOOLEAN

VARIABLES
  server,  \* where lifespan, connect and aclose stand
  pool,    \* the pool; _pool is None in "none" and "closed" only
  tunnel,  \* the tunnel; _tunnel is None in "none" and "stopped" only
  holder,  \* who holds each of the pool's connections
  at,      \* where a request stands: "away", "waiting" for a connection,
           \* "querying", "answered"
  asked    \* the queries a request has made

vars == <<server, pool, tunnel, holder, at, asked>>

TypeOK ==
  /\ server \in {"connect", "create_pool", "probe", "cleanup", "failed",
                 "serving", "draining", "close_pool", "stop_tunnel", "down"}
  /\ pool \in {"none", "open", "closed", "terminated"}
  /\ tunnel \in {"none", "up", "lost", "stopped"}
  /\ holder \in [Connections -> Requests \cup {NoOne}]
  /\ at \in [Requests -> {"away", "waiting", "querying", "answered"}]
  /\ asked \in [Requests -> 0 .. MaxQueries]

Init ==
  /\ server = "connect" /\ pool = "none" /\ tunnel = "none"
  /\ holder = [c \in Connections |-> NoOne]
  /\ at = [r \in Requests |-> "away"]
  /\ asked = [r \in Requests |-> 0]

requestVars == <<holder, at, asked>>

(* The database cannot be reached through a lost tunnel.                    *)
Reachable == tunnel \in {"none", "up"}

-----------------------------------------------------------------------------
(* Startup: connect().                                                      *)

OpenTunnel ==
  /\ server = "connect"
  /\ IF Tunnelled
     THEN \/ server' = "create_pool" /\ tunnel' = "up"
          \/ server' = "failed" /\ UNCHANGED tunnel
     ELSE server' = "create_pool" /\ UNCHANGED tunnel
  /\ UNCHANGED <<pool, requestVars>>

CreatePool ==
  /\ server = "create_pool"
  /\ \/ Reachable /\ pool' = "open" /\ server' = "probe"
     \/ pool' = pool /\ server' = "cleanup"
  /\ UNCHANGED <<tunnel, requestVars>>

(* Once connect() is through, requests are let in.                          *)
Probe ==
  /\ server = "probe"
  /\ server' \in IF Reachable THEN {"serving", "cleanup"} ELSE {"cleanup"}
  /\ UNCHANGED <<pool, tunnel, requestVars>>

StopTunnel == tunnel' = IF tunnel \in {"up", "lost"} THEN "stopped" ELSE tunnel

(* Mutants: the exception is logged and not raised again; the tunnel is     *)
(* not stopped.                                                             *)
CleanupSwallows ==
  /\ server = "cleanup" /\ server' = "serving"
  /\ StopTunnel
  /\ UNCHANGED <<pool, requestVars>>

CleanupForgets ==
  /\ server = "cleanup" /\ server' = "failed"
  /\ UNCHANGED <<pool, tunnel, requestVars>>

(* What connect() opened before it failed; a pool whose probe failed stays. *)
Cleanup ==
  /\ server = "cleanup" /\ server' = "failed"
  /\ StopTunnel
  /\ UNCHANGED <<pool, requestVars>>

-----------------------------------------------------------------------------
(* Requests.                                                                *)

Arrive(r) ==
  /\ server = "serving" /\ at[r] = "away"
  /\ at' = [at EXCEPT ![r] = "waiting"]
  /\ UNCHANGED <<server, pool, tunnel, holder, asked>>

(* pool.acquire() waits, without a timeout, until a connection is free; it  *)
(* fails when a lost one cannot be opened again.                            *)
Acquire(r) ==
  /\ at[r] = "waiting"
  /\ \E c \in Connections :
       /\ holder[c] = NoOne
       /\ \/ holder' = [holder EXCEPT ![c] = r] /\ at' = [at EXCEPT ![r] = "querying"]
          \/ UNCHANGED holder /\ at' = [at EXCEPT ![r] = "answered"]
  /\ UNCHANGED <<server, pool, tunnel, asked>>

Released(r) == [c \in Connections |-> IF holder[c] = r THEN NoOne ELSE holder[c]]

(* Mutant: the connection of one query is kept while the next is made.      *)
FetchNested(r) ==
  /\ at[r] = "querying" /\ asked[r] < MaxQueries
  /\ asked' = [asked EXCEPT ![r] = @ + 1]
  /\ \/ /\ at' = [at EXCEPT ![r] = "answered"] /\ holder' = Released(r)
     \/ /\ Reachable /\ asked[r] + 1 < MaxQueries
        /\ at' = [at EXCEPT ![r] = "waiting"] /\ UNCHANGED holder
  /\ UNCHANGED <<server, pool, tunnel>>

(* A query ends, the connection goes back; the handler answers, with a row, *)
(* an error or 404, or goes on to its next query.                           *)
Fetch(r) ==
  /\ at[r] = "querying" /\ asked[r] < MaxQueries
  /\ asked' = [asked EXCEPT ![r] = @ + 1]
  /\ holder' = Released(r)
  /\ \/ at' = [at EXCEPT ![r] = "answered"]
     \/ /\ Reachable /\ asked[r] + 1 < MaxQueries
        /\ at' = [at EXCEPT ![r] = "waiting"]
  /\ UNCHANGED <<server, pool, tunnel>>

TunnelLost ==
  /\ tunnel = "up" /\ tunnel' = "lost"
  /\ UNCHANGED <<server, pool, requestVars>>

-----------------------------------------------------------------------------
(* Shutdown: the server lets no more requests in and waits for those it     *)
(* has before it runs the end of lifespan, aclose().                        *)

Stop ==
  /\ server = "serving" /\ server' = "draining"
  /\ UNCHANGED <<pool, tunnel, requestVars>>

Drain ==
  /\ server = "draining"
  /\ \A r \in Requests : at[r] \in {"away", "answered"}
  /\ server' = "close_pool"
  /\ UNCHANGED <<pool, tunnel, requestVars>>

(* pool.close() waits for the connections that are held; when it raises it  *)
(* has terminated them, and aclose() ends there.                            *)
ClosePool ==
  /\ server = "close_pool"
  /\ \A c \in Connections : holder[c] = NoOne
  /\ \/ pool' = "closed" /\ server' = "stop_tunnel"
     \/ pool' = "terminated" /\ server' = "down"
  /\ UNCHANGED <<tunnel, requestVars>>

(* stop_ssh_tunnel logs an error of the forwarder and goes on.              *)
CloseTunnel ==
  /\ server = "stop_tunnel" /\ server' = "down"
  /\ StopTunnel
  /\ UNCHANGED <<pool, requestVars>>

-----------------------------------------------------------------------------
Server == OpenTunnel \/ CreatePool \/ Probe \/ Cleanup \/ Drain \/ ClosePool \/ CloseTunnel

Serve(r) == Acquire(r) \/ Fetch(r)

Next ==
  \/ Server
  \/ \E r \in Requests : Arrive(r) \/ Serve(r)
  \/ Stop
  \/ TunnelLost

Spec == Init /\ [][Next]_vars

(* The event loop runs what is ready, and a query ends: PostgreSQL answers  *)
(* or the connection breaks; the pool has no timeout of its own.  Nobody    *)
(* has to send a request or stop the server.                                *)
FairSpec == Spec /\ WF_vars(Server) /\ \A r \in Requests : WF_vars(Serve(r))

-----------------------------------------------------------------------------
(* Properties                                                               *)

(* A request that needs the database finds an open pool, over a tunnel that *)
(* Janus has not stopped, if one is configured.  So none ever connects      *)
(* lazily, which two of them at once would do twice (_pool_or_raise).       *)
ConnectedWhileServing ==
  \A r \in Requests : at[r] \in {"waiting", "querying"} =>
    /\ pool = "open"
    /\ tunnel \in IF Tunnelled THEN {"up", "lost"} ELSE {"none"}

(* What was opened is closed: a start that fails leaves no tunnel, and a    *)
(* shutdown neither pool nor tunnel, nor a request that waits, unless       *)
(* pool.close() raised (connect's except, aclose).                          *)
NothingLeftOpen ==
  /\ server = "failed" => tunnel \in {"none", "stopped"}
  /\ server = "down" /\ pool # "terminated" =>
       /\ pool = "closed" /\ tunnel \in {"none", "stopped"}
       /\ \A r \in Requests : at[r] \in {"away", "answered"}

(* No hold and wait: a connection is held by a request whose query runs on  *)
(* it, such a request holds one, and one that waits for the pool or is      *)
(* answered holds none (the async with of _fetch and _fetchrow).            *)
NoHoldAndWait ==
  \A r \in Requests :
    IF at[r] = "querying"
    THEN \E c \in Connections : \A d \in Connections : holder[d] = r <=> d = c
    ELSE \A c \in Connections : holder[c] # r

(* However few the connections, requests do not wait for each other for     *)
(* ever: each that waits for one is answered (_fetch, _fetchrow).           *)
RequestsEnd == \A r \in Requests : (at[r] = "waiting") ~> (at[r] = "answered")

(* A server told to stop stops.                                             *)
ShutdownEnds == (server = "draining") ~> (server = "down")
=============================================================================
