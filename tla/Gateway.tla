------------------------------ MODULE Gateway -------------------------------
(***************************************************************************)
(* The path of a request through Janus Gate over an HTTP backend: the three *)
(* middlewares in the order create_app (app.py) stacks them, the router,    *)
(* the face handler with its upstream calls, and the way back.              *)
(*                                                                         *)
(*    AccessMiddleware > AuditMiddleware > ApiKeyMappingMiddleware > route  *)
(*                                                                         *)
(* One event loop runs every request; requests interleave wherever the code *)
(* awaits, and what runs between two awaits is one action.  The audit pages *)
(* are requests themselves and share the AuditStore with the middleware.    *)
(***************************************************************************)
EXTENDS Integers, Sequences, FiniteSets

CONSTANTS
  Requests,     \* the requests of a behaviour
  Traffic,      \* what clients may send: a set of Sent records
  Ips,          \* client addresses
  NoIp,         \* no X-Real-IP / X-Forwarded-For header
  PublicKeys,   \* API keys of the public face
  NoKey,        \* no API key: in a request, or towards the backend
  BackendKeys,  \* API keys of the backend
  Unset,        \* the context variable's default
  MyIp,         \* SESSION_ID_MY_IP, "myIP"
  KeyMap,       \* auth.key_map: some public keys' backend keys (NoKey: blank)
  Fallback,     \* auth.fallback_backend_key, NoKey when there is none
  AllowedIps,   \* the addresses access.allowed_ips covers, {} for no filter
  DenyMode,     \* access.deny: "endpoints" or "strict"
  AccessHops, AuditHops,  \* trusted_proxy_hops of the two middlewares
  AuditEnabled, \* audit.enabled
  MaxCalls,     \* bound on the upstream calls of one handler
  Ttl, MaxEvents, MaxTime, Monotonic   \* see AuditStore

(* The routes, by what the middlewares and the router tell apart.           *)
Routes == {"face",     \* an implemented route of the public face
           "submit",   \* the one that submits a transaction
           "planned",  \* in the catalog, not implemented
           "unknown",  \* not in the catalog
           "start",    \* GET /audit/start with a sessionID
           "report",   \* GET /audit/report
           "open"}     \* home, /health, /endpoints, OpenAPI

BindKeys == Ips \cup PublicKeys

Sent == [peer   : Ips,
         fwd    : Ips \cup {NoIp},
         key    : PublicKeys \cup {NoKey},
         route  : Routes,
         target : BindKeys \cup {MyIp}]    \* sessionID, for the audit pages

ASSUME GatewayAssumption ==
  /\ Traffic \subseteq Sent
  /\ NoIp \notin Ips
  /\ NoKey \notin PublicKeys \cup BackendKeys \cup Ips
  /\ Unset \notin BackendKeys \cup {NoKey}
  /\ MyIp \notin BindKeys
  /\ DOMAIN KeyMap \subseteq PublicKeys
  /\ KeyMap \in [DOMAIN KeyMap -> BackendKeys \cup {NoKey}]
  /\ Fallback \in BackendKeys \cup {NoKey}
  /\ AllowedIps \subseteq Ips
  /\ DenyMode \in {"endpoints", "strict"}
  /\ AccessHops \in Nat /\ AuditHops \in Nat
  /\ AuditEnabled \in BOOLEAN
  /\ MaxCalls \in Nat
  /\ Ttl \in Nat \ {0} /\ MaxEvents \in Nat \ {0} /\ MaxTime \in Nat
  /\ Monotonic \in BOOLEAN

Statuses == {"none", "ok", "notfound", "client", "server", "denied"}

(* The body of an answer: face-shaped JSON, FastAPI's own {"detail": ...},  *)
(* the plain text of an exception nothing handled, a page or resource.      *)
Bodies == {"none", "resource", "face", "detail", "plain"}

Answer(s, b) == [status |-> s, body |-> b]

Labels == {"ok", "warn", "fail", "unknown"}

Payloads == [req : Requests, label : Labels]

VARIABLES
  pc,        \* where each request is
  sent,      \* what its client sent
  ctx,       \* its context variable: in the auth middleware and in the route
  wire,      \* the upstream calls made, each with the API key it carried
             \* and what became of the transaction it submits
  answer,    \* its answer so far
  clock, sessions, reply,   \* the audit store
  since,     \* history: the requests that arrived since each key's last start
  before     \* history: the requests answered before each key's last start

Store == INSTANCE AuditStore WITH Keys <- BindKeys

requestVars == <<pc, sent, ctx, wire, answer>>
vars == <<pc, sent, ctx, wire, answer, clock, sessions, reply, since, before>>

Stages == {"away", "access", "auth", "route", "upstream", "unmap", "record",
           "leaving", "done"}

(* A call's transaction: none, not decided yet, in the backend's mempool.   *)
Fates == {"none", "open", "taken", "refused"}

Calls == [req : Requests, n : 1 .. MaxCalls, key : BackendKeys \cup {NoKey}, tx : Fates]

TypeOK ==
  /\ pc \in [Requests -> Stages]
  /\ DOMAIN sent = {r \in Requests : pc[r] # "away"}
  /\ sent \in [DOMAIN sent -> Traffic]
  /\ ctx \in [Requests -> [auth : BackendKeys \cup {NoKey, Unset},
                           app  : BackendKeys \cup {NoKey, Unset}]]
  /\ wire \subseteq Calls
  /\ answer \in [Requests -> [status : Statuses, body : Bodies]]
  /\ since \in [BindKeys -> SUBSET Requests]
  /\ before \in [BindKeys -> SUBSET Requests]
  /\ Store!StoreTypeOK

Init ==
  /\ pc = [r \in Requests |-> "away"]
  /\ sent = [r \in {} |-> NoIp]
  /\ ctx = [r \in Requests |-> [auth |-> Unset, app |-> Unset]]
  /\ wire = {}
  /\ answer = [r \in Requests |-> Answer("none", "none")]
  /\ since = [k \in BindKeys |-> {}]
  /\ before = [k \in BindKeys |-> {}]
  /\ Store!StoreInit

-----------------------------------------------------------------------------
(* client_ip_from_request: the proxy's headers count when hops are trusted. *)
ClientIp(q, hops) == IF hops >= 1 /\ q.fwd # NoIp THEN q.fwd ELSE q.peer

AuditIp(r) == ClientIp(sent[r], AuditHops)

(* AccessMiddleware.dispatch: who is let through.                          *)
Admitted(q) ==
  \/ AllowedIps = {}
  \/ DenyMode = "endpoints" /\ q.route = "open"
  \/ ClientIp(q, AccessHops) \in AllowedIps

(* resolve_auth: the mapped key, else the fallback.                        *)
BackendKeyOf(key) == IF key \in DOMAIN KeyMap THEN KeyMap[key] ELSE Fallback

(* get_backend_api_key: unset outside a mapped request.                    *)
CurrentKey(value) == IF value = Unset THEN Fallback ELSE value

(* _SKIP_AUTH_PATHS and _SKIP_AUDIT_PATHS hold the same Janus-native paths. *)
Skipped(q) == q.route \in {"start", "report", "open"}

Implemented == {"face", "submit"}

(* match_catalog_entry and label_event.                                    *)
LabelOf(q, status) ==
  CASE q.route = "unknown"                              -> "unknown"
    [] q.route = "planned"                              -> "fail"
    [] q.route \in Implemented /\ status \in {"ok", "notfound"} -> "ok"
    [] q.route \in Implemented /\ status = "client"     -> "warn"
    [] OTHER                                            -> "fail"

Raised(r) == answer[r].body = "plain"

Move(r, from, to) == pc[r] = from /\ pc' = [pc EXCEPT ![r] = to]

StoreUnchanged == UNCHANGED <<clock, sessions, reply, since, before>>

-----------------------------------------------------------------------------
(* A client's request reaches the server.                                  *)
Arrive(r, q) ==
  /\ Move(r, "away", "access")
  /\ sent' = [x \in DOMAIN sent \cup {r} |-> IF x = r THEN q ELSE sent[x]]
  /\ since' = [k \in BindKeys |-> since[k] \cup {r}]
  /\ UNCHANGED <<ctx, wire, answer, clock, sessions, reply, before>>

(* Mutant: AuditMiddleware is added last and so runs outermost.            *)
AdmitInsideAudit(r) ==
  /\ pc[r] = "access"
  /\ IF Admitted(sent[r])
     THEN Move(r, "access", "auth") /\ UNCHANGED answer
     ELSE /\ Move(r, "access", "record")
          /\ answer' = [answer EXCEPT ![r] = Answer("denied", "face")]
  /\ UNCHANGED <<sent, ctx, wire>> /\ StoreUnchanged

(* AccessMiddleware.dispatch up to call_next, and AuditMiddleware.dispatch  *)
(* up to its own, which touches nothing shared; or the 403 of the former,   *)
(* which no inner middleware sees.                                         *)
Admit(r) ==
  /\ pc[r] = "access"
  /\ IF Admitted(sent[r])
     THEN Move(r, "access", "auth") /\ UNCHANGED answer
     ELSE /\ Move(r, "access", "leaving")
          /\ answer' = [answer EXCEPT ![r] = Answer("denied", "face")]
  /\ UNCHANGED <<sent, ctx, wire>> /\ StoreUnchanged

(* Mutant: the route's task is started before the variable is set.         *)
MapKeyLate(r) ==
  /\ Move(r, "auth", "route")
  /\ LET value == IF Skipped(sent[r]) THEN ctx[r].auth
                                      ELSE BackendKeyOf(sent[r].key)
     IN  ctx' = [ctx EXCEPT ![r] = [auth |-> value, app |-> ctx[r].auth]]
  /\ UNCHANGED <<sent, wire, answer>> /\ StoreUnchanged

(* ApiKeyMappingMiddleware.dispatch up to call_next: set the context        *)
(* variable; call_next runs the route in a task with a copy of the context. *)
MapKey(r) ==
  /\ Move(r, "auth", "route")
  /\ LET value == IF Skipped(sent[r]) THEN ctx[r].auth
                                      ELSE BackendKeyOf(sent[r].key)
     IN  ctx' = [ctx EXCEPT ![r] = [auth |-> value, app |-> value]]
  /\ UNCHANGED <<sent, wire, answer>> /\ StoreUnchanged

(* The route answers: with a resource or an error the face's exception      *)
(* handlers shape, with the router's own 404 or 405, or with an exception nothing  *)
(* handles, which the server turns into a plain 500.                       *)
Finish(r, a) ==
  /\ Move(r, "route", "unmap")
  /\ answer' = [answer EXCEPT ![r] = a]
  /\ UNCHANGED <<sent, ctx, wire>>

FaceAnswers == {Answer("ok", "resource"), Answer("server", "plain")}
               \cup {Answer(s, "face") : s \in {"notfound", "client", "server"}}

(* A face handler may answer at any point: on a validation error before any *)
(* call, after a failed call, with a mapping error, or after its last one.  *)
HandleFace(r) ==
  /\ sent[r].route = "face"
  /\ \E a \in FaceAnswers : Finish(r, a)
  /\ StoreUnchanged

HandleUnrouted(r) ==
  /\ sent[r].route \in {"planned", "unknown"}
  /\ \E s \in {"notfound", "client"} : Finish(r, Answer(s, "detail"))
  /\ StoreUnchanged

HandleOpen(r) ==
  /\ sent[r].route = "open"
  /\ Finish(r, Answer("ok", "resource"))
  /\ StoreUnchanged

(* The key an audit page is about: sessionID, or the client's address for   *)
(* sessionID=myIP (resolve_report_session_id).                             *)
BoundTo(r) == IF sent[r].target = MyIp THEN AuditIp(r) ELSE sent[r].target

(* start_session_from_request.                                             *)
StartSession(r) ==
  LET k == BoundTo(r)
  IN  /\ Store!Start(k)
      /\ since' = [since EXCEPT ![k] = {}]
      /\ before' = [before EXCEPT ![k] = {x \in Requests : pc[x] = "done"}]

(* audit_start_response: refused when the audit is disabled.               *)
HandleStart(r) ==
  /\ sent[r].route = "start"
  /\ Finish(r, Answer(IF AuditEnabled THEN "ok" ELSE "client", "resource"))
  /\ IF AuditEnabled THEN StartSession(r) ELSE StoreUnchanged

(* audit_report_response.                                                  *)
HandleReport(r) ==
  /\ sent[r].route = "report"
  /\ Store!Get(BoundTo(r))
  /\ Finish(r, Answer(IF reply'.found THEN "ok" ELSE "notfound", "resource"))
  /\ UNCHANGED <<since, before>>

CallsOf(r) == {w \in wire : w.req = r}

(* HttpProvider.request up to its await: the key is read from the context.  *)
CallUpstream(r) ==
  /\ sent[r].route \in Implemented
  /\ Cardinality(CallsOf(r)) < MaxCalls
  /\ Move(r, "route", "upstream")
  /\ wire' = wire \cup {[req |-> r, n |-> Cardinality(CallsOf(r)) + 1,
                         key |-> CurrentKey(ctx[r].app),
                         tx |-> IF sent[r].route = "submit" THEN "open" ELSE "none"]}
  /\ UNCHANGED <<sent, ctx, answer>> /\ StoreUnchanged

(* The backend answers and the handler runs again.                         *)
BackendAnswers(r) ==
  /\ Move(r, "upstream", "route") /\ sent[r].route = "face"
  /\ UNCHANGED <<sent, ctx, wire, answer>> /\ StoreUnchanged

(* Mutant: the handler swallows the timeout and waits on.                  *)
UpstreamWaitsOn(r) ==
  /\ Move(r, "upstream", "upstream") /\ sent[r].route = "face"
  /\ UNCHANGED <<sent, ctx, wire, answer>> /\ StoreUnchanged

(* httpx gives up after 60 s; ProviderError(504) is raised in the handler.  *)
UpstreamTimeout(r) ==
  /\ Move(r, "upstream", "route") /\ sent[r].route = "face"
  /\ UNCHANGED <<sent, ctx, wire, answer>> /\ StoreUnchanged

(* A submit handler refuses an empty body before any call.                  *)
HandleEmpty(r) ==
  /\ sent[r].route = "submit" /\ CallsOf(r) = {}
  /\ Finish(r, Answer("client", "face"))
  /\ StoreUnchanged

(* The backend decides on a submitted transaction whether or not the call   *)
(* is still waited for.  What it has taken once it refuses another time.    *)
BackendDecides(w) ==
  /\ w.tx = "open"
  /\ \E fate \in {"taken", "refused"} :
       /\ fate = "taken" => \A x \in CallsOf(w.req) : x.tx # "taken"
       /\ wire' = (wire \ {w}) \cup {[w EXCEPT !.tx = fate]}
  /\ UNCHANGED <<pc, sent, ctx, answer>> /\ StoreUnchanged

(* The end of a submit handler: nothing runs between the call and that.     *)
SubmitEnds(r, a) ==
  /\ Move(r, "upstream", "unmap") /\ sent[r].route = "submit"
  /\ answer' = [answer EXCEPT ![r] = a]
  /\ UNCHANGED <<sent, ctx, wire>> /\ StoreUnchanged

(* What the backend answers is passed on: the hash of the transaction, a    *)
(* refusal as what it is, an error - its own or of a proxy before it - as a *)
(* server error; JSON that is not makes a mapping error.                    *)
SubmitAnswered(r) ==
  \/ \E w \in CallsOf(r) :
       /\ w.n = Cardinality(CallsOf(r)) /\ w.tx \in {"taken", "refused"}
       /\ SubmitEnds(r, IF w.tx = "taken" THEN Answer("ok", "resource")
                                         ELSE Answer("client", "face"))
  \/ SubmitEnds(r, Answer("server", "face"))

(* Mutant: a timeout is tried once more.                                    *)
SubmitRetries(r) ==
  /\ Move(r, "upstream", "route") /\ sent[r].route = "submit"
  /\ UNCHANGED <<sent, ctx, wire, answer>> /\ StoreUnchanged

(* The same timeout, while nobody knows what becomes of the transaction.    *)
SubmitTimeout(r) == SubmitEnds(r, Answer("server", "face"))

(* Any other httpx exception - the connection fails - is nobody's to handle. *)
SubmitLost(r) == SubmitEnds(r, Answer("server", "plain"))

(* ApiKeyMappingMiddleware.dispatch after call_next: the finally clause     *)
(* resets the variable, whether the route answered or raised.              *)
Unmap(r) ==
  /\ Move(r, "unmap", "record")
  /\ ctx' = [ctx EXCEPT ![r].auth = Unset]
  /\ UNCHANGED <<sent, wire, answer>> /\ StoreUnchanged

(* Mutant: the peer's address is used, not the one the proxy reports.      *)
RecordPeer(r) ==
  /\ Move(r, "record", "leaving")
  /\ IF AuditEnabled /\ ~Skipped(sent[r]) /\ ~Raised(r)
     THEN Store!RecordForKeys(sent[r].peer, sent[r].key,
            [req |-> r, label |-> LabelOf(sent[r], answer[r].status)])
     ELSE UNCHANGED <<clock, sessions, reply>>
  /\ UNCHANGED <<sent, ctx, wire, answer, since, before>>

(* AuditMiddleware.dispatch after call_next: an answer is recorded under    *)
(* the client's address and its public key; an exception passes through     *)
(* the await, so nothing after it runs.                                    *)
Record(r) ==
  /\ Move(r, "record", "leaving")
  /\ IF AuditEnabled /\ ~Skipped(sent[r]) /\ ~Raised(r)
     THEN Store!RecordForKeys(AuditIp(r), sent[r].key,
            [req |-> r, label |-> LabelOf(sent[r], answer[r].status)])
     ELSE UNCHANGED <<clock, sessions, reply>>
  /\ UNCHANGED <<sent, ctx, wire, answer, since, before>>

(* The answer reaches the client.                                          *)
Respond(r) ==
  /\ Move(r, "leaving", "done")
  /\ UNCHANGED <<sent, ctx, wire, answer>> /\ StoreUnchanged

PassTime == Store!Tick /\ UNCHANGED <<requestVars, since, before>>

Handle(r) ==
  /\ pc[r] = "route"
  /\ \/ HandleFace(r) \/ HandleUnrouted(r) \/ HandleOpen(r)
     \/ HandleStart(r) \/ HandleReport(r) \/ HandleEmpty(r) \/ CallUpstream(r)

Step(r) ==
  \/ Admit(r) \/ MapKey(r) \/ Handle(r) \/ UpstreamTimeout(r) \/ SubmitTimeout(r)
  \/ Unmap(r) \/ Record(r) \/ Respond(r)

Next ==
  \/ \E r \in Requests, q \in Traffic : Arrive(r, q)
  \/ \E r \in Requests :
       Step(r) \/ BackendAnswers(r) \/ SubmitAnswered(r) \/ SubmitLost(r)
  \/ \E w \in wire : BackendDecides(w)
  \/ PassTime

Spec == Init /\ [][Next]_vars

(* The event loop runs every ready task, and httpx's timeout fires.  Nothing *)
(* is assumed of clients and backends: they may stay silent.               *)
FairSpec == Spec /\ \A r \in Requests : WF_vars(Step(r))

-----------------------------------------------------------------------------
(* What a session's events say.                                            *)
Entries(k) == {sessions[k].events[i].what : i \in DOMAIN sessions[k].events}

Recorded(k) == {entry.req : entry \in Entries(k)}

(* The bind keys of a request: the client's address and its public key.     *)
KeysOf(r) == {AuditIp(r), sent[r].key} \ {NoKey}

Answered(r) == pc[r] = "done"

(* An upstream call carries the backend key its own client's public key     *)
(* maps to - the fallback only when it maps to none, no key when it maps to *)
(* a blank one - however the requests interleave (auth.py, _auth_headers).  *)
OwnKeyUpstream == \A w \in wire : w.key = BackendKeyOf(sent[w.req].key)

(* A request that access.allowed_ips denies makes no upstream call and is   *)
(* in no report (AccessMiddleware is outermost), also when the two          *)
(* middlewares trust different numbers of proxies.                          *)
DeniedLeavesNoTrace ==
  \A r \in Requests : answer[r].status = "denied" =>
    /\ \A w \in wire : w.req # r
    /\ \A k \in DOMAIN sessions : r \notin Recorded(k)

(* What a report shows is true: each entry is a request that was let        *)
(* through, matched the bind key, got its answer and not an unhandled       *)
(* error, was not already answered when the audit was started, and is       *)
(* labelled by that answer; none is there twice (AuditMiddleware.dispatch,  *)
(* AuditStore.start).                                                      *)
ReportSound ==
  \A k \in DOMAIN sessions :
    /\ \A entry \in Entries(k) :
         /\ k \in KeysOf(entry.req)
         /\ Admitted(sent[entry.req])
         /\ pc[entry.req] \in {"leaving", "done"}
         /\ ~Raised(entry.req)
         /\ entry.req \notin before[k]
         /\ entry.label = LabelOf(sent[entry.req], answer[entry.req].status)
    /\ \A i, j \in DOMAIN sessions[k].events :
         sessions[k].events[i].what = sessions[k].events[j].what => i = j

Auditable(r) ==
  /\ AuditEnabled
  /\ answer[r].status # "denied"
  /\ sent[r].route \in Implemented \cup {"planned", "unknown"}

InReport(r, k) == r \in Recorded(k) \/ sessions[k].truncated

(* A client that has its answer finds the request in the report: while the  *)
(* audit runs, every matching request sent after its start and answered     *)
(* other than by an unhandled error is recorded, or the report says that    *)
(* some were dropped.  The record is made before the answer leaves.         *)
AnsweredIsReported ==
  \A k \in Store!Live : \A r \in since[k] :
    Answered(r) /\ Auditable(r) /\ k \in KeysOf(r) /\ ~Raised(r) => InReport(r, k)

(* The promise of the audit page taken whole: "Janus records the requests   *)
(* that match your chosen bind key", those answered with a server error     *)
(* included.                                                               *)
EveryAnswerIsReported ==
  \A k \in Store!Live : \A r \in since[k] :
    Answered(r) /\ Auditable(r) /\ k \in KeysOf(r) => InReport(r, k)

(* "Public errors are face-shaped, not FastAPI {"detail": ...}"             *)
(* (docs/api-comparison/fidelity.md).                                      *)
ErrorsAreNotFastApis == \A r \in Requests : answer[r].body # "detail"

(* What a submit answers is so: with a hash the backend has taken the       *)
(* transaction; with a client error it has not and will not, so that the    *)
(* client may correct and send it again.  A timeout or a server error says  *)
(* neither (submit_tx is called once: a second call would be refused for    *)
(* what the first one did).                                                 *)
SubmitAnswerIsTrue ==
  \A r \in DOMAIN sent : sent[r].route = "submit" =>
    /\ answer[r].status = "ok" => \E w \in CallsOf(r) : w.tx = "taken"
    /\ answer[r].status = "client" => \A w \in CallsOf(r) : w.tx = "refused"

(* A request that reached the server is answered.                          *)
RequestsAreAnswered == \A r \in Requests : (pc[r] = "access") ~> Answered(r)
=============================================================================
