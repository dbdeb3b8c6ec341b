----------------------------- MODULE AuditStore -----------------------------
(***************************************************************************)
(* The in-process store of compatibility-audit sessions: class AuditStore   *)
(* of src/janus_gate/audit.py.                                              *)
(*                                                                         *)
(* One dict maps a bind key - a client IP or a public API key, both plain   *)
(* strings in the same dict - to the session it started.  Every operation   *)
(* reads time.time(), takes the lock, purges the expired sessions and then  *)
(* does its work without yielding, so each is one action.  The clock is the *)
(* wall clock: it may be set back while the process runs.                   *)
(***************************************************************************)
EXTENDS Integers, Sequences

CONSTANTS
  Keys,       \* the strings sessions are keyed by: client IPs, public API keys
  NoKey,      \* stands for a request that carries no public API key
  Payloads,   \* what an event says of its request (method, path, status, label)
  Ttl,        \* session_ttl_minutes
  MaxEvents,  \* max_events_per_session
  MaxTime,    \* bound on the clock
  Monotonic   \* FALSE when the wall clock may also be set back

ASSUME AuditStoreAssumption ==
  /\ NoKey \notin Keys
  /\ Ttl \in Nat \ {0}          \* AuditConfig: session_ttl_minutes ge=1
  /\ MaxEvents \in Nat \ {0}    \* AuditConfig: max_events_per_session ge=1
  /\ MaxTime \in Nat
  /\ Monotonic \in BOOLEAN

VARIABLES
  clock,      \* what time.time() returns
  sessions,   \* AuditStore._sessions: a dict, its DOMAIN the keys present
  reply       \* what the last get() returned, as a report shows it

storeVars == <<clock, sessions, reply>>

Times == 0 .. MaxTime

Event == [what : Payloads, ts : Times]

Session == [started_at : Times,
            expires_at : Nat,
            events     : Seq(Event),
            truncated  : BOOLEAN]

Reply == [key       : Keys \cup {NoKey},
          found     : BOOLEAN,
          events    : Seq(Event),
          truncated : BOOLEAN]

NothingFound(k) == [key |-> k, found |-> FALSE, events |-> <<>>, truncated |-> FALSE]

StoreTypeOK ==
  /\ clock \in Times
  /\ DOMAIN sessions \subseteq Keys
  /\ sessions \in [DOMAIN sessions -> Session]
  /\ reply \in Reply

StoreInit ==
  /\ clock \in Times
  /\ sessions = [k \in {} |-> NothingFound(k)]
  /\ reply = NothingFound(NoKey)

-----------------------------------------------------------------------------
(* _purge_locked: a session is kept while its deadline lies ahead.         *)
Live == {k \in DOMAIN sessions : sessions[k].expires_at > clock}

Purged == [k \in Live |-> sessions[k]]

NewSession ==
  [started_at |-> clock, expires_at |-> clock + Ttl, events |-> <<>>, truncated |-> FALSE]

(* Mutant: setdefault instead of assignment, a running audit is kept.       *)
StartKeeps(k) ==
  /\ sessions' = [j \in Live \cup {k} |-> IF j \in Live THEN sessions[j]
                                                       ELSE NewSession]
  /\ UNCHANGED <<clock, reply>>

(* start(): the session under the key, if any, is replaced by a fresh one. *)
Start(k) ==
  /\ sessions' = [j \in Live \cup {k} |-> IF j = k THEN NewSession
                                                   ELSE sessions[j]]
  /\ UNCHANGED <<clock, reply>>

(* Mutant: an expired session is not returned, but not removed either.     *)
GetWithoutPurge(k) ==
  /\ sessions' = sessions
  /\ reply' = IF k \in Live
              THEN [key |-> k, found |-> TRUE, events |-> sessions[k].events,
                    truncated |-> sessions[k].truncated]
              ELSE NothingFound(k)
  /\ UNCHANGED clock

(* get(): the caller renders the session before it yields.                 *)
Get(k) ==
  /\ sessions' = Purged
  /\ reply' = IF k \in Live
              THEN [key |-> k, found |-> TRUE, events |-> sessions[k].events,
                    truncated |-> sessions[k].truncated]
              ELSE NothingFound(k)
  /\ UNCHANGED clock

(* Mutants: one event too many; the payload logged without its timestamp.  *)
LoggedPastCap(s, e) ==
  IF Len(s.events) > MaxEvents THEN [s EXCEPT !.truncated = TRUE]
                               ELSE [s EXCEPT !.events = Append(@, e)]

LoggedBare(s, e) ==
  IF Len(s.events) >= MaxEvents THEN [s EXCEPT !.truncated = TRUE]
                                ELSE [s EXCEPT !.events = Append(@, e.what)]

(* One turn of record_for_keys' loop: over the cap the event is dropped and *)
(* the session marked.                                                     *)
Logged(s, e) ==
  IF Len(s.events) >= MaxEvents THEN [s EXCEPT !.truncated = TRUE]
                                ELSE [s EXCEPT !.events = Append(@, e)]

RecordFor(dict, k, e) ==
  IF k \in DOMAIN dict THEN [dict EXCEPT ![k] = Logged(@, e)] ELSE dict

(* Mutants: sessions are not purged first; the second key is forgotten.    *)
RecordUnpurged(ip, key, p) ==
  /\ LET e    == [what |-> p, ts |-> clock]
         byIp == RecordFor(sessions, ip, e)
     IN  sessions' = IF key = NoKey THEN byIp ELSE RecordFor(byIp, key, e)
  /\ UNCHANGED <<clock, reply>>

RecordByIpOnly(ip, key, p) ==
  /\ sessions' = RecordFor(Purged, ip, [what |-> p, ts |-> clock])
  /\ UNCHANGED <<clock, reply>>

(* record_for_keys() as the middleware calls it: the keys are the client IP *)
(* and then the public key if there is one.  The two strings may be equal. *)
RecordForKeys(ip, key, p) ==
  /\ LET e    == [what |-> p, ts |-> clock]
         byIp == RecordFor(Purged, ip, e)
     IN  sessions' = IF key = NoKey THEN byIp ELSE RecordFor(byIp, key, e)
  /\ UNCHANGED <<clock, reply>>

(* The wall clock: it advances, and unless Monotonic it may be set back.   *)
Tick ==
  /\ clock' \in Times \ {clock}
  /\ Monotonic => clock' > clock
  /\ UNCHANGED <<sessions, reply>>

StoreNext ==
  \/ \E k \in Keys : Start(k)
  \/ \E k \in Keys : Get(k)
  \/ \E ip \in Keys, key \in Keys \cup {NoKey}, p \in Payloads :
        RecordForKeys(ip, key, p)
  \/ Tick

(* The store in any use: whoever holds it calls its methods, one by one.    *)
StoreSpec == StoreInit /\ [][StoreNext]_storeVars

(* The events of a session lie within its lifetime and are in order.        *)
Timely(s) ==
  \A i \in DOMAIN s.events :
    /\ s.started_at <= s.events[i].ts
    /\ s.events[i].ts < s.expires_at
    /\ \A j \in DOMAIN s.events : i <= j => s.events[i].ts <= s.events[j].ts
=============================================================================
