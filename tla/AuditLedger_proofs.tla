-------------------------- MODULE AuditLedger_proofs ------------------------
(***************************************************************************)
(* Proofs about the audit store and its histories, for every number of      *)
(* keys, every cap and every time to live.                                  *)
(***************************************************************************)
EXTENDS AuditLedger, SequenceTheorems, TLAPS

USE AuditStoreAssumption, LedgerAssumption DEF AuditStoreAssumption, LedgerAssumption

-----------------------------------------------------------------------------
(* The store by itself.                                                    *)

(* Logging an event keeps a session's identity and its type.               *)
LEMMA LoggedType ==
  ASSUME NEW s \in Session, NEW e \in Event
  PROVE  /\ Logged(s, e) \in Session
         /\ Logged(s, e).started_at = s.started_at
         /\ Logged(s, e).expires_at = s.expires_at
         /\ \/ Logged(s, e).events = s.events
            \/ Logged(s, e).events = Append(s.events, e)
<1>1. s.events \in Seq(Event) /\ Append(s.events, e) \in Seq(Event)
  BY AppendProperties DEF Session
<1>2. CASE Len(s.events) >= MaxEvents
  <2>1. Logged(s, e) = [s EXCEPT !.truncated = TRUE]
    BY <1>2 DEF Logged
  <2> QED BY <2>1 DEF Session
<1>3. CASE ~(Len(s.events) >= MaxEvents)
  <2>1. Logged(s, e) = [s EXCEPT !.events = Append(s.events, e)]
    BY <1>3 DEF Logged
  <2> QED BY <1>1, <2>1 DEF Session
<1> QED BY <1>2, <1>3

(* What each operation does to the dict.                                   *)

(* record_for_keys keeps the sessions alive and logs the event once, twice  *)
(* or not at all in each.                                                  *)
LEMMA RecordEffect ==
  ASSUME StoreTypeOK, NEW ip \in Keys, NEW key \in Keys \cup {NoKey}, NEW p \in Payloads,
         RecordForKeys(ip, key, p), NEW e, e = [what |-> p, ts |-> clock]
  PROVE  /\ e \in Event
         /\ sessions' = [k \in Live |->
              IF k # ip /\ k # key THEN sessions[k]
              ELSE IF k = ip /\ k = key THEN Logged(Logged(sessions[k], e), e)
              ELSE Logged(sessions[k], e)]
<1>1. e \in Event
  BY DEF StoreTypeOK, Event
<1>2. RecordFor(Purged, ip, e) =
        [k \in Live |-> IF k = ip THEN Logged(sessions[k], e) ELSE sessions[k]]
  BY DEF RecordFor, Purged
<1> DEFINE byIp == RecordFor(Purged, ip, e)
<1>3. sessions' = IF key = NoKey THEN byIp ELSE RecordFor(byIp, key, e)
  BY DEF RecordForKeys
<1>4. CASE key = NoKey
  BY <1>1, <1>2, <1>3, <1>4 DEF Live, StoreTypeOK
<1>5. CASE key # NoKey
  <2>1. RecordFor(byIp, key, e) =
          [k \in Live |-> IF k = key THEN Logged(byIp[k], e) ELSE byIp[k]]
    BY <1>2 DEF RecordFor
  <2> HIDE DEF byIp
  <2> QED BY <1>1, <1>2, <1>3, <1>5, <2>1 DEF byIp
<1> QED BY <1>4, <1>5

-----------------------------------------------------------------------------
(***************************************************************************)
(* While the clock advances the lifetime of events is inductive once        *)
(* the sessions and their events are known to lie in the past: a new event  *)
(* then comes after all others.                                             *)
(***************************************************************************)
SoundSession(s, now) ==
  /\ s.started_at <= now
  /\ \A i \in DOMAIN s.events :
       /\ s.events[i].ts <= now
       /\ s.started_at <= s.events[i].ts
       /\ s.events[i].ts < s.expires_at
       /\ \A j \in DOMAIN s.events : i <= j => s.events[i].ts <= s.events[j].ts

LifetimeInv ==
  /\ StoreTypeOK
  /\ \A k \in DOMAIN sessions : SoundSession(sessions[k], clock)

(* An event of the present keeps a session sound whose deadline is ahead.  *)
LEMMA LoggedSound ==
  ASSUME NEW now \in Times, NEW s \in Session, SoundSession(s, now), s.expires_at > now,
         NEW e \in Event, e.ts = now
  PROVE  SoundSession(Logged(s, e), now)
<1>1. s.events \in Seq(Event) /\ s.started_at \in Times /\ s.expires_at \in Nat
  BY DEF Session
<1>2. CASE Logged(s, e).events = s.events
  BY <1>2, LoggedType DEF SoundSession
<1>3. CASE Logged(s, e).events = Append(s.events, e)
  <2> DEFINE t == Append(s.events, e)
             n == Len(s.events)
  <2>1. /\ DOMAIN t = 1 .. (n + 1) /\ DOMAIN s.events = 1 .. n /\ n \in Nat
        /\ t \in Seq(Event) /\ Len(t) = n + 1
    BY <1>1, AppendProperties, LenProperties
  <2>2. \A i \in 1 .. n : t[i] = s.events[i]
    BY <1>1, AppendProperties
  <2>3. t[n + 1] = e
    BY <1>1, AppendProperties
  <2>4. \A i \in 1 .. (n + 1) : t[i].ts \in Times
    <3>1. t \in [1 .. (n + 1) -> Event]
      BY <2>1, LenProperties
    <3> QED BY <3>1 DEF Event
  <2>5. Logged(s, e).events = t
    BY <1>3
  <2> HIDE DEF t
  <2>6. \A i \in 1 .. (n + 1) : t[i].ts <= now /\ s.started_at <= t[i].ts /\ t[i].ts < s.expires_at
    <3> SUFFICES ASSUME NEW i \in 1 .. (n + 1)
                 PROVE  t[i].ts <= now /\ s.started_at <= t[i].ts /\ t[i].ts < s.expires_at
      OBVIOUS
    <3>1. CASE i \in 1 .. n
      BY <2>1, <2>2, <3>1 DEF SoundSession
    <3>2. CASE i = n + 1
      BY <1>1, <2>3, <3>2 DEF SoundSession, Times
    <3> QED BY <2>1, <3>1, <3>2
  <2>7. \A i, j \in 1 .. (n + 1) : i <= j => t[i].ts <= t[j].ts
    <3> SUFFICES ASSUME NEW i \in 1 .. (n + 1), NEW j \in 1 .. (n + 1), i <= j
                 PROVE  t[i].ts <= t[j].ts
      OBVIOUS
    <3>1. CASE j = n + 1
      BY <2>3, <2>6, <3>1
    <3>2. CASE j \in 1 .. n
      BY <2>1, <2>2, <3>2 DEF SoundSession
    <3> QED BY <2>1, <3>1, <3>2
  <2>8. Logged(s, e).started_at = s.started_at /\ Logged(s, e).expires_at = s.expires_at
    BY LoggedType
  <2> QED BY <2>1, <2>5, <2>6, <2>7, <2>8 DEF SoundSession
<1> QED BY <1>2, <1>3, LoggedType

LEMMA InitLifetime == StoreInit => LifetimeInv
<1> SUFFICES ASSUME StoreInit PROVE LifetimeInv
  OBVIOUS
<1>1. sessions = [k \in {} |-> NothingFound(k)] /\ DOMAIN sessions = {}
  BY DEF StoreInit
<1> QED BY <1>1 DEF StoreInit, StoreTypeOK, NothingFound, Reply, LifetimeInv

(* A step that does not set the clock back.                                *)
LEMMA NextLifetime ==
  ASSUME LifetimeInv, [StoreNext]_storeVars, clock' >= clock
  PROVE  LifetimeInv'
<1> USE DEF LifetimeInv
<1>1. ASSUME NEW k \in Keys, Start(k)
      PROVE  LifetimeInv'
  <2>1. /\ sessions' = [j \in Live \cup {k} |-> IF j = k THEN NewSession ELSE sessions[j]]
        /\ clock' = clock /\ reply' = reply
        /\ Live \subseteq DOMAIN sessions
    BY <1>1 DEF Start, Live
  <2>2. NewSession \in Session /\ SoundSession(NewSession, clock)
    BY EmptySeq DEF NewSession, Session, StoreTypeOK, Times, SoundSession
  <2>3. \A j \in DOMAIN sessions' : sessions'[j] \in Session /\ SoundSession(sessions'[j], clock)
    BY <2>1, <2>2 DEF StoreTypeOK
  <2>4. DOMAIN sessions' \subseteq Keys /\ sessions' \in [DOMAIN sessions' -> Session]
    BY <2>1, <2>3 DEF StoreTypeOK
  <2>5. StoreTypeOK'
    BY <2>1, <2>4 DEF StoreTypeOK
  <2>6. \A j \in DOMAIN sessions' : SoundSession(sessions'[j], clock')
    BY <2>1, <2>3
  <2> QED BY <2>5, <2>6
<1>2. ASSUME NEW k \in Keys, Get(k)
      PROVE  LifetimeInv'
  <2>1. /\ sessions' = [j \in Live |-> sessions[j]]
        /\ clock' = clock
        /\ Live \subseteq DOMAIN sessions
    BY <1>2 DEF Get, Purged, Live
  <2>2. reply' \in Reply
    <3>1. CASE k \in Live
      BY <1>2, <2>1, <3>1 DEF Get, Reply, Session, StoreTypeOK
    <3>2. CASE k \notin Live
      BY <1>2, <3>2, EmptySeq DEF Get, Reply, NothingFound
    <3> QED BY <3>1, <3>2
  <2>3. \A j \in DOMAIN sessions' : sessions'[j] \in Session /\ SoundSession(sessions'[j], clock')
    BY <2>1 DEF StoreTypeOK, SoundSession
  <2> QED BY <2>1, <2>2, <2>3 DEF StoreTypeOK
<1>3. ASSUME NEW ip \in Keys, NEW key \in Keys \cup {NoKey}, NEW p \in Payloads,
             RecordForKeys(ip, key, p)
      PROVE  LifetimeInv'
  <2> DEFINE e == [what |-> p, ts |-> clock]
  <2>1. /\ e \in Event
        /\ sessions' = [k \in Live |->
             IF k # ip /\ k # key THEN sessions[k]
             ELSE IF k = ip /\ k = key THEN Logged(Logged(sessions[k], e), e)
             ELSE Logged(sessions[k], e)]
    BY <1>3, RecordEffect
  <2>2. clock' = clock /\ reply' = reply /\ e.ts = clock
    BY <1>3 DEF RecordForKeys
  <2> HIDE DEF e
  <2>3. ASSUME NEW k \in Live
        PROVE  sessions'[k] \in Session /\ SoundSession(sessions'[k], clock)
    <3> DEFINE s == sessions[k]
    <3>1. s \in Session /\ SoundSession(s, clock) /\ s.expires_at > clock
      BY DEF Live, StoreTypeOK
    <3> HIDE DEF s
    <3>2. /\ Logged(s, e) \in Session /\ Logged(s, e).expires_at = s.expires_at
          /\ SoundSession(Logged(s, e), clock)
      BY <2>1, <2>2, <3>1, LoggedType, LoggedSound DEF StoreTypeOK
    <3>3. Logged(Logged(s, e), e) \in Session /\ SoundSession(Logged(Logged(s, e), e), clock)
      BY <2>1, <2>2, <3>1, <3>2, LoggedType, LoggedSound DEF StoreTypeOK
    <3> QED BY <2>1, <3>1, <3>2, <3>3 DEF s
  <2>4. DOMAIN sessions' = Live /\ Live \subseteq Keys
    BY <2>1 DEF Live, StoreTypeOK
  <2>5. sessions' \in [DOMAIN sessions' -> Session]
    BY <2>1, <2>3, <2>4
  <2> QED BY <2>2, <2>3, <2>4, <2>5 DEF StoreTypeOK, SoundSession
<1>4. CASE Tick
  <2>1. sessions' = sessions /\ reply' = reply /\ clock' \in Times /\ clock' >= clock
    BY <1>4 DEF Tick
  <2>2. \A k \in DOMAIN sessions : SoundSession(sessions[k], clock')
    <3> SUFFICES ASSUME NEW k \in DOMAIN sessions PROVE SoundSession(sessions[k], clock')
      OBVIOUS
    <3> DEFINE s == sessions[k]
    <3>1. s \in Session /\ SoundSession(s, clock)
      BY DEF StoreTypeOK
    <3>2. s.events \in [1 .. Len(s.events) -> Event]
      BY <3>1, LenProperties DEF Session
    <3>3. \A i \in DOMAIN s.events : s.events[i].ts \in Times
      BY <3>2 DEF Event
    <3> QED BY <2>1, <3>1, <3>3 DEF SoundSession, Session, StoreTypeOK, Times
  <2> QED BY <2>1, <2>2 DEF StoreTypeOK
<1>5. CASE UNCHANGED storeVars
  BY <1>5 DEF storeVars, StoreTypeOK, SoundSession
<1> QED BY <1>1, <1>2, <1>3, <1>4, <1>5 DEF StoreNext

-----------------------------------------------------------------------------
(* What one turn of the recording loop does to a session.                  *)

(* A session that shows the first part of a history m still does when both  *)
(* are given one more event.                                               *)
LEMMA LoggedFaithful ==
  ASSUME NEW s \in Session, NEW e \in Event, NEW m \in Seq(Event),
         s.events = Promise!FirstOf(m),
         s.truncated <=> Len(m) > MaxEvents
  PROVE  /\ Logged(s, e).events = Promise!FirstOf(Append(m, e))
         /\ Logged(s, e).truncated <=> Len(Append(m, e)) > MaxEvents
<1> DEFINE n == Append(m, e)
<1>1. Len(n) = Len(m) + 1 /\ Len(m) \in Nat
  OBVIOUS
<1>2. \A i \in 1 .. Len(m) : n[i] = m[i]
  OBVIOUS
<1>3. CASE Len(m) >= MaxEvents
  <2>1. Len(s.events) = MaxEvents
    BY <1>3, <1>1 DEF Promise!FirstOf
  <2>2. Logged(s, e) = [s EXCEPT !.truncated = TRUE]
    BY <2>1 DEF Logged
  <2>3. Promise!FirstOf(n) = Promise!FirstOf(m)
    BY <1>3, <1>1, <1>2 DEF Promise!FirstOf
  <2> QED BY <2>2, <2>3, <1>1, <1>3 DEF Session
<1>4. CASE Len(m) < MaxEvents
  <2>1. s.events = m
    BY <1>4, <1>1 DEF Promise!FirstOf
  <2>2. Logged(s, e) = [s EXCEPT !.events = n]
    BY <2>1, <1>1, <1>4 DEF Logged
  <2>3. n \in [1 .. Len(n) -> Event]
    BY AppendProperties, LenProperties
  <2>4. Promise!FirstOf(n) = [i \in 1 .. Len(n) |-> n[i]]
    BY <1>1, <1>4 DEF Promise!FirstOf
  <2>5. Promise!FirstOf(n) = n
    BY <2>3, <2>4
  <2>6. Logged(s, e).events = n /\ Logged(s, e).truncated = s.truncated
    BY <2>2 DEF Session
  <2> QED BY <2>5, <2>6, <1>1, <1>4
<1> QED BY <1>1, <1>3, <1>4

(* The history a request adds to is one of three, by how many of its keys   *)
(* name the session.                                                       *)
LEMMA HitsAppend ==
  ASSUME NEW m \in Seq(Event), NEW e \in Event, NEW k, NEW ip, NEW key
  PROVE  /\ k # ip /\ k # key => m \o Hits(k, ip, key, e) = m
         /\ (k = ip) # (k = key) => m \o Hits(k, ip, key, e) = Append(m, e)
         /\ k = ip /\ k = key => m \o Hits(k, ip, key, e) = Append(Append(m, e), e)
<1>1. CASE k # ip /\ k # key
  BY <1>1 DEF Hits
<1>2. CASE (k = ip) # (k = key)
  BY <1>2 DEF Hits
<1>3. CASE k = ip /\ k = key
  BY <1>3 DEF Hits
<1> QED BY <1>1, <1>2, <1>3

-----------------------------------------------------------------------------
(***************************************************************************)
(* The inductive invariant.  GoneStaysGone alone is not inductive: a clock  *)
(* set back brings an expired session below its deadline again, so the      *)
(* session must be out of the dict, not only past its deadline.             *)
(***************************************************************************)
IInv ==
  /\ TypeOK
  /\ SessionFaithful
  /\ gone \cap DOMAIN sessions = {}

LEMMA InitIInv == Init => IInv
<1> SUFFICES ASSUME Init PROVE IInv
  OBVIOUS
<1>1. sessions = [k \in {} |-> NothingFound(k)] /\ DOMAIN sessions = {}
  BY DEF Init, StoreInit
<1>2. StoreTypeOK
  BY <1>1 DEF Init, StoreInit, StoreTypeOK, NothingFound, Reply
<1>3. matched \in [Keys -> Seq(Event)] /\ gone \subseteq Keys /\ back \in BOOLEAN
  BY EmptySeq DEF Init
<1>4. SessionFaithful
  BY <1>1 DEF SessionFaithful
<1>5. gone \cap DOMAIN sessions = {}
  BY <1>1
<1> QED BY <1>2, <1>3, <1>4, <1>5 DEF IInv, TypeOK

LEMMA StartIInv ==
  ASSUME IInv, NEW k \in Keys, StartAudit(k)
  PROVE  IInv'
<1> USE DEF IInv, TypeOK
<1>1. /\ sessions' = [j \in Live \cup {k} |-> IF j = k THEN NewSession ELSE sessions[j]]
      /\ clock' = clock /\ reply' = reply /\ back' = back
      /\ matched' = [matched EXCEPT ![k] = <<>>]
      /\ gone' = gone \ {k}
      /\ Live \subseteq DOMAIN sessions
  BY DEF StartAudit, Start, Live
<1>2. NewSession \in Session
  BY EmptySeq DEF NewSession, Session, StoreTypeOK, Times
<1>3. TypeOK'
  <2>1. \A j \in Live : sessions[j] \in Session
    BY <1>1 DEF StoreTypeOK
  <2>2. DOMAIN sessions' \subseteq Keys /\ sessions' \in [DOMAIN sessions' -> Session]
    BY <1>1, <1>2, <2>1 DEF StoreTypeOK
  <2>3. matched' \in [Keys -> Seq(Event)]
    BY <1>1, EmptySeq
  <2> QED BY <1>1, <2>2, <2>3 DEF StoreTypeOK
<1>4. SessionFaithful'
  <2> SUFFICES ASSUME NEW j \in DOMAIN sessions'
               PROVE  /\ sessions'[j].events = Promise!FirstOf(matched'[j])
                      /\ sessions'[j].truncated <=> Len(matched'[j]) > MaxEvents
    BY DEF SessionFaithful, Promise!FirstOf
  <2>1. CASE j = k
    <3>1. sessions'[j].events = <<>> /\ sessions'[j].truncated = FALSE
      BY <1>1, <2>1 DEF NewSession
    <3>2. matched'[j] = <<>>
      BY <1>1, <2>1
    <3>3. Promise!FirstOf(<<>>) = <<>>
      BY DEF Promise!FirstOf
    <3> QED BY <3>1, <3>2, <3>3
  <2>2. CASE j # k
    <3>1. j \in DOMAIN sessions /\ j \in Keys
      BY <1>1, <2>2 DEF StoreTypeOK
    <3>2. sessions'[j] = sessions[j] /\ matched'[j] = matched[j]
      BY <1>1, <2>2, <3>1
    <3> QED BY <3>1, <3>2 DEF SessionFaithful
  <2> QED BY <2>1, <2>2
<1>5. gone' \cap DOMAIN sessions' = {}
  BY <1>1
<1> QED BY <1>3, <1>4, <1>5

LEMMA ReportIInv ==
  ASSUME IInv, NEW k \in Keys, ReportAudit(k)
  PROVE  IInv'
<1> USE DEF IInv, TypeOK
<1>1. /\ sessions' = [j \in Live |-> sessions[j]]
      /\ Live \subseteq DOMAIN sessions
      /\ clock' = clock /\ matched' = matched /\ back' = back
  BY DEF ReportAudit, Get, Purged, Live
<1>2. CASE k \in Live
  <2>1. reply' = [key |-> k, found |-> TRUE, events |-> sessions[k].events,
                  truncated |-> sessions[k].truncated]
    BY <1>2 DEF ReportAudit, Get
  <2>2. gone' = gone
    BY <2>1 DEF ReportAudit
  <2>3. sessions[k] \in Session
    BY <1>1, <1>2 DEF StoreTypeOK
  <2>4. reply' \in Reply
    BY <2>1, <2>3 DEF Reply, Session
  <2> QED BY <1>1, <2>2, <2>4 DEF StoreTypeOK, SessionFaithful, Promise!FirstOf
<1>3. CASE k \notin Live
  <2>1. reply' = NothingFound(k) /\ gone' = gone \cup {k}
    BY <1>3 DEF ReportAudit, Get, NothingFound
  <2>2. reply' \in Reply
    BY <2>1, EmptySeq DEF Reply, NothingFound
  <2> QED BY <1>1, <1>3, <2>1, <2>2 DEF StoreTypeOK, SessionFaithful, Promise!FirstOf
<1> QED BY <1>2, <1>3

LEMMA RecordIInv ==
  ASSUME IInv, NEW ip \in Keys, NEW key \in Keys \cup {NoKey}, NEW p \in Payloads,
         RecordRequest(ip, key, p)
  PROVE  IInv'
<1> USE DEF IInv, TypeOK
<1> DEFINE e == [what |-> p, ts |-> clock]
<1>1. /\ e \in Event
      /\ sessions' = [k \in Live |->
           IF k # ip /\ k # key THEN sessions[k]
           ELSE IF k = ip /\ k = key THEN Logged(Logged(sessions[k], e), e)
           ELSE Logged(sessions[k], e)]
  BY RecordEffect DEF RecordRequest
<1>2. /\ matched' = [k \in Keys |-> IF k \in Live THEN matched[k] \o Hits(k, ip, key, e)
                                                  ELSE matched[k]]
      /\ clock' = clock /\ reply' = reply /\ gone' = gone /\ back' = back
  BY DEF RecordRequest, RecordForKeys
<1> HIDE DEF e
<1>3. Live \subseteq DOMAIN sessions /\ Live \subseteq Keys
  BY DEF Live, StoreTypeOK
<1>4. ASSUME NEW k \in Live
      PROVE  /\ sessions'[k] \in Session
             /\ matched'[k] \in Seq(Event)
             /\ sessions'[k].events = Promise!FirstOf(matched'[k])
             /\ sessions'[k].truncated <=> Len(matched'[k]) > MaxEvents
  <2> DEFINE s == sessions[k]
             m == matched[k]
  <2>1. s \in Session /\ m \in Seq(Event)
    BY <1>3 DEF StoreTypeOK
  <2>2. s.events = Promise!FirstOf(m) /\ (s.truncated <=> Len(m) > MaxEvents)
    BY <1>3 DEF SessionFaithful
  <2>3. matched'[k] = m \o Hits(k, ip, key, e)
    BY <1>2, <1>3
  <2> HIDE DEF s, m
  <2>4. CASE k # ip /\ k # key
    <3>1. sessions'[k] = s
      BY <1>1, <2>4 DEF s
    <3>2. matched'[k] = m
      BY <1>1, <2>1, <2>3, <2>4, HitsAppend
    <3> QED BY <2>1, <2>2, <3>1, <3>2
  <2>5. CASE (k = ip) # (k = key)
    <3>1. sessions'[k] = Logged(s, e)
      BY <1>1, <2>5 DEF s
    <3>2. matched'[k] = Append(m, e)
      BY <1>1, <2>1, <2>3, <2>5, HitsAppend
    <3>3. Logged(s, e) \in Session /\ Append(m, e) \in Seq(Event)
      BY <1>1, <2>1, LoggedType, AppendProperties
    <3>4. /\ Logged(s, e).events = Promise!FirstOf(Append(m, e))
          /\ Logged(s, e).truncated <=> Len(Append(m, e)) > MaxEvents
      BY <1>1, <2>1, <2>2, LoggedFaithful
    <3> QED BY <3>1, <3>2, <3>3, <3>4
  <2>6. CASE k = ip /\ k = key
    <3>1. sessions'[k] = Logged(Logged(s, e), e)
      BY <1>1, <2>6 DEF s
    <3>2. matched'[k] = Append(Append(m, e), e)
      BY <1>1, <2>1, <2>3, <2>6, HitsAppend
    <3>3. Logged(s, e) \in Session /\ Append(m, e) \in Seq(Event)
      BY <1>1, <2>1, LoggedType, AppendProperties
    <3>4. /\ Logged(s, e).events = Promise!FirstOf(Append(m, e))
          /\ Logged(s, e).truncated <=> Len(Append(m, e)) > MaxEvents
      BY <1>1, <2>1, <2>2, LoggedFaithful
    <3>5. /\ Logged(Logged(s, e), e) \in Session
          /\ Append(Append(m, e), e) \in Seq(Event)
      BY <1>1, <3>3, LoggedType, AppendProperties
    <3>6. /\ Logged(Logged(s, e), e).events = Promise!FirstOf(Append(Append(m, e), e))
          /\ Logged(Logged(s, e), e).truncated <=> Len(Append(Append(m, e), e)) > MaxEvents
      BY <1>1, <3>3, <3>4, LoggedFaithful
    <3> QED BY <3>1, <3>2, <3>5, <3>6
  <2> QED BY <2>4, <2>5, <2>6
<1>5. DOMAIN sessions' = Live
  BY <1>1
<1>6. TypeOK'
  <2>1. sessions' \in [DOMAIN sessions' -> Session]
    BY <1>1, <1>4, <1>5
  <2>2. matched' \in [Keys -> Seq(Event)]
    BY <1>2, <1>4
  <2> QED BY <1>2, <1>3, <1>5, <2>1, <2>2 DEF StoreTypeOK
<1>7. SessionFaithful'
  BY <1>4, <1>5 DEF SessionFaithful, Promise!FirstOf
<1> QED BY <1>2, <1>3, <1>5, <1>6, <1>7

(* The invariant is inductive.                                             *)
LEMMA NextIInv == IInv /\ [Next]_vars => IInv'
<1> SUFFICES ASSUME IInv, [Next]_vars PROVE IInv'
  OBVIOUS
<1>1. CASE \E k \in Keys : StartAudit(k)
  BY <1>1, StartIInv
<1>2. CASE \E k \in Keys : ReportAudit(k)
  BY <1>2, ReportIInv
<1>3. CASE \E ip \in Keys, key \in Keys \cup {NoKey}, p \in Payloads :
             RecordRequest(ip, key, p)
  BY <1>3, RecordIInv
<1>4. CASE PassTime \/ UNCHANGED vars
  <2>1. UNCHANGED <<sessions, reply, matched, gone>>
    BY <1>4 DEF PassTime, Tick, vars
  <2>2. clock' \in Times
    BY <1>4 DEF PassTime, Tick, vars, IInv, TypeOK, StoreTypeOK
  <2>3. back' \in BOOLEAN
    BY <1>4 DEF PassTime, vars, IInv, TypeOK
  <2>4. TypeOK' /\ SessionFaithful'
    BY <2>1, <2>2, <2>3 DEF IInv, TypeOK, StoreTypeOK, SessionFaithful, Promise!FirstOf
  <2> QED BY <2>1, <2>4 DEF IInv
<1> QED BY <1>1, <1>2, <1>3, <1>4 DEF Next

-----------------------------------------------------------------------------
(* Every reachable state has the types TypeOK states.                      *)
THEOREM TypeCorrect == Spec => []TypeOK
<1>1. IInv => TypeOK
  BY DEF IInv
<1> QED BY InitIInv, NextIInv, <1>1, PTL DEF Spec

(* Unless the wall clock was set back, every event in a session lies        *)
(* between its start and its deadline, in order (record_for_keys, start).   *)
THEOREM EventsLieWithinLifetime == Spec => []EventsWithinLifetime
<1> DEFINE TInv == ~back => LifetimeInv
<1>1. Init => TInv
  BY InitLifetime DEF Init
<1>2. TInv /\ TypeOK /\ [Next]_vars => TInv'
  <2> SUFFICES ASSUME TInv, TypeOK, [Next]_vars, ~back' PROVE LifetimeInv'
    OBVIOUS
  <2>1. clock \in Nat /\ clock' = clock => clock' >= clock
    BY DEF TypeOK, StoreTypeOK, Times
  <2>2. CASE \E k \in Keys : StartAudit(k)
    <3>1. ~back /\ StoreNext /\ clock' = clock
      BY <2>2 DEF StartAudit, Start, StoreNext
    <3> QED BY <2>1, <3>1, NextLifetime DEF TypeOK, StoreTypeOK, Times
  <2>3. CASE \E k \in Keys : ReportAudit(k)
    <3>1. PICK k \in Keys : ReportAudit(k)
      BY <2>3
    <3>2. ~back /\ StoreNext
      BY <3>1 DEF ReportAudit, StoreNext
    <3>3. clock' = clock
      BY <3>1 DEF ReportAudit, Get
    <3> QED BY <3>2, <3>3, <2>1, <3>1, NextLifetime DEF TypeOK, StoreTypeOK, Times
  <2>4. CASE \E ip \in Keys, key \in Keys \cup {NoKey}, p \in Payloads :
               RecordRequest(ip, key, p)
    <3>1. ~back /\ StoreNext /\ clock' = clock
      BY <2>4 DEF RecordRequest, RecordForKeys, StoreNext
    <3> QED BY <2>1, <3>1, NextLifetime DEF TypeOK, StoreTypeOK, Times
  <2>5. CASE PassTime
    <3>1. ~back /\ Tick /\ clock \in Times /\ clock' \in Times /\ ~(clock' < clock)
      BY <2>5 DEF PassTime, Tick, TypeOK, StoreTypeOK
    <3>2. clock' >= clock
      BY <3>1 DEF Times
    <3> QED BY <3>1, <3>2, NextLifetime DEF StoreNext
  <2>6. CASE UNCHANGED vars
    <3>1. ~back /\ UNCHANGED storeVars /\ clock' = clock
      BY <2>6 DEF vars, storeVars
    <3> QED BY <2>1, <3>1, NextLifetime DEF TypeOK, StoreTypeOK, Times
  <2> QED BY <2>2, <2>3, <2>4, <2>5, <2>6 DEF Next
<1>3. TInv => EventsWithinLifetime
  BY DEF LifetimeInv, SoundSession, EventsWithinLifetime, Timely
<1> HIDE DEF TInv
<1> QED BY <1>1, <1>2, <1>3, TypeCorrect, PTL DEF Spec

(* A session holds the first MaxEvents of the requests that matched since   *)
(* its start and is marked truncated exactly when there were more, for any  *)
(* number of keys, any cap, any clock (record_for_keys, start).             *)
THEOREM SessionsAreFaithful == Spec => []SessionFaithful
<1>1. IInv => SessionFaithful
  BY DEF IInv
<1> QED BY InitIInv, NextIInv, <1>1, PTL DEF Spec

(* An audit that a report did not find is not found again until it is       *)
(* started again, whatever the wall clock does in between (get).            *)
THEOREM GoneAuditsStayGone == Spec => []GoneStaysGone
<1>1. IInv => GoneStaysGone
  BY DEF IInv, GoneStaysGone, Live
<1> QED BY InitIInv, NextIInv, <1>1, PTL DEF Spec

-----------------------------------------------------------------------------
(* The store implements the promise of the audit pages.  Purging ends, in   *)
(* the same step, every audit the promise lets end: the overdue ones.       *)

(* The audits overdue for the promise are the sessions a purge removes.     *)
LEMMA OverdueAreNotLive ==
  ASSUME StoreTypeOK
  PROVE  /\ DOMAIN deadlines = DOMAIN sessions
         /\ Promise!Overdue = DOMAIN sessions \ Live
         /\ DOMAIN sessions \ Promise!Overdue = Live
<1>1. \A k \in DOMAIN sessions : sessions[k].expires_at \in Nat
  BY DEF StoreTypeOK, Session
<1> QED BY <1>1 DEF Promise!Overdue, deadlines, Live, StoreTypeOK, Times

LEMMA StartImplementsBegin ==
  ASSUME IInv, NEW k \in Keys, StartAudit(k)
  PROVE  Promise!Begin(k)
<1>1. /\ sessions' = [j \in Live \cup {k} |-> IF j = k THEN NewSession ELSE sessions[j]]
      /\ clock' = clock /\ reply' = reply
      /\ matched' = [matched EXCEPT ![k] = <<>>]
  BY DEF StartAudit, Start
<1>2. DOMAIN deadlines = DOMAIN sessions /\ DOMAIN sessions \ Promise!Overdue = Live
  BY OverdueAreNotLive DEF IInv, TypeOK
<1>3. Live \subseteq DOMAIN sessions
  BY DEF Live
<1>4. deadlines' = [j \in Live \cup {k} |-> IF j = k THEN clock + Ttl ELSE deadlines[j]]
  BY <1>1, <1>3 DEF deadlines, NewSession
<1>5. deadlines' = [j \in (DOMAIN deadlines \ Promise!Overdue) \cup {k} |->
                      IF j = k THEN clock + Ttl ELSE deadlines[j]]
  BY <1>2, <1>4
<1>6. Promise!Overdue \in SUBSET Promise!Overdue
  OBVIOUS
<1> QED BY <1>1, <1>5, <1>6 DEF Promise!Begin

LEMMA PurgeDeadlines ==
  ASSUME IInv, DOMAIN sessions' = Live,
         \A k \in Live : sessions'[k].expires_at = sessions[k].expires_at
  PROVE  deadlines' = Promise!Without(Promise!Overdue)
<1>1. DOMAIN deadlines \ Promise!Overdue = Live /\ Live \subseteq DOMAIN sessions
  BY OverdueAreNotLive DEF IInv, TypeOK, Live
<1>2. deadlines' = [k \in Live |-> deadlines[k]]
  BY <1>1 DEF deadlines
<1> QED BY <1>1, <1>2 DEF Promise!Without

LEMMA ReportImplementsShow ==
  ASSUME IInv, NEW k \in Keys, ReportAudit(k)
  PROVE  Promise!Show(k)
<1>1. /\ sessions' = [j \in Live |-> sessions[j]]
      /\ clock' = clock /\ matched' = matched
  BY DEF ReportAudit, Get, Purged
<1>2. deadlines' = Promise!Without(Promise!Overdue)
  BY <1>1, PurgeDeadlines
<1>3. DOMAIN deadlines \ Promise!Overdue = Live /\ Live \subseteq DOMAIN sessions
  BY OverdueAreNotLive DEF IInv, TypeOK, Live
<1>4. reply' = IF k \in Live
               THEN [key |-> k, found |-> TRUE, events |-> Promise!FirstOf(matched[k]),
                     truncated |-> Len(matched[k]) > MaxEvents]
               ELSE Promise!Blank(k)
  <2>1. CASE k \in Live
    <3>1. /\ sessions[k].events = Promise!FirstOf(matched[k])
          /\ sessions[k].truncated = (Len(matched[k]) > MaxEvents)
      <4>1. sessions[k].truncated \in BOOLEAN
        BY <1>3, <2>1 DEF IInv, TypeOK, StoreTypeOK, Session
      <4> QED BY <1>3, <2>1, <4>1 DEF IInv, SessionFaithful
    <3> QED BY <2>1, <3>1 DEF ReportAudit, Get
  <2>2. CASE k \notin Live
    BY <2>2 DEF ReportAudit, Get, NothingFound, Promise!Blank
  <2> QED BY <2>1, <2>2
<1> QED BY <1>1, <1>2, <1>3, <1>4 DEF Promise!Show

LEMMA RecordImplementsNote ==
  ASSUME IInv, NEW ip \in Keys, NEW key \in Keys \cup {NoKey}, NEW p \in Payloads,
         RecordRequest(ip, key, p)
  PROVE  Promise!Note(ip, key, p)
<1> DEFINE e == [what |-> p, ts |-> clock]
<1>1. /\ e \in Event
      /\ sessions' = [k \in Live |->
           IF k # ip /\ k # key THEN sessions[k]
           ELSE IF k = ip /\ k = key THEN Logged(Logged(sessions[k], e), e)
           ELSE Logged(sessions[k], e)]
  BY RecordEffect DEF RecordRequest, IInv, TypeOK
<1>2. ASSUME NEW k \in Live
      PROVE  sessions'[k].expires_at = sessions[k].expires_at
  <2>1. sessions[k] \in Session
    BY DEF IInv, TypeOK, StoreTypeOK, Live
  <2>2. /\ Logged(sessions[k], e) \in Session
        /\ Logged(sessions[k], e).expires_at = sessions[k].expires_at
    BY <1>1, <2>1, LoggedType
  <2>3. Logged(Logged(sessions[k], e), e).expires_at = sessions[k].expires_at
    BY <1>1, <2>2, LoggedType
  <2> HIDE DEF e
  <2> QED BY <1>1, <2>2, <2>3
<1>3. deadlines' = Promise!Without(Promise!Overdue)
  BY <1>1, <1>2, PurgeDeadlines
<1>4. DOMAIN deadlines \ Promise!Overdue = Live
  BY OverdueAreNotLive DEF IInv, TypeOK
<1>5. /\ matched' = [k \in Keys |-> IF k \in Live THEN matched[k] \o Hits(k, ip, key, e)
                                                  ELSE matched[k]]
      /\ clock' = clock /\ reply' = reply
  BY DEF RecordRequest, RecordForKeys
<1>6. Promise!Overdue \in SUBSET Promise!Overdue
  OBVIOUS
<1> QED BY <1>3, <1>4, <1>5, <1>6 DEF Promise!Note, Hits

(* Every behaviour of the store, seen through the reports, is one the       *)
(* promise allows, for any number of keys, cap and clock (class AuditStore).*)
THEOREM StoreImplementsPromise == Spec => ImplementsPromise
<1>1. Init => Promise!Init
  <2> SUFFICES ASSUME Init PROVE Promise!Init
    OBVIOUS
  <2>1. DOMAIN sessions = {}
    BY DEF Init, StoreInit
  <2>2. deadlines = [k \in {} |-> 0]
    BY <2>1 DEF deadlines
  <2> QED BY <2>2 DEF Init, StoreInit, NothingFound, Promise!Init, Promise!Blank
<1>2. IInv /\ [Next]_vars => [Promise!Next]_(Promise!promiseVars)
  <2> SUFFICES ASSUME IInv, [Next]_vars
               PROVE  Promise!Next \/ UNCHANGED Promise!promiseVars
    OBVIOUS
  <2>1. CASE \E k \in Keys : StartAudit(k)
    BY <2>1, StartImplementsBegin DEF Promise!Next
  <2>2. CASE \E k \in Keys : ReportAudit(k)
    BY <2>2, ReportImplementsShow DEF Promise!Next
  <2>3. CASE \E ip \in Keys, key \in Keys \cup {NoKey}, p \in Payloads :
               RecordRequest(ip, key, p)
    BY <2>3, RecordImplementsNote DEF Promise!Next
  <2>4. CASE PassTime
    BY <2>4 DEF PassTime, Tick, deadlines, Promise!Next, Promise!Pass
  <2>5. CASE UNCHANGED vars
    BY <2>5 DEF vars, deadlines, Promise!promiseVars
  <2> QED BY <2>1, <2>2, <2>3, <2>4, <2>5 DEF Next
<1> QED BY InitIInv, NextIInv, <1>1, <1>2, PTL DEF Spec, ImplementsPromise, Promise!Spec
=============================================================================
