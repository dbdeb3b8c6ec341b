---------------------------- MODULE AuditLedger -----------------------------
(***************************************************************************)
(* AuditStore with history variables, which the program does not keep, that *)
(* say what a reader of the reports has a right to expect:                  *)
(*   matched  every event given to the store under a key since the audit    *)
(*            under it was started, the dropped ones included               *)
(*   gone     the keys whose last report found no audit, not started since  *)
(*   back     whether the wall clock was ever set back                      *)
(* With them the store is shown to implement AuditPromise.                  *)
(***************************************************************************)
EXTENDS AuditStore

CONSTANT MaxMatched    \* bound on the length of a history

ASSUME LedgerAssumption == MaxMatched \in Nat

VARIABLES matched, gone, back

vars == <<clock, sessions, reply, matched, gone, back>>

Init ==
  /\ StoreInit
  /\ matched = [k \in Keys |-> <<>>]
  /\ gone = {}
  /\ back = FALSE

StartAudit(k) ==
  /\ Start(k)
  /\ matched' = [matched EXCEPT ![k] = <<>>]
  /\ gone' = gone \ {k}
  /\ UNCHANGED back

ReportAudit(k) ==
  /\ Get(k)
  /\ gone' = IF reply'.found THEN gone ELSE gone \cup {k}
  /\ UNCHANGED <<matched, back>>

(* What a request under ip and key adds to the history of k: its event once *)
(* for each of the two that is k.                                          *)
Hits(k, ip, key, e) ==
  [i \in 1 .. ((IF k = ip THEN 1 ELSE 0) + (IF k = key THEN 1 ELSE 0)) |-> e]

RecordRequest(ip, key, p) ==
  /\ \A k \in Keys \cap {ip, key} : Len(matched[k]) < MaxMatched
  /\ RecordForKeys(ip, key, p)
  /\ matched' = [k \in Keys |->
                   IF k \in Live
                   THEN matched[k] \o Hits(k, ip, key, [what |-> p, ts |-> clock])
                   ELSE matched[k]]
  /\ UNCHANGED <<gone, back>>

PassTime ==
  /\ Tick
  /\ back' = (back \/ clock' < clock)
  /\ UNCHANGED <<matched, gone>>

Next ==
  \/ \E k \in Keys : StartAudit(k)
  \/ \E k \in Keys : ReportAudit(k)
  \/ \E ip \in Keys, key \in Keys \cup {NoKey}, p \in Payloads :
        RecordRequest(ip, key, p)
  \/ PassTime

Spec == Init /\ [][Next]_vars

-----------------------------------------------------------------------------
(* The audits that run, as the promise sees them: a deadline for each key.  *)
deadlines == [k \in DOMAIN sessions |-> sessions[k].expires_at]

Promise == INSTANCE AuditPromise WITH
  running <- deadlines, log <- matched, shown <- reply

(* The store implements the promise of the audit pages: reports show the    *)
(* first MaxEvents matching requests since the last start, in order, and    *)
(* say truncated exactly when one was dropped (record_for_keys, get).       *)
ImplementsPromise == Promise!Spec

TypeOK ==
  /\ StoreTypeOK
  /\ matched \in [Keys -> Seq(Event)]
  /\ gone \subseteq Keys
  /\ back \in BOOLEAN

(* A session holds the first MaxEvents of the requests that matched since   *)
(* its start, in order, and is marked truncated exactly when there were     *)
(* more: "Event cap reached; later requests were dropped."                  *)
SessionFaithful ==
  \A k \in DOMAIN sessions :
    /\ sessions[k].events = Promise!FirstOf(matched[k])
    /\ sessions[k].truncated <=> Len(matched[k]) > MaxEvents

(* Unless the clock was set back, a session holds only events of its own    *)
(* lifetime, in the order of their timestamps: purging before recording     *)
(* keeps a late event out, replacing keeps the old session's out.           *)
EventsWithinLifetime == ~back => \A k \in DOMAIN sessions : Timely(sessions[k])

(* An audit a report did not find stays gone until it is started again,     *)
(* even when the wall clock is set back below the deadline it had: get()    *)
(* removes what it does not return.                                         *)
GoneStaysGone == gone \cap Live = {}
=============================================================================
