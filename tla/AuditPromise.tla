---------------------------- MODULE AuditPromise ----------------------------
(***************************************************************************)
(* What the audit pages promise a developer, without the store's data       *)
(* structure (render_audit_start_page, render_audit_report_page and         *)
(* audit_report_response of src/janus_gate/audit.py):                       *)
(*   - an audit runs under a bind key from its start to its deadline;       *)
(*   - starting again under the same key begins an empty log;               *)
(*   - every matching request is logged, in order;                          *)
(*   - a report shows the log's first MaxEvents entries and says so when    *)
(*     there were more;                                                     *)
(*   - a report never shows an audit past its deadline, and an audit that   *)
(*     a report did not find is over until it is started again.             *)
(* The log here is unbounded, and an overdue audit may end at any step: it  *)
(* logs nothing more and no report shows it.                                *)
(***************************************************************************)
EXTENDS Integers, Sequences

CONSTANTS Keys, NoKey, Payloads, Ttl, MaxEvents, Times

VARIABLES
  clock,
  running,    \* the audits that run: their keys' deadlines
  log,        \* [Keys -> Seq(Event)] all that was logged since the last start
  shown       \* the last report

promiseVars == <<clock, running, log, shown>>

Overdue == {k \in DOMAIN running : running[k] <= clock}

Without(over) == [k \in DOMAIN running \ over |-> running[k]]

(* The part of a log a report has room for.                                *)
FirstOf(s) == [i \in 1 .. (IF Len(s) > MaxEvents THEN MaxEvents ELSE Len(s)) |-> s[i]]

Blank(k) == [key |-> k, found |-> FALSE, events |-> <<>>, truncated |-> FALSE]

Init ==
  /\ clock \in Times
  /\ running = [k \in {} |-> 0]
  /\ log = [k \in Keys |-> <<>>]
  /\ shown = Blank(NoKey)

Begin(k) ==
  \E over \in SUBSET Overdue :
    /\ running' = [j \in (DOMAIN running \ over) \cup {k} |->
                     IF j = k THEN clock + Ttl ELSE running[j]]
    /\ log' = [log EXCEPT ![k] = <<>>]
    /\ UNCHANGED <<clock, shown>>

(* A request is logged once for each of its keys that names a running audit. *)
Note(ip, key, p) ==
  \E over \in SUBSET Overdue :
    LET e        == [what |-> p, ts |-> clock]
        times(k) == (IF k = ip THEN 1 ELSE 0) + (IF k = key THEN 1 ELSE 0)
    IN  /\ running' = Without(over)
        /\ log' = [k \in Keys |-> IF k \in DOMAIN running \ Overdue
                                  THEN log[k] \o [i \in 1 .. times(k) |-> e]
                                  ELSE log[k]]
        /\ UNCHANGED <<clock, shown>>

Show(k) ==
  /\ running' = Without(Overdue)
  /\ shown' = IF k \in DOMAIN running \ Overdue
              THEN [key |-> k, found |-> TRUE, events |-> FirstOf(log[k]),
                    truncated |-> Len(log[k]) > MaxEvents]
              ELSE Blank(k)
  /\ UNCHANGED <<clock, log>>

Pass ==
  /\ clock' \in Times
  /\ UNCHANGED <<running, log, shown>>

Next ==
  \/ \E k \in Keys : Begin(k) \/ Show(k)
  \/ \E ip \in Keys, key \in Keys \cup {NoKey}, p \in Payloads : Note(ip, key, p)
  \/ Pass

Spec == Init /\ [][Next]_promiseVars
=============================================================================
