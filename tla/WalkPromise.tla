---------------------------- MODULE WalkPromise -----------------------------
(***************************************************************************)
(* What a client of the adjacent lists is promised, without the calls, the  *)
(* hashes and the tip they are made from (blocks_next, blocks_previous,     *)
(* epochs_next and epochs_previous of src/janus_gate/faces/blockfrost.py):  *)
(*   - every row is read from the chain as it is at that moment, and is of  *)
(*     the number that anchor, direction, page and the rows before it give; *)
(*   - a page is answered when it is full, or when its next number is       *)
(*     negative or was beyond the tip at some time since it was asked for;  *)
(*   - an anchor is refused only while the chain has no such block, and a   *)
(*     refused or failed page shows the client nothing;                     *)
(*   - a client that goes on after a full page asks for the one after it.   *)
(***************************************************************************)
EXTENDS Chain

CONSTANT Asks

VARIABLES
  ask,    \* the request
  told,   \* its rows so far, in the order of the walk
  state,  \* "idle", "open", "ok", "notfound", "error"
  pages,  \* the pages the client has been answered
  low     \* the lowest tip since the page was asked for

pageVars == <<ask, told, state, pages>>
promiseVars == <<chain, forks, ask, told, state, pages, low>>

Span == IF ask.what = "blocks" THEN 1 ELSE EpochLength

Anchor == IF ask.anchor.by = "number" THEN ask.anchor.no ELSE ask.anchor.block.height

(* The number the walk has come to with these rows told.                    *)
Following(rows) ==
  Anchor + ask.dir * ((ask.page - 1) * ask.count + Len(rows) + 1)

(* A page is answered with its numbers counting upwards.                    *)
Upwards(rows) ==
  [i \in 1 .. Len(rows) |-> rows[IF ask.dir = 1 THEN i ELSE Len(rows) + 1 - i]]

Init ==
  /\ ChainInit
  /\ state = "idle" /\ told = <<>> /\ pages = <<>> /\ low = TipHeight
  /\ ask = [what |-> "nothing"]

Open(a) ==
  /\ ask' = a /\ told' = <<>> /\ state' = "open" /\ low' = TipHeight
  /\ UNCHANGED <<chain, forks, pages>>

Ask == state = "idle" /\ \E a \in Asks : Open(a)

AskOn ==
  /\ state = "ok" /\ Len(told) = ask.count
  /\ Open([ask EXCEPT !.page = ask.page + 1])

(* A page may be answered with these rows.                                  *)
Complete(rows) ==
  \/ Len(rows) = ask.count
  \/ Following(rows) < 0
  \/ Following(rows) * Span > low

Answer(rows) ==
  /\ Complete(rows)
  /\ state' = "ok" /\ pages' = Append(pages, Upwards(rows))

(* The row of the walk's number is told: the last one ends the page.        *)
Tell ==
  /\ state = "open" /\ Len(told) < ask.count
  /\ \E b \in RowsAt(Following(told), Span) :
       told' = Append(told, [no |-> Following(told), block |-> b])
  /\ \/ Answer(told')
     \/ Len(told') < ask.count /\ UNCHANGED <<state, pages>>
  /\ UNCHANGED <<chain, forks, ask, low>>

End ==
  /\ state = "open" /\ Answer(told)
  /\ UNCHANGED <<chain, forks, ask, told, low>>

NoAnchor ==
  IF ask.anchor.by = "hash" THEN ask.anchor.block \notin OnChain
  ELSE ask.anchor.no > low

Refuse ==
  /\ state = "open"
  /\ \/ state' = "notfound" /\ told = <<>> /\ ask.what = "blocks" /\ NoAnchor
     \/ state' = "error"
  /\ UNCHANGED <<chain, forks, ask, told, pages, low>>

ChainMoves ==
  /\ Forge \/ Rollback
  /\ low' = IF Len(chain') - 1 < low THEN Len(chain') - 1 ELSE low
  /\ UNCHANGED pageVars

Next == Ask \/ AskOn \/ Tell \/ End \/ Refuse \/ ChainMoves

Spec == Init /\ [][Next]_promiseVars
=============================================================================
