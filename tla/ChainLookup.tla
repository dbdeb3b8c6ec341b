----------------------------- MODULE ChainLookup -----------------------------
(***************************************************************************)
(* Lookups that take the backend several calls or queries.  On a Koios      *)
(* backend /blocks/latest and /epochs/latest of the Blockfrost face read    *)
(* the tip, then the block at its height (/blocks has fields /tip has not)  *)
(* or the epoch of its number, or that epoch's parameters;                  *)
(* /blocks/latest/txs goes on from the block to its transactions.  A block  *)
(* by slot, and a block's transactions by its number, find the hash first.  *)
(* On db-sync an address's balance is the sum of its outputs, then the sums *)
(* of their assets; its outputs are a page of rows, then each row's assets. *)
(* The chain moves on between the calls, and the queries share neither a    *)
(* transaction nor a connection.                                            *)
(***************************************************************************)
EXTENDS Chain

VARIABLES
  pc,      \* "idle", "first", "second", "third" (the call that is next), "done"
  what,    \* what is asked for, one of Whats
  no,      \* the slot or number asked for
  found,   \* the block of the calls so far, NoBlock before the first
  status,  \* "none", "ok", "notfound", "error"
  reply,   \* the answer: the block its hash, height and time are of, and the
           \* block its size, fees and counts are of, or its transactions; of
           \* a balance, the tips as of which its two parts are
  tips     \* history: the chain's tips since the request came in

lookupVars == <<pc, what, no, found, status, reply>>
vars == <<chain, forks, pc, what, no, found, status, reply, tips>>

OfLatest == {"block", "epoch", "latest_txs"}
OfNumber == {"slot", "txs"}
OfAddress == {"balance", "outputs"}
Whats == OfLatest \cup OfNumber \cup OfAddress

NoBlock == [height |-> -1, fork |-> -1]

(* NoBlock for content: no fields but the tip's; a page without rows.       *)
Answer(ident, content) == [ident |-> ident, content |-> content]
NoAnswer == Answer(NoBlock, NoBlock)

TypeOK ==
  /\ ChainTypeOK
  /\ pc \in {"idle", "first", "second", "third", "done"}
  /\ what \in Whats
  /\ no \in Nat
  /\ found \in Blocks \cup {NoBlock}
  /\ status \in {"none", "ok", "notfound", "error"}
  /\ reply \in [ident : Blocks \cup {NoBlock}, content : Blocks \cup {NoBlock}]
  /\ tips \subseteq Blocks

Init ==
  /\ ChainInit
  /\ pc = "idle" /\ what = "block" /\ no = 0 /\ found = NoBlock
  /\ status = "none" /\ reply = NoAnswer /\ tips = {}

(* The slot in an epoch is asked for as the slot it is.                     *)
Ask ==
  /\ pc \in {"idle", "done"}
  /\ pc' = "first" /\ what' \in Whats
  /\ no' \in IF what' \in OfNumber THEN 0 .. MaxHeight + 1 ELSE {0}
  /\ status' = "none" /\ reply' = NoAnswer
  /\ tips' = {Tip}
  /\ UNCHANGED <<chain, forks, found>>

Unchanging == UNCHANGED <<chain, forks, what, no, tips>>

(* Mutant: a tip once read is kept for later requests.                      *)
ReadTipOnce ==
  /\ pc = "first" /\ what \in OfLatest /\ pc' = "second"
  /\ found' = IF found = NoBlock THEN Tip ELSE found
  /\ UNCHANGED <<status, reply>>
  /\ Unchanging

ReadTip ==
  /\ pc = "first" /\ what \in OfLatest /\ pc' = "second"
  /\ found' = Tip
  /\ UNCHANGED <<status, reply>>
  /\ Unchanging

Respond(s, r) == pc' = "done" /\ status' = s /\ reply' = r

(* Mutant: the filter is left out, and the newest block is the first row.   *)
LocateNewest ==
  /\ pc = "first" /\ what \in OfNumber
  /\ pc' = "second" /\ found' = Tip
  /\ UNCHANGED <<status, reply>>
  /\ Unchanging

(* Mutant: a hash once found is kept for later requests.                    *)
LocateOnce ==
  /\ pc = "first" /\ what \in OfNumber
  /\ \/ /\ IF found.height = no THEN UNCHANGED found
           ELSE \E b \in RowsAt(no, 1) : found' = b
        /\ pc' = "second"
        /\ UNCHANGED <<status, reply>>
     \/ /\ RowsAt(no, 1) = {} /\ found.height # no
        /\ Respond("notfound", NoAnswer)
        /\ UNCHANGED found
  /\ Unchanging

(* The hash of the block of a slot, or at a height.                         *)
Locate ==
  /\ pc = "first" /\ what \in OfNumber
  /\ \/ /\ \E b \in RowsAt(no, 1) : found' = b
        /\ pc' = "second"
        /\ UNCHANGED <<status, reply>>
     \/ /\ RowsAt(no, 1) = {}
        /\ Respond("notfound", NoAnswer)
        /\ UNCHANGED found
  /\ Unchanging

(* Mutant: the tip's fields come last and win.                              *)
MergedTipLast(detail) == Answer(found, detail)

(* `{**tip, **block_detail}': the detail's fields win, and it has all of    *)
(* the tip's.                                                               *)
Merged(detail) == Answer(detail, detail)

(* The latest block as it is answered, or as its transactions' request      *)
(* takes the hash from it.                                                  *)
Latest(r) ==
  IF what = "block" THEN Respond("ok", r) /\ UNCHANGED found
  ELSE pc' = "third" /\ found' = r.ident /\ UNCHANGED <<status, reply>>

(* A block the second call does not find leaves the tip as it is.           *)
FetchBlock ==
  /\ pc = "second" /\ what \in {"block", "latest_txs"}
  /\ \/ \E b \in RowsAt(found.height, 1) : Latest(Merged(b))
     \/ RowsAt(found.height, 1) = {} /\ Latest(Answer(found, NoBlock))
  /\ Unchanging

(* Mutant: the epoch after the tip's is taken for the running one.          *)
FetchNextEpoch ==
  /\ pc = "second" /\ what = "epoch"
  /\ LET rows == RowsAt(Unit(found.height, EpochLength) + 1, EpochLength)
     IN \/ \E b \in rows : Respond("ok", Answer(b, b))
        \/ rows = {} /\ Respond("notfound", NoAnswer)
  /\ UNCHANGED found
  /\ Unchanging

(* The epoch itself is asked for: an epoch that is not there is a 404.      *)
FetchEpoch ==
  /\ pc = "second" /\ what = "epoch"
  /\ LET rows == RowsAt(Unit(found.height, EpochLength), EpochLength)
     IN \/ \E b \in rows : Respond("ok", Answer(b, b))
        \/ rows = {} /\ Respond("notfound", NoAnswer)
  /\ UNCHANGED found
  /\ Unchanging

(* /block_info by the hash found: an empty list is a 404.                   *)
FetchLocated ==
  /\ pc = "second" /\ what = "slot"
  /\ \/ \E b \in RowsWith(found) : Respond("ok", Answer(b, b))
     \/ RowsWith(found) = {} /\ Respond("notfound", NoAnswer)
  /\ UNCHANGED found
  /\ Unchanging

WhatIsLeft == IF RowsWith(found) = {} THEN NoBlock ELSE found

(* /block_txs by the hash found: an empty list is an empty page, also when  *)
(* the block has gone.                                                      *)
FetchTransactions ==
  /\ \/ pc = "second" /\ what = "txs"
     \/ pc = "third"
  /\ Respond("ok", Answer(found, WhatIsLeft))
  /\ UNCHANGED found
  /\ Unchanging

(* Mutant: the sum of an earlier request is kept.                           *)
ReadSumOnce ==
  /\ pc = "first" /\ what = "balance" /\ pc' = "second"
  /\ found' = IF found = NoBlock THEN Tip ELSE found
  /\ UNCHANGED <<status, reply>>
  /\ Unchanging

(* The lovelace of an address's unspent outputs, and whether they have a    *)
(* script or a stake address, as of the tip.                                *)
ReadSum ==
  /\ pc = "first" /\ what = "balance" /\ pc' = "second"
  /\ found' = Tip
  /\ UNCHANGED <<status, reply>>
  /\ Unchanging

(* The sums of their assets, by a query of its own.                         *)
ReadAssetSums ==
  /\ pc = "second" /\ what = "balance"
  /\ Respond("ok", Answer(found, Tip))
  /\ UNCHANGED found
  /\ Unchanging

(* A page of unspent outputs, of which found is any one's block; or none.   *)
ReadOutputs ==
  /\ pc = "first" /\ what = "outputs"
  /\ \/ /\ found' \in OnChain /\ pc' = "second"
        /\ UNCHANGED <<status, reply>>
     \/ Respond("ok", NoAnswer) /\ UNCHANGED found
  /\ Unchanging

(* The output's assets, by its row's number, which goes with its block.     *)
ReadOutputAssets ==
  /\ pc = "second" /\ what = "outputs"
  /\ Respond("ok", Answer(found, WhatIsLeft))
  /\ UNCHANGED found
  /\ Unchanging

(* A failing call fails the request, but for the enrichment of the tip,     *)
(* which is wrapped in `except Exception'.                                  *)
CallFails ==
  /\ pc \in {"first", "second", "third"}
  /\ IF pc = "second" /\ what \in {"block", "latest_txs"}
     THEN Latest(Answer(found, NoBlock))
     ELSE Respond("error", NoAnswer) /\ UNCHANGED found
  /\ Unchanging

ChainMoves ==
  /\ Forge \/ Rollback
  /\ tips' = tips \cup {[height |-> Len(chain') - 1, fork |-> chain'[Len(chain')]]}
  /\ UNCHANGED lookupVars

Next ==
  \/ Ask \/ ReadTip \/ Locate
  \/ FetchBlock \/ FetchEpoch \/ FetchLocated \/ FetchTransactions
  \/ ReadSum \/ ReadAssetSums \/ ReadOutputs \/ ReadOutputAssets
  \/ CallFails \/ ChainMoves

Spec == Init /\ [][Next]_vars

-----------------------------------------------------------------------------
(* Properties                                                               *)

(* A rollback went below this height since the request came in.             *)
RolledPast(h) == \E t \in tips : t.height < h

(* The answer is of one block: what /tip told is not mixed with the fields  *)
(* of the block that took its height in a rollback between the calls.       *)
AnswerIsOneBlock ==
  status = "ok" /\ what # "balance" => reply.content \in {reply.ident, NoBlock}

(* What is told as latest was the latest at some moment of the request: the *)
(* block was the tip, and so was the block whose transactions are told; the *)
(* epoch was the tip's, and told as it then was.                            *)
LatestWasLatest == status = "ok" /\ what \in OfLatest => reply.ident \in tips

(* The latest epoch is refused only after a rollback out of it.             *)
LatestEpochExists ==
  status = "notfound" /\ what = "epoch" =>
    \E t \in tips : Unit(t.height, EpochLength) < Unit(found.height, EpochLength)

(* A block by its slot, or the block whose transactions are asked for by    *)
(* its number, has that slot or number, and it is the one on the chain      *)
(* unless a rollback went past it; a slot is refused, and a number, only if *)
(* the chain ended before it.                                               *)
LookupFits ==
  what \in OfNumber =>
    /\ status = "ok" =>
         /\ reply.ident.height = no
         /\ ~RolledPast(no) => reply.ident = BlockAt(no)
    /\ status = "notfound" => RolledPast(no)

(* A block's page of transactions is empty for want of the block, and an    *)
(* output told without the assets it holds, only when a rollback took the   *)
(* block away between the calls.                                            *)
EmptyPageHasReason ==
  status = "ok" /\ what \in {"txs", "latest_txs", "outputs"}
  /\ reply.ident # NoBlock /\ reply.content = NoBlock =>
    RolledPast(reply.ident.height)

(* The two parts of a balance may be of two states of the chain, but each   *)
(* is of one the chain was in since the request came in: when it stood      *)
(* still meanwhile, both are of one.                                        *)
BalanceWasTrue ==
  status = "ok" /\ what = "balance" => {reply.ident, reply.content} \subseteq tips
=============================================================================
