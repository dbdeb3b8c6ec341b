----------------------------- MODULE ChainWalk ------------------------------
(***************************************************************************)
(* /blocks/{id}/next and /previous, /epochs/{number}/next and /previous of  *)
(* the Blockfrost face when the backend is Koios or db-sync, which have no  *)
(* such list: the provider looks up the anchor, reads the tip, and fetches  *)
(* one neighbour after the other, awaiting each.  The chain moves on in     *)
(* between.  The client reads page after page.                              *)
(***************************************************************************)
EXTENDS Chain

CONSTANTS
  Source,  \* "koios": a block by number takes two calls, number to hash and
           \* hash to block; "dbsync": every lookup is one query
  Asks     \* what the client may ask for: a set of Request records

Number(n) == [by |-> "number", no |-> n]
Hash(b) == [by |-> "hash", block |-> b]

Request == [what   : {"blocks", "epochs"},
            anchor : [by : {"number"}, no : Int] \cup [by : {"hash"}, block : Blocks],
            dir    : {1, -1},
            count  : Nat \ {0},
            page   : Nat \ {0}]

ASSUME WalkAssumption ==
  /\ Source \in {"koios", "dbsync"}
  /\ Asks \subseteq Request
  /\ \A a \in Asks :   \* isdigit() for a block, the path's type for an epoch
       IF a.what = "blocks" THEN a.anchor.by = "number" => a.anchor.no >= 0
       ELSE a.anchor.by = "number"

NoRequest == [what |-> "nothing"]
NoHash == [height |-> -1, fork |-> -1]

VARIABLES
  pc,      \* "idle", "anchor", "tip", "item", "done"
  ask,     \* the request, NoRequest before the first
  hash,    \* Koios: the hash a block number was resolved to, NoHash otherwise
  base,    \* the number the walk starts next to (`height', `number')
  last,    \* the tip's number when it was read (`tip_height', `tip_epoch')
  out,     \* the rows so far, in the order of the walk
  status,  \* "none", "ok", "notfound", "error"
  pages,   \* the pages the client has been answered, in its order
  low,     \* history: the lowest tip since the page was asked for
  seen     \* history: the blocks on the chain at some time since then

walkVars == <<pc, ask, hash, base, last, out, status, pages>>
vars == <<chain, forks, pc, ask, hash, base, last, out, status, pages, low, seen>>

Span == IF ask.what = "blocks" THEN 1 ELSE EpochLength

Rows == [no : 0 .. MaxHeight, block : Blocks]

TypeOK ==
  /\ ChainTypeOK
  /\ pc \in {"idle", "anchor", "tip", "item", "done"}
  /\ pc # "idle" => ask \in Request
  /\ hash \in Blocks \cup {NoHash}
  /\ base \in Int
  /\ last \in 0 .. MaxHeight
  /\ out \in Seq(Rows)
  /\ pc # "idle" => Len(out) <= ask.count
  /\ status \in {"none", "ok", "notfound", "error"}
  /\ pages \in Seq(Seq(Rows))
  /\ low \in 0 .. MaxHeight
  /\ seen \subseteq Blocks

Init ==
  /\ ChainInit
  /\ pc = "idle" /\ ask = NoRequest /\ hash = NoHash /\ base = 0 /\ last = 0
  /\ out = <<>> /\ status = "none" /\ pages = <<>>
  /\ low = TipHeight /\ seen = {}

(* The walk's next number: the first of the page, then one further for each *)
(* row.                                                                     *)
First == base + ask.dir * (1 + (ask.page - 1) * ask.count)
Wanted(rows) == First + ask.dir * Len(rows)

(* Mutant: a row too many.                                                  *)
GoesOnTooLong(rows, tip) ==
  /\ Len(rows) <= ask.count
  /\ Wanted(rows) \in 0 .. tip

(* `for i in range(count)' and its first break.                             *)
GoesOn(rows, tip) ==
  /\ Len(rows) < ask.count
  /\ Wanted(rows) \in 0 .. tip

(* Mutant: the page is not turned round.                                    *)
AsWalked(rows) == rows

(* The page as answered: previous rows are reversed into ascending order.   *)
Ascending(rows) ==
  IF ask.dir = 1 THEN rows
  ELSE [i \in 1 .. Len(rows) |-> rows[Len(rows) + 1 - i]]

Finish(rows) ==
  /\ pc' = "done" /\ status' = "ok"
  /\ pages' = Append(pages, Ascending(rows))

Refuse(s) ==
  /\ pc' = "done" /\ status' = s
  /\ UNCHANGED pages

(* The loop's head, with these rows and this tip: another lookup or the end. *)
Loop(rows, tip) ==
  /\ IF GoesOn(rows, tip)
     THEN pc' = "item" /\ UNCHANGED <<status, pages>>
     ELSE Finish(rows)
  /\ out' = rows

(* A handler starts: blocks with the anchor's lookup, epochs with the tip.  *)
Begin(a) ==
  /\ ask' = a
  /\ pc' = IF a.what = "blocks" THEN "anchor" ELSE "tip"
  /\ base' = IF a.what = "epochs" THEN a.anchor.no ELSE 0
  /\ hash' = NoHash /\ last' = 0 /\ out' = <<>> /\ status' = "none"
  /\ low' = TipHeight /\ seen' = OnChain
  /\ UNCHANGED chainVars

AskFirst ==
  /\ pc = "idle"
  /\ \E a \in Asks : Begin(a)
  /\ UNCHANGED pages

(* A client goes on to the next page after a full one.                      *)
AskNext ==
  /\ pc = "done" /\ status = "ok" /\ Len(out) = ask.count
  /\ Begin([ask EXCEPT !.page = @ + 1])
  /\ UNCHANGED pages

(* What the walk looks up now: the anchor, then a number per row.           *)
Target == IF pc = "anchor" THEN ask.anchor ELSE Number(Wanted(out))

(* Koios: `block_height=eq.N' gives the hash of the block at a height.      *)
ByHash == Source = "koios" /\ ask.what = "blocks"

Found ==
  IF Target.by = "hash" THEN RowsWith(Target.block)
  ELSE IF ByHash THEN RowsWith(hash)
  ELSE RowsAt(Target.no, Span)

Resolving == ByHash /\ Target.by = "number" /\ hash = NoHash

Unchanging == UNCHANGED <<chain, forks, low, seen, ask>>

(* Mutant: a number that has no block is asked for again.                   *)
ResolveInsists ==
  /\ pc \in {"anchor", "item"}
  /\ Resolving
  /\ \E b \in RowsAt(Target.no, 1) : hash' = b
  /\ UNCHANGED <<pc, base, last, out, status, pages>>
  /\ Unchanging

Resolve ==
  /\ pc \in {"anchor", "item"}
  /\ Resolving
  /\ \E rows \in {RowsAt(Target.no, 1)} :
       \/ /\ \E b \in rows : hash' = b
          /\ UNCHANGED <<pc, out, status, pages>>
       \/ /\ rows = {}
          /\ IF pc = "anchor" THEN Refuse("notfound") ELSE Finish(out)
          /\ UNCHANGED <<hash, out>>
  /\ UNCHANGED <<base, last>>
  /\ Unchanging

FetchAnchor ==
  /\ pc = "anchor" /\ ~Resolving
  /\ \/ /\ \E b \in Found : base' = b.height
        /\ pc' = "tip"
        /\ UNCHANGED <<status, pages>>
     \/ /\ Found = {}
        /\ Refuse("notfound")
        /\ UNCHANGED base
  /\ hash' = NoHash
  /\ UNCHANGED <<last, out>>
  /\ Unchanging

ReadTip ==
  /\ pc = "tip"
  /\ last' = Unit(TipHeight, Span)
  /\ Loop(out, last')
  /\ UNCHANGED <<hash, base>>
  /\ Unchanging

(* Mutant: the hash is kept, and taken for the next number's.               *)
FetchItemOfOldHash ==
  /\ pc = "item" /\ ~Resolving
  /\ \/ \E b \in Found : Loop(Append(out, [no |-> Target.no, block |-> b]), last)
     \/ /\ Found = {}
        /\ Finish(out)
        /\ UNCHANGED out
  /\ UNCHANGED <<hash, base, last>>
  /\ Unchanging

FetchItem ==
  /\ pc = "item" /\ ~Resolving
  /\ \/ \E b \in Found : Loop(Append(out, [no |-> Target.no, block |-> b]), last)
     \/ /\ Found = {}
        /\ Finish(out)
        /\ UNCHANGED out
  /\ hash' = NoHash
  /\ UNCHANGED <<base, last>>
  /\ Unchanging

(* Mutant: any failing call ends the walk as a missing block does.          *)
FailureEndsWalk ==
  /\ pc \in {"anchor", "tip", "item"}
  /\ IF pc = "item" THEN Finish(out) ELSE Refuse("error")
  /\ UNCHANGED <<hash, base, last, out>>
  /\ Unchanging

(* A call fails with anything but 404: the whole request does.              *)
CallFails ==
  /\ pc \in {"anchor", "tip", "item"}
  /\ Refuse("error")
  /\ UNCHANGED <<hash, base, last, out>>
  /\ Unchanging

Step == Resolve \/ FetchAnchor \/ ReadTip \/ FetchItem

ChainMoves ==
  /\ Forge \/ Rollback
  /\ low' = IF Len(chain') - 1 < low THEN Len(chain') - 1 ELSE low
  /\ seen' = seen \cup IF pc = "idle" THEN {} ELSE OnChain'
  /\ UNCHANGED walkVars

Next == AskFirst \/ AskNext \/ Step \/ CallFails \/ ChainMoves

Spec == Init /\ [][Next]_vars

(* The backend answers each call; the chain and the client do as they like. *)
FairSpec == Spec /\ WF_vars(Step)

-----------------------------------------------------------------------------
(* Properties                                                               *)

(* Every row is numbered as the walk wanted it, and is a block (an epoch's  *)
(* last block) of that number that was on the chain since the page was      *)
(* asked for.  What no rollback has reached since then is on the chain      *)
(* still, and an epoch that was over is told in full.                       *)
RowsAreTrue ==
  \A i \in 1 .. Len(out) :
    LET b == out[i].block
        end == LastHeight(out[i].no, Span)
    IN /\ Unit(b.height, Span) = out[i].no
       /\ b \in seen
       /\ b.height <= low => b \in OnChain
       /\ end <= low => b = BlockAt(end)

(* A page is short only where the list ends: what would have come next is   *)
(* before the first block, or was not settled when the page was asked for   *)
(* or not since.  An anchor is refused for the same reason only.            *)
NothingIsMissing ==
  pc = "done" =>
    /\ status = "ok" /\ Len(out) < ask.count =>
         Wanted(out) < 0 \/ Wanted(out) * Span > low
    /\ status = "notfound" =>
         IF ask.anchor.by = "hash"
         THEN ask.anchor.block \notin OnChain \/ ask.anchor.block.height > low
         ELSE ask.anchor.no > low

(* Where the walk starts next to, and the page the client read first.       *)
AnchorNo == IF ask.anchor.by = "number" THEN ask.anchor.no ELSE ask.anchor.block.height

FirstPage ==
  IF pc = "done" /\ status = "ok" THEN ask.page - Len(pages) + 1 ELSE ask.page - Len(pages)

(* The client's pages, laid side by side, are one walk away from the anchor *)
(* and from the page it began with: no number is skipped or told twice, at  *)
(* a page's edge or within it, the rows of each page count upwards, and     *)
(* only the last may be short, however the chain moved.                     *)
PagesTile ==
  \A k \in 1 .. Len(pages) :
    /\ k < Len(pages) => Len(pages[k]) = ask.count
    /\ \A i \in 1 .. Len(pages[k]) :
         pages[k][i].no = AnchorNo + ask.dir *
           ((FirstPage + k - 2) * ask.count
              + IF ask.dir = 1 THEN i ELSE Len(pages[k]) + 1 - i)

(* A page as its client sees it.                                            *)
state == IF pc = "idle" THEN "idle" ELSE IF pc = "done" THEN status ELSE "open"

Promise == INSTANCE WalkPromise WITH told <- out

(* To its client a walk of several calls is the promise's: each row is the  *)
(* chain's of that moment for the number that is next, and each page ends   *)
(* or is refused for a reason the promise has (_blocks_adjacent,            *)
(* _epochs_adjacent).                                                       *)
ImplementsPromise == Promise!Spec

(* A walk ends, although the chain may grow and roll back under it.         *)
WalksEnd == pc \in {"anchor", "tip", "item"} ~> pc = "done"
=============================================================================
