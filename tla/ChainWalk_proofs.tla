-------------------------- MODULE ChainWalk_proofs --------------------------
(***************************************************************************)
(* The rows of a walk over adjacent blocks or epochs are true, for both     *)
(* sources, chains and epochs of every length, every request, and rollbacks *)
(* of every depth at every moment.                                          *)
(***************************************************************************)
EXTENDS ChainWalk, Chain_proofs

(* What a resolved hash, a running loop and the histories are worth.        *)
HashFits ==
  /\ pc = "tip" => hash = NoHash
  /\ pc = "item" /\ hash # NoHash => hash.height = Wanted(out)

LoopFits == pc = "item" => Wanted(out) \in 0 .. last /\ Len(out) < ask.count

HistoryFits ==
  /\ low <= TipHeight
  /\ pc # "idle" => OnChain \subseteq seen

Fits(a) ==
  IF a.what = "blocks" THEN a.anchor.by = "number" => a.anchor.no >= 0
  ELSE a.anchor.by = "number"

AskFits == pc # "idle" => Fits(ask)

IInv ==
  /\ TypeOK
  /\ HashFits
  /\ LoopFits
  /\ HistoryFits
  /\ AskFits
  /\ RowsAreTrue

-----------------------------------------------------------------------------
LEMMA InitIInv == Init => IInv
<1> SUFFICES ASSUME Init PROVE IInv
  OBVIOUS
<1>1. PICK n \in 1 .. MaxHeight + 1 : chain = [i \in 1 .. n |-> 0]
  BY DEF Init, ChainInit
<1>2. 0 \in Forks /\ n \in Nat
  BY ChainAssumption DEF Forks
<1>3. chain \in Seq(Forks) /\ Len(chain) = n
  BY <1>1, <1>2
<1>4. ChainTypeOK
  BY <1>1, <1>2, <1>3 DEF Init, ChainInit, ChainTypeOK
<1>5. TipHeight \in 0 .. MaxHeight
  BY <1>4, TipInRange
<1>6. TypeOK
  BY <1>4, <1>5, ChainAssumption DEF Init, TypeOK
<1> QED
  BY <1>5, <1>6
     DEF Init, IInv, HashFits, LoopFits, HistoryFits, AskFits, RowsAreTrue

LEMMA SpanType == Span \in Nat \ {0}
BY ChainAssumption DEF Span

LEMMA WantedType ==
  ASSUME ask \in Request, base \in Int, NEW rows \in Seq(Rows)
  PROVE  Wanted(rows) \in Int
<1>1. /\ ask.dir \in Int /\ ask.page \in Int /\ ask.count \in Int
      /\ Len(rows) \in Int
  BY DEF Request
<1> QED BY <1>1, SMTT(30) DEF Wanted, First

(* A number of blocks is the height of the block it finds.                  *)
LEMMA BlockOfNumber ==
  ASSUME ChainTypeOK, NEW n \in Int, NEW b \in RowsAt(n, 1)
  PROVE  b \in Blocks /\ b.height = n /\ n \in Nat
<1>1. /\ b.height \in 0 .. TipHeight /\ n \in Nat /\ b \in Blocks
      /\ Unit(b.height, 1) = n
  BY RowsOfUnit
<1>2. TipHeight \in Nat
  BY TipInRange
<1>3. Unit(b.height, 1) = b.height
  BY <1>1, <1>2, UnitUnique, SMTT(30) DEF LastHeight
<1> QED BY <1>1, <1>3

(* What a lookup finds is on the chain.                                     *)
LEMMA FoundOnChain ==
  ASSUME ChainTypeOK, Target.by = "hash" \/ Target.no \in Int, NEW b \in Found
  PROVE  b \in OnChain
<1>1. CASE Target.by = "hash" \/ ByHash
  BY <1>1 DEF Found, RowsWith
<1>2. CASE ~(Target.by = "hash") /\ ~ByHash
  <2>1. b \in RowsAt(Target.no, Span) /\ Target.no \in Int
    BY <1>2 DEF Found
  <2> QED BY <2>1, SpanType, RowsOfUnit
<1> QED BY <1>1, <1>2

LEMMA OnChainBlocks ==
  ASSUME ChainTypeOK, NEW b \in OnChain
  PROVE  /\ b \in Blocks /\ b.height \in 0 .. TipHeight
         /\ b = BlockAt(b.height)
<1>1. PICK h \in 0 .. TipHeight : b = BlockAt(h)
  BY DEF OnChain
<1> QED BY <1>1, BlocksOnChain

-----------------------------------------------------------------------------
(* The row a lookup adds is true, if it is of the number that was wanted.   *)
LEMMA NewRowIsTrue ==
  ASSUME IInv, pc = "item", ~Resolving, NEW b \in Found
  PROVE  LET n == Wanted(out)
         IN /\ n \in 0 .. MaxHeight /\ b \in Blocks
            /\ Unit(b.height, Span) = n
            /\ b \in seen /\ b \in OnChain
            /\ LastHeight(n, Span) <= low => b = BlockAt(LastHeight(n, Span))
<1> DEFINE n == Wanted(out)
<1>1. /\ ChainTypeOK /\ Target = Number(n) /\ Target.by = "number" /\ Target.no = n
      /\ ask \in Request /\ base \in Int /\ out \in Seq(Rows)
      /\ last \in 0 .. MaxHeight /\ low \in 0 .. MaxHeight
  BY DEF IInv, TypeOK, Target, Number
<1>2. n \in Int /\ n \in 0 .. last
  BY <1>1, WantedType DEF IInv, LoopFits
<1>3. n \in 0 .. MaxHeight
  BY <1>1, <1>2, ChainAssumption
<1>4. b \in OnChain
  BY <1>1, <1>2, FoundOnChain
<1>5. /\ b \in Blocks /\ b.height \in 0 .. TipHeight
      /\ b = BlockAt(b.height) /\ b \in seen
  BY <1>1, <1>4, OnChainBlocks DEF IInv, HistoryFits
<1>6. CASE ByHash
  <2>1. Span = 1 /\ b = hash /\ hash # NoHash
    BY <1>1, <1>6 DEF ByHash, Span, Found, RowsWith, Resolving
  <2>2. b.height = n
    BY <2>1 DEF IInv, HashFits
  <2>3. n \in Nat /\ LastHeight(n, 1) = n
    BY <1>2, <2>2, <1>3, SMTT(30) DEF LastHeight
  <2>4. Unit(n, 1) = n
    BY <2>3, UnitUnique, SMTT(30)
  <2> QED BY <1>3, <1>4, <1>5, <2>1, <2>2, <2>3, <2>4
<1>7. CASE ~ByHash
  <2>1. b \in RowsAt(n, Span)
    BY <1>1, <1>7 DEF Found
  <2>2. /\ Unit(b.height, Span) = n
        /\ LastHeight(n, Span) <= TipHeight => b = BlockAt(LastHeight(n, Span))
    BY <1>1, <1>2, <2>1, SpanType, RowsOfUnit
  <2>3. low <= TipHeight /\ TipHeight \in Nat /\ LastHeight(n, Span) \in Int
    BY <1>1, <1>2, SpanType, TipInRange, SMTT(30) DEF IInv, HistoryFits, LastHeight
  <2> QED BY <1>1, <1>3, <1>4, <1>5, <2>2, <2>3
<1> QED BY <1>6, <1>7

(* What Finish and Loop do to pages and the walk's place.                   *)
LEMMA AscendingType ==
  ASSUME NEW rows \in Seq(Rows)
  PROVE  Ascending(rows) \in Seq(Rows)
<1>1. CASE ask.dir = 1
  BY <1>1 DEF Ascending
<1>2. CASE ask.dir # 1
  <2>1. Len(rows) \in Nat /\ \A i \in 1 .. Len(rows) : rows[i] \in Rows
    OBVIOUS
  <2>2. \A i \in 1 .. Len(rows) : rows[Len(rows) + 1 - i] \in Rows
    <3>1. \A i \in 1 .. Len(rows) : Len(rows) + 1 - i \in 1 .. Len(rows)
      BY <2>1
    <3> QED BY <2>1, <3>1
  <2> QED BY <1>2, <2>1, <2>2 DEF Ascending
<1> QED BY <1>1, <1>2

LEMMA FinishKeeps ==
  ASSUME IInv, Finish(out), UNCHANGED <<out, ask, base, last>>, Unchanging,
         hash' \in Blocks \cup {NoHash}, pc # "idle"
  PROVE  IInv'
<1>1. pages' \in Seq(Seq(Rows))
  BY AscendingType DEF IInv, TypeOK, Finish
<1>2. TypeOK'
  BY <1>1 DEF IInv, TypeOK, Finish, Unchanging, ChainTypeOK
<1> QED
  BY <1>2
     DEF IInv, Finish, Unchanging, HashFits, LoopFits, HistoryFits, AskFits,
         RowsAreTrue, Span, TipHeight, OnChain, BlockAt

LEMMA RefuseKeeps ==
  ASSUME IInv, NEW s \in {"notfound", "error"}, Refuse(s), UNCHANGED <<out, base, last>>,
         Unchanging, hash' \in Blocks \cup {NoHash}, pc # "idle"
  PROVE  IInv'
<1>1. TypeOK'
  BY DEF IInv, TypeOK, Refuse, Unchanging, ChainTypeOK
<1> QED
  BY <1>1
     DEF IInv, Refuse, Unchanging, HashFits, LoopFits, HistoryFits, AskFits,
         RowsAreTrue, Span, TipHeight, OnChain, BlockAt

LEMMA LoopKeeps ==
  ASSUME IInv, NEW rows \in Seq(Rows), NEW t \in 0 .. MaxHeight,
         Len(rows) <= ask.count, Loop(rows, t), last' = t, base' = base,
         hash' = NoHash, Unchanging, pc # "idle", RowsAreTrue'
  PROVE  IInv'
<1>1. /\ pages' \in Seq(Seq(Rows)) /\ pc' \in {"item", "done"}
      /\ status' \in {"none", "ok", "notfound", "error"} /\ out' = rows
  <2>1. CASE GoesOn(rows, t)
    <3>1. pc' = "item" /\ status' = status /\ pages' = pages /\ out' = rows
      BY <2>1 DEF Loop
    <3>2. /\ pages \in Seq(Seq(Rows))
          /\ status \in {"none", "ok", "notfound", "error"}
      BY DEF IInv, TypeOK
    <3> QED BY <3>1, <3>2
  <2>2. CASE ~GoesOn(rows, t)
    <3>1. /\ pc' = "done" /\ status' = "ok" /\ out' = rows
          /\ pages' = Append(pages, Ascending(rows))
      BY <2>2 DEF Loop, Finish
    <3>2. pages \in Seq(Seq(Rows)) /\ Ascending(rows) \in Seq(Rows)
      BY AscendingType DEF IInv, TypeOK
    <3> QED BY <3>1, <3>2
  <2> QED BY <2>1, <2>2
<1>2. TypeOK'
  BY <1>1 DEF IInv, TypeOK, Unchanging, ChainTypeOK
<1>3. LoopFits'
  BY <1>1 DEF Loop, GoesOn, Finish, LoopFits, Unchanging, Wanted, First
<1> QED
  BY <1>1, <1>2, <1>3
     DEF IInv, Unchanging, HashFits, HistoryFits, AskFits,
         TipHeight, OnChain, BlockAt

-----------------------------------------------------------------------------
LEMMA BeginStep ==
  ASSUME IInv, NEW a \in Request, Fits(a),
         Begin(a), UNCHANGED pages
  PROVE  IInv'
<1>1. ChainTypeOK /\ ChainTypeOK' /\ TipHeight' = TipHeight /\ OnChain' = OnChain
  BY DEF IInv, TypeOK, Begin, chainVars, ChainTypeOK, TipHeight, OnChain, BlockAt
<1>2. TipHeight \in 0 .. MaxHeight /\ OnChain \subseteq Blocks
  BY <1>1, TipInRange, OnChainBlocks
<1>3. base' \in Int
  BY DEF Begin, Request, Fits
<1>4. a.count \in Nat
  BY DEF Request
<1>5. TypeOK'
  BY <1>1, <1>2, <1>3, <1>4, ChainAssumption DEF IInv, TypeOK, Begin
<1>6. TipHeight <= TipHeight
  BY <1>2
<1> QED
  BY <1>1, <1>5, <1>6
     DEF Begin, IInv, HashFits, LoopFits, HistoryFits, AskFits, RowsAreTrue

LEMMA AskStep == IInv /\ (AskFirst \/ AskNext) => IInv'
<1>1. ASSUME IInv, AskFirst PROVE IInv'
  <2>1. PICK a \in Asks : Begin(a)
    BY <1>1 DEF AskFirst
  <2>2. a \in Request /\ Fits(a)
    BY <2>1, WalkAssumption DEF Fits
  <2> QED BY <1>1, <2>1, <2>2, BeginStep DEF AskFirst
<1>2. ASSUME IInv, AskNext PROVE IInv'
  <2> DEFINE a == [ask EXCEPT !.page = @ + 1]
  <2>1. ask \in Request /\ Fits(ask)
    BY <1>2 DEF IInv, TypeOK, AskFits, AskNext
  <2>2. ask.page + 1 \in Nat \ {0}
    BY <2>1 DEF Request
  <2>3. a \in Request /\ Fits(a)
    BY <2>1, <2>2 DEF Request, Fits
  <2> HIDE DEF a
  <2>4. Begin(a) /\ UNCHANGED pages
    BY <1>2 DEF AskNext, a
  <2> QED BY <1>2, <2>1, <2>3, <2>4, BeginStep
<1> QED BY <1>1, <1>2

LEMMA ResolveStep == IInv /\ Resolve => IInv'
<1> SUFFICES ASSUME IInv, Resolve PROVE IInv'
  OBVIOUS
<1>1. /\ pc \in {"anchor", "item"} /\ Target.by = "number" /\ Unchanging
      /\ UNCHANGED <<base, last>> /\ ChainTypeOK /\ ask \in Request
  BY DEF Resolve, Resolving, IInv, TypeOK
<1>2. Target.no \in Int
  <2>1. CASE pc = "anchor"
    BY <1>1, <2>1 DEF Target, Request
  <2>2. CASE pc = "item"
    BY <1>1, <2>2, WantedType DEF Target, Number, IInv, TypeOK
  <2> QED BY <1>1, <2>1, <2>2
<1>3. CASE /\ \E b \in RowsAt(Target.no, 1) : hash' = b
           /\ UNCHANGED <<pc, out, status, pages>>
  <2>1. hash' \in Blocks /\ hash'.height = Target.no
    BY <1>1, <1>2, <1>3, BlockOfNumber
  <2>2. TypeOK'
    BY <1>1, <1>3, <2>1 DEF IInv, TypeOK, Unchanging, ChainTypeOK
  <2>3. HashFits'
    BY <1>1, <1>3, <2>1
       DEF HashFits, Target, Number, Wanted, First, Unchanging
  <2> QED
    BY <1>1, <1>3, <2>2, <2>3
       DEF IInv, Unchanging, LoopFits, HistoryFits, AskFits, RowsAreTrue, Span,
           Wanted, First, TipHeight, OnChain, BlockAt
<1>4. CASE /\ IF pc = "anchor" THEN Refuse("notfound") ELSE Finish(out)
           /\ UNCHANGED <<hash, out>>
  <2>1. hash' \in Blocks \cup {NoHash}
    BY <1>4 DEF IInv, TypeOK
  <2>2. CASE pc = "anchor"
    BY <1>1, <1>4, <2>1, <2>2, RefuseKeeps
  <2>3. CASE pc = "item"
    BY <1>1, <1>4, <2>1, <2>3, FinishKeeps DEF Unchanging
  <2> QED BY <1>1, <2>2, <2>3
<1> QED BY <1>3, <1>4 DEF Resolve

LEMMA FetchAnchorStep == IInv /\ FetchAnchor => IInv'
<1> SUFFICES ASSUME IInv, FetchAnchor PROVE IInv'
  OBVIOUS
<1>1. /\ pc = "anchor" /\ hash' = NoHash /\ UNCHANGED <<last, out>> /\ Unchanging
      /\ ChainTypeOK /\ ask \in Request /\ Target = ask.anchor
  BY DEF FetchAnchor, IInv, TypeOK, Target
<1>2. CASE /\ \E b \in Found : base' = b.height
           /\ pc' = "tip"
           /\ UNCHANGED <<status, pages>>
  <2>1. PICK b \in Found : base' = b.height
    BY <1>2
  <2>2. Target.by = "hash" \/ Target.no \in Int
    BY <1>1 DEF Request
  <2>3. b.height \in 0 .. TipHeight /\ TipHeight \in Int
    BY <1>1, <2>2, FoundOnChain, OnChainBlocks, TipInRange
  <2>4. base' \in Int
    BY <2>1, <2>3
  <2>5. TypeOK'
    BY <1>1, <1>2, <2>4 DEF IInv, TypeOK, Unchanging, ChainTypeOK
  <2> QED
    BY <1>1, <1>2, <2>5
       DEF IInv, Unchanging, HashFits, LoopFits, HistoryFits, AskFits, RowsAreTrue,
           Span, TipHeight, OnChain, BlockAt
<1>3. CASE Found = {} /\ Refuse("notfound") /\ UNCHANGED base
  BY <1>1, <1>3, RefuseKeeps
<1> QED BY <1>2, <1>3 DEF FetchAnchor

LEMMA ReadTipStep == IInv /\ ReadTip => IInv'
<1> SUFFICES ASSUME IInv, ReadTip PROVE IInv'
  OBVIOUS
<1> DEFINE t == Unit(TipHeight, Span)
<1>1. /\ pc = "tip" /\ last' = t /\ Loop(out, t) /\ UNCHANGED <<hash, base>>
      /\ Unchanging /\ out' = out
      /\ ChainTypeOK /\ ask \in Request /\ out \in Seq(Rows) /\ Len(out) <= ask.count
  BY DEF ReadTip, IInv, TypeOK, Loop
<1>2. t \in 0 .. MaxHeight
  <2>1. t \in Nat /\ t * Span <= TipHeight /\ Span \in Nat \ {0}
        /\ TipHeight \in 0 .. MaxHeight
    BY <1>1, SpanType, TipInRange, UnitBounds
  <2>2. t <= t * Span
    BY <2>1, SMTT(30)
  <2>3. t <= TipHeight
    BY <2>1, <2>2, SMTT(30)
  <2> HIDE DEF t
  <2> QED BY <2>1, <2>3, ChainAssumption
<1> HIDE DEF t
<1>3. hash' = NoHash
  BY <1>1 DEF IInv, HashFits
<1>4. RowsAreTrue'
  BY <1>1
     DEF IInv, Unchanging, RowsAreTrue, Span, TipHeight, OnChain, BlockAt
<1> QED BY <1>1, <1>2, <1>3, <1>4, LoopKeeps

LEMMA FetchItemStep == IInv /\ FetchItem => IInv'
<1> SUFFICES ASSUME IInv, FetchItem PROVE IInv'
  OBVIOUS
<1> DEFINE n == Wanted(out)
<1>1. /\ pc = "item" /\ ~Resolving /\ hash' = NoHash /\ UNCHANGED <<base, last>>
      /\ Unchanging /\ Target = Number(n)
      /\ out \in Seq(Rows) /\ last \in 0 .. MaxHeight
  BY DEF FetchItem, IInv, TypeOK, Target
<1>2. CASE \E b \in Found : Loop(Append(out, [no |-> Target.no, block |-> b]), last)
  <2>1. PICK b \in Found : Loop(Append(out, [no |-> Target.no, block |-> b]), last)
    BY <1>2
  <2> DEFINE r == [no |-> n, block |-> b]
             rows == Append(out, r)
  <2>2. /\ n \in 0 .. MaxHeight /\ b \in Blocks
        /\ Unit(b.height, Span) = n
        /\ b \in seen /\ b \in OnChain
        /\ LastHeight(n, Span) <= low => b = BlockAt(LastHeight(n, Span))
    BY <1>1, NewRowIsTrue
  <2>3. Loop(rows, last) /\ r \in Rows
    BY <1>1, <2>1, <2>2 DEF Number, Rows
  <2>4. /\ rows \in Seq(Rows) /\ Len(rows) = Len(out) + 1
        /\ \A i \in 1 .. Len(out) : rows[i] = out[i]
        /\ rows[Len(out) + 1] = r
    BY <1>1, <2>3
  <2>5. out' = rows
    BY <2>3 DEF Loop
  <2>6. Len(rows) <= ask.count
    <3>1. Len(out) < ask.count /\ ask.count \in Int /\ Len(out) \in Int
      BY <1>1 DEF IInv, TypeOK, LoopFits, Request
    <3> QED BY <2>4, <3>1
  <2>7. RowsAreTrue'
    <3> SUFFICES ASSUME NEW i \in 1 .. Len(out) + 1
                 PROVE  LET b1 == rows[i].block
                            end == LastHeight(rows[i].no, Span)
                        IN /\ Unit(b1.height, Span) = rows[i].no
                           /\ b1 \in seen
                           /\ b1.height <= low => b1 \in OnChain
                           /\ end <= low => b1 = BlockAt(end)
      BY <1>1, <2>4, <2>5
         DEF RowsAreTrue, Unchanging, Span, OnChain, TipHeight, BlockAt, Unit, LastHeight
    <3>1. CASE i \in 1 .. Len(out)
      BY <2>4, <3>1 DEF IInv, RowsAreTrue
    <3>2. CASE i = Len(out) + 1
      BY <2>2, <2>4, <3>2
    <3> QED BY <1>1, <3>1, <3>2
  <2> HIDE DEF rows
  <2> QED BY <1>1, <2>3, <2>4, <2>5, <2>6, <2>7, LoopKeeps
<1>3. CASE Found = {} /\ Finish(out) /\ UNCHANGED out
  BY <1>1, <1>3, FinishKeeps DEF Unchanging
<1> QED BY <1>2, <1>3 DEF FetchItem

LEMMA CallFailsStep == IInv /\ CallFails => IInv'
<1> SUFFICES ASSUME IInv, CallFails PROVE IInv'
  OBVIOUS
<1>1. hash' \in Blocks \cup {NoHash}
  BY DEF IInv, TypeOK, CallFails
<1> QED BY <1>1, RefuseKeeps DEF CallFails

(* The chain moves: a row below the lowest tip is where it was, and so is   *)
(* the block an epoch ended with.                                           *)
LEMMA ChainMovesStep == IInv /\ ChainMoves => IInv'
<1> SUFFICES ASSUME IInv, ChainMoves PROVE IInv'
  OBVIOUS
<1>1. /\ ChainTypeOK' /\ ChainTypeOK
      /\ \A h \in 0 .. TipHeight' : h <= TipHeight => BlockAt(h)' = BlockAt(h)
  BY ChainStep DEF IInv, TypeOK, ChainMoves
<1>2. TipHeight \in 0 .. MaxHeight /\ TipHeight' \in 0 .. MaxHeight
  BY <1>1, TipInRange, ChainAssumption DEF ChainTypeOK, TipHeight
<1>3. /\ low' \in 0 .. MaxHeight /\ low' <= low /\ low' <= TipHeight'
      /\ low' <= TipHeight /\ low \in 0 .. MaxHeight
  BY <1>2 DEF IInv, TypeOK, ChainMoves, HistoryFits, TipHeight
<1>4. OnChain' \subseteq Blocks
  <2> SUFFICES ASSUME NEW h \in 0 .. TipHeight'
               PROVE  [height |-> h, fork |-> chain'[h + 1]] \in Blocks
    BY DEF OnChain, BlockAt
  <2>1. \A i \in 1 .. Len(chain') : chain'[i] \in Forks
    BY <1>1 DEF ChainTypeOK
  <2>2. Len(chain') \in Nat /\ TipHeight' = Len(chain') - 1
    BY <1>1 DEF ChainTypeOK, TipHeight
  <2>3. h + 1 \in 1 .. Len(chain') /\ h \in 0 .. MaxHeight
    BY <1>2, <2>2, ChainAssumption
  <2> QED BY <2>1, <2>3 DEF Blocks
<1>5. UNCHANGED walkVars /\ seen' = seen \cup IF pc = "idle" THEN {} ELSE OnChain'
  BY DEF ChainMoves
<1>6. TypeOK'
  BY <1>1, <1>3, <1>4, <1>5 DEF IInv, TypeOK, walkVars
<1>7. HistoryFits'
  BY <1>3, <1>5 DEF HistoryFits, walkVars
<1>8. RowsAreTrue'
  <2> SUFFICES ASSUME NEW i \in 1 .. Len(out), NEW b, b = out[i].block,
                      NEW end, end = LastHeight(out[i].no, Span)
               PROVE  /\ Unit(b.height, Span) = out[i].no
                      /\ b \in seen'
                      /\ b.height <= low' => b \in OnChain'
                      /\ end <= low' => b = BlockAt(end)'
    BY <1>5 DEF RowsAreTrue, walkVars, Span, Unit, LastHeight, BlockAt
  <2>1. /\ Unit(b.height, Span) = out[i].no /\ b \in seen /\ b \in seen'
        /\ b.height <= low => b \in OnChain
        /\ end <= low => b = BlockAt(end)
    BY <1>5 DEF IInv, RowsAreTrue
  <2>2. b \in Blocks /\ out[i].no \in 0 .. MaxHeight
    <3>1. out \in Seq(Rows)
      BY DEF IInv, TypeOK
    <3>2. out[i] \in Rows
      BY <3>1
    <3> QED BY <3>2 DEF Rows
  <2>3. end \in Nat
    <3>1. out[i].no \in Nat
      BY <2>2, ChainAssumption
    <3> QED BY <3>1, SpanType, SMTT(30) DEF LastHeight
  <2>4. b.height \in Nat
    BY <2>2, ChainAssumption DEF Blocks
  <2>5. ASSUME b.height <= low' PROVE b \in OnChain'
    <3>1. b \in OnChain /\ b.height \in 0 .. TipHeight'
      BY <1>2, <1>3, <2>1, <2>4, <2>5, ChainAssumption
    <3>2. b = BlockAt(b.height) /\ b.height \in 0 .. TipHeight
      BY <1>1, <3>1, OnChainBlocks
    <3>3. b = BlockAt(b.height)'
      BY <1>1, <1>2, <3>1, <3>2, ChainAssumption
    <3> QED BY <3>1, <3>3 DEF OnChain
  <2>6. ASSUME end <= low' PROVE b = BlockAt(end)'
    <3>1. end \in 0 .. TipHeight' /\ end <= TipHeight /\ end <= low
      BY <1>2, <1>3, <2>3, <2>6, ChainAssumption
    <3> QED BY <1>1, <2>1, <3>1
  <2> QED BY <2>1, <2>5, <2>6
<1> QED
  BY <1>5, <1>6, <1>7, <1>8
     DEF IInv, HashFits, LoopFits, AskFits, walkVars, Wanted, First

LEMMA NextIInv == IInv /\ [Next]_vars => IInv'
<1> SUFFICES ASSUME IInv, [Next]_vars PROVE IInv'
  OBVIOUS
<1>1. CASE UNCHANGED vars
  BY <1>1 DEF IInv, TypeOK, HashFits, LoopFits, HistoryFits, AskFits, RowsAreTrue,
              vars, ChainTypeOK, TipHeight, OnChain, BlockAt, Span, Wanted, First,
              Unit, LastHeight
<1> QED
  BY <1>1, AskStep, ResolveStep, FetchAnchorStep, ReadTipStep, FetchItemStep,
     CallFailsStep, ChainMovesStep DEF Next, Step

LEMMA Invariance == Spec => []IInv
BY InitIInv, NextIInv, PTL DEF Spec

-----------------------------------------------------------------------------
(* What keeps a page from ending early: the tip it was read against is no   *)
(* lower than the lowest since, and a resolved hash stays good below it.    *)
LookupFits ==
  /\ pc = "anchor" => ask.what = "blocks"
  /\ pc = "item" => (last + 1) * Span > low
  /\ pc \in {"anchor", "item"} /\ hash # NoHash /\ hash.height <= low => hash \in OnChain
  /\ pc = "anchor" /\ hash # NoHash =>
       ask.anchor.by = "number" /\ hash.height = ask.anchor.no

MInv == IInv /\ LookupFits /\ NothingIsMissing

(* Settled blocks stay, and no block comes to lie below the lowest tip.     *)
LEMMA SettledStays ==
  ASSUME IInv, ChainMoves
  PROVE  /\ low' <= low /\ low \in Int /\ low' \in Int
         /\ \A b \in Blocks : b.height <= low' => (b \in OnChain' <=> b \in OnChain)
<1>1. /\ ChainTypeOK' /\ ChainTypeOK
      /\ \A h \in 0 .. TipHeight' : h <= TipHeight => BlockAt(h)' = BlockAt(h)
  BY ChainStep DEF IInv, TypeOK, ChainMoves
<1>2. TipHeight \in 0 .. MaxHeight /\ TipHeight' \in 0 .. MaxHeight
  BY <1>1, TipInRange, ChainAssumption DEF ChainTypeOK, TipHeight
<1>3. /\ low' \in 0 .. MaxHeight /\ low' <= low /\ low' <= TipHeight'
      /\ low' <= TipHeight /\ low \in 0 .. MaxHeight
  BY <1>2 DEF IInv, TypeOK, ChainMoves, HistoryFits, TipHeight
<1>4. ASSUME NEW b \in Blocks, b.height <= low' PROVE b \in OnChain' <=> b \in OnChain
  <2>1. b.height \in 0 .. TipHeight /\ b.height \in 0 .. TipHeight'
    BY <1>2, <1>3, <1>4, ChainAssumption DEF Blocks
  <2>2. BlockAt(b.height)' = BlockAt(b.height)
    BY <1>1, <1>2, <2>1, ChainAssumption
  <2>3. b \in OnChain <=> b = BlockAt(b.height)
    BY <2>1 DEF OnChain, BlockAt
  <2>4. b \in OnChain' <=> b = BlockAt(b.height)'
    BY <2>1 DEF OnChain, BlockAt
  <2> QED BY <2>2, <2>3, <2>4
<1> QED BY <1>3, <1>4, ChainAssumption

(* A number that no row is found for is negative or beyond the tip.         *)
LEMMA NoRowsBeyond ==
  ASSUME ChainTypeOK, NEW n \in Int, NEW s \in Nat \ {0}, RowsAt(n, s) = {}
  PROVE  n < 0 \/ n * s > TipHeight
<1>1. /\ TipHeight \in Nat /\ Unit(TipHeight, s) \in Nat
      /\ TipHeight < (Unit(TipHeight, s) + 1) * s
  BY TipInRange, UnitBounds, SMTT(30) DEF LastHeight
<1>2. n \notin 0 .. Unit(TipHeight, s)
  BY DEF RowsAt
<1>3. CASE n >= Unit(TipHeight, s) + 1
  <2>1. n * s >= (Unit(TipHeight, s) + 1) * s
    BY <1>1, <1>3, SMTT(30)
  <2> QED BY <1>1, <2>1, SMTT(30)
<1> QED BY <1>1, <1>2, <1>3

(* Where the loop's head ends a page that is short.                         *)
LEMMA LoopEnds ==
  ASSUME TypeOK, pc # "idle", NEW rows \in Seq(Rows), NEW t \in Nat,
         (t + 1) * Span > low, ~GoesOn(rows, t), Len(rows) < ask.count
  PROVE  Wanted(rows) < 0 \/ Wanted(rows) * Span > low
<1>1. Wanted(rows) \in Int /\ low \in Int /\ Span \in Nat \ {0}
  BY WantedType, SpanType, ChainAssumption DEF TypeOK
<1>2. Wanted(rows) < 0 \/ Wanted(rows) >= t + 1
  BY <1>1 DEF GoesOn
<1>3. CASE Wanted(rows) >= t + 1
  <2>1. Wanted(rows) * Span >= (t + 1) * Span
    BY <1>1, <1>3, SMTT(30)
  <2> QED BY <1>1, <2>1, SMTT(30)
<1> QED BY <1>2, <1>3

(* A lookup that finds nothing was for what is not settled.                 *)
LEMMA NotFoundBeyond ==
  ASSUME MInv, pc \in {"anchor", "item"}, ~Resolving, Found = {}
  PROVE  IF Target.by = "hash" THEN Target.block \notin OnChain
         ELSE Target.no < 0 \/ Target.no * Span > low
<1>1. /\ ChainTypeOK /\ ask \in Request /\ low \in Int /\ low <= TipHeight
      /\ TipHeight \in Int /\ Span \in Nat \ {0}
  BY SpanType, TipInRange, ChainAssumption DEF MInv, IInv, TypeOK, HistoryFits
<1>2. Target.by # "hash" => Target.no \in Int
  <2>1. CASE pc = "anchor"
    BY <1>1, <2>1 DEF Target, Request
  <2>2. CASE pc = "item"
    BY <2>2, WantedType DEF Target, Number, MInv, IInv, TypeOK
  <2> QED BY <2>1, <2>2
<1>3. CASE Target.by = "hash"
  BY <1>3 DEF Found, RowsWith
<1>4. CASE Target.by # "hash" /\ ByHash
  <2>1. hash \notin OnChain /\ Span = 1
    BY <1>4 DEF Found, RowsWith, ByHash, Span
  <2>2. Target.by = "number"
    <3>1. CASE pc = "anchor"
      BY <1>1, <1>4, <3>1 DEF Target, Request
    <3>2. CASE pc = "item"
      BY <3>2 DEF Target, Number
    <3> QED BY <3>1, <3>2
  <2>3. hash # NoHash /\ hash \in Blocks
    BY <1>4, <2>2 DEF Resolving, MInv, IInv, TypeOK
  <2>4. hash.height = Target.no
    BY <2>3 DEF MInv, IInv, LookupFits, HashFits, Target, Number
  <2>5. ~(hash.height <= low)
    BY <2>1, <2>3 DEF MInv, LookupFits
  <2>6. Target.no > low
    BY <1>1, <1>2, <1>4, <2>4, <2>5
  <2> QED BY <1>2, <1>4, <2>1, <2>6, SMTT(30)
<1>5. CASE Target.by # "hash" /\ ~ByHash
  <2>1. RowsAt(Target.no, Span) = {}
    BY <1>5 DEF Found
  <2>2. Target.no < 0 \/ Target.no * Span > TipHeight
    BY <1>1, <1>2, <1>5, <2>1, NoRowsBeyond
  <2> QED BY <1>1, <1>2, <1>5, <2>2, SMTT(30)
<1> QED BY <1>3, <1>4, <1>5

-----------------------------------------------------------------------------
LEMMA MInvInit == Init => MInv
BY InitIInv DEF Init, MInv, LookupFits, NothingIsMissing

LEMMA MInvBegin ==
  ASSUME MInv, (AskFirst \/ AskNext)
  PROVE  MInv'
<1>1. IInv'
  BY AskStep DEF MInv
<1>2. /\ pc' \in {"anchor", "tip"} /\ hash' = NoHash
      /\ pc' = "anchor" => ask'.what = "blocks"
  BY DEF AskFirst, AskNext, Begin
<1> QED BY <1>1, <1>2 DEF MInv, LookupFits, NothingIsMissing

(* A page that ends, its rows unchanged, where what comes next is not       *)
(* settled.                                                                 *)
LEMMA MInvFinish ==
  ASSUME IInv', pc' = "done", status' = "ok", UNCHANGED <<chain, ask, base, low>>,
         Len(out') < ask.count => Wanted(out') < 0 \/ Wanted(out') * Span > low
  PROVE  MInv'
BY DEF MInv, LookupFits, NothingIsMissing, Wanted, First, Span

LEMMA MInvLoop ==
  ASSUME MInv, IInv', pc # "idle", NEW rows \in Seq(Rows), NEW t \in Nat,
         Loop(rows, t), last' = t, hash' = NoHash, Unchanging, UNCHANGED base,
         (t + 1) * Span > low
  PROVE  MInv'
<1>1. out' = rows /\ UNCHANGED <<chain, ask, base, low>>
  BY DEF Loop, Unchanging
<1>2. CASE GoesOn(rows, t)
  <2>1. pc' = "item" /\ (last' + 1) * Span' > low'
    BY <1>1, <1>2 DEF Loop, Span
  <2> QED BY <2>1 DEF MInv, LookupFits, NothingIsMissing
<1>3. CASE ~GoesOn(rows, t)
  <2>1. pc' = "done" /\ status' = "ok"
    BY <1>3 DEF Loop, Finish
  <2>2. Len(rows) < ask.count => Wanted(rows) < 0 \/ Wanted(rows) * Span > low
    BY <1>3, LoopEnds DEF MInv, IInv
  <2> QED BY <1>1, <2>1, <2>2, MInvFinish DEF Wanted, First
<1> QED BY <1>2, <1>3

LEMMA MInvRefuse ==
  ASSUME MInv, IInv', Refuse("notfound"), Unchanging, pc = "anchor",
         IF Target.by = "hash" THEN Target.block \notin OnChain
         ELSE Target.no < 0 \/ Target.no > low
  PROVE  MInv'
<1>1. /\ Target = ask.anchor /\ ask \in Request /\ Fits(ask)
      /\ ask.what = "blocks" /\ low \in Int
  BY DEF Target, MInv, IInv, TypeOK, AskFits, LookupFits
<1>2. IF ask.anchor.by = "hash" THEN ask.anchor.block \notin OnChain
      ELSE ask.anchor.no > low
  <2>1. ask.anchor.by # "hash" => ask.anchor.no \in Int /\ ask.anchor.no >= 0
    BY <1>1 DEF Request, Fits
  <2> QED BY <1>1, <2>1
<1>3. /\ pc' = "done" /\ status' = "notfound"
      /\ UNCHANGED <<chain, ask, low>> /\ OnChain' = OnChain
  BY DEF Refuse, Unchanging, OnChain, TipHeight, BlockAt
<1> QED BY <1>2, <1>3 DEF MInv, LookupFits, NothingIsMissing

LEMMA MInvResolve ==
  ASSUME MInv, Resolve
  PROVE  MInv'
<1>1. /\ IInv' /\ pc \in {"anchor", "item"} /\ Target.by = "number" /\ Unchanging
      /\ UNCHANGED <<base, last>> /\ ChainTypeOK /\ ask \in Request /\ ByHash
      /\ low \in Int /\ low <= TipHeight /\ TipHeight \in Int
  BY ResolveStep, TipInRange, ChainAssumption
     DEF Resolve, Resolving, MInv, IInv, TypeOK, HistoryFits
<1>2. Target.no \in Int
  <2>1. CASE pc = "anchor"
    BY <1>1, <2>1 DEF Target, Request
  <2>2. CASE pc = "item"
    BY <1>1, <2>2, WantedType DEF Target, Number, MInv, IInv, TypeOK
  <2> QED BY <1>1, <2>1, <2>2
<1>3. CASE /\ \E b \in RowsAt(Target.no, 1) : hash' = b
           /\ UNCHANGED <<pc, out, status, pages>>
  <2>1. PICK b \in RowsAt(Target.no, 1) : hash' = b
    BY <1>3
  <2>2. b.height = Target.no /\ b \in OnChain
    BY <1>1, <1>2, <2>1, BlockOfNumber, RowsOfUnit
  <2>3. OnChain' = OnChain /\ UNCHANGED <<ask, low, last, pc>> /\ Span' = Span
    BY <1>1, <1>3 DEF Unchanging, OnChain, TipHeight, BlockAt, Span
  <2>4. pc = "anchor" => Target = ask.anchor
    BY DEF Target
  <2>5. LookupFits'
    BY <1>1, <2>1, <2>2, <2>3, <2>4 DEF LookupFits, MInv
  <2> QED BY <1>1, <2>3, <2>5 DEF MInv, NothingIsMissing
<1>4. CASE /\ RowsAt(Target.no, 1) = {}
           /\ IF pc = "anchor" THEN Refuse("notfound") ELSE Finish(out)
           /\ UNCHANGED <<hash, out>>
  <2>1. Target.no < 0 \/ Target.no > low
    <3>1. Target.no < 0 \/ Target.no * 1 > TipHeight
      BY <1>1, <1>2, <1>4, NoRowsBeyond
    <3> QED BY <1>1, <1>2, <3>1
  <2>2. CASE pc = "anchor"
    BY <1>1, <1>4, <2>1, <2>2, MInvRefuse
  <2>3. CASE pc = "item"
    <3>1. Span = 1 /\ Target.no = Wanted(out)
      BY <1>1, <2>3 DEF ByHash, Span, Target, Number
    <3>2. Wanted(out) < 0 \/ Wanted(out) * Span > low
      BY <1>2, <2>1, <3>1
    <3>3. pc' = "done" /\ status' = "ok" /\ out' = out /\ UNCHANGED <<chain, ask, low>>
      BY <1>1, <1>4, <2>3 DEF Finish, Unchanging
    <3> QED BY <1>1, <3>2, <3>3, MInvFinish
  <2> QED BY <1>1, <2>2, <2>3
<1> QED BY <1>3, <1>4 DEF Resolve

LEMMA MInvFetchAnchor ==
  ASSUME MInv, FetchAnchor
  PROVE  MInv'
<1>1. IInv' /\ pc = "anchor" /\ ~Resolving /\ Unchanging /\ hash' = NoHash
  BY FetchAnchorStep DEF FetchAnchor, MInv
<1>2. CASE pc' = "tip"
  BY <1>1, <1>2 DEF MInv, LookupFits, NothingIsMissing
<1>3. CASE Found = {} /\ Refuse("notfound")
  <2>1. Span = 1 /\ Target = ask.anchor /\ ask \in Request
    BY <1>1 DEF MInv, IInv, TypeOK, LookupFits, Span, Target
  <2>2. IF Target.by = "hash" THEN Target.block \notin OnChain
        ELSE Target.no < 0 \/ Target.no * Span > low
    BY <1>1, <1>3, NotFoundBeyond
  <2>3. Target.by # "hash" => Target.no \in Int
    BY <2>1 DEF Request
  <2> QED BY <1>1, <1>3, <2>1, <2>2, <2>3, MInvRefuse
<1> QED BY <1>2, <1>3 DEF FetchAnchor

LEMMA MInvReadTip ==
  ASSUME MInv, ReadTip
  PROVE  MInv'
<1> DEFINE t == Unit(TipHeight, Span)
<1>1. /\ IInv' /\ pc = "tip" /\ last' = t /\ Loop(out, t) /\ UNCHANGED <<hash, base>>
      /\ Unchanging /\ out \in Seq(Rows) /\ hash = NoHash /\ ChainTypeOK
  BY ReadTipStep DEF ReadTip, MInv, IInv, TypeOK, HashFits
<1>2. t \in Nat /\ TipHeight < (t + 1) * Span /\ Span \in Nat \ {0} /\ TipHeight \in Nat
  <2>1. Span \in Nat \ {0} /\ TipHeight \in Nat
    BY <1>1, SpanType, TipInRange, ChainAssumption
  <2>2. t \in Nat /\ TipHeight <= LastHeight(t, Span)
    BY <2>1, UnitBounds
  <2> HIDE DEF t
  <2>3. LastHeight(t, Span) < (t + 1) * Span /\ LastHeight(t, Span) \in Int
        /\ (t + 1) * Span \in Int
    BY <2>1, <2>2, SMTT(30) DEF LastHeight
  <2> QED BY <2>1, <2>2, <2>3
<1>3. low <= TipHeight /\ low \in Int
  BY ChainAssumption DEF MInv, IInv, HistoryFits, TypeOK
<1> HIDE DEF t
<1>4. (t + 1) * Span > low
  BY <1>2, <1>3, SMTT(30)
<1> QED BY <1>1, <1>2, <1>4, MInvLoop

LEMMA MInvFetchItem ==
  ASSUME MInv, FetchItem
  PROVE  MInv'
<1>1. /\ IInv' /\ pc = "item" /\ ~Resolving /\ hash' = NoHash
      /\ UNCHANGED <<base, last>> /\ Unchanging /\ Target = Number(Wanted(out))
      /\ last \in Nat /\ (last + 1) * Span > low
  <2>1. IInv' /\ pc = "item" /\ last \in 0 .. MaxHeight
    BY FetchItemStep DEF FetchItem, MInv, IInv, TypeOK
  <2>2. (last + 1) * Span > low
    BY <2>1 DEF MInv, LookupFits
  <2> QED BY <2>1, <2>2, ChainAssumption DEF FetchItem, Target
<1>2. CASE \E b \in Found : Loop(Append(out, [no |-> Target.no, block |-> b]), last)
  <2>1. PICK b \in Found : Loop(Append(out, [no |-> Target.no, block |-> b]), last)
    BY <1>2
  <2> DEFINE rows == Append(out, [no |-> Target.no, block |-> b])
  <2>2. rows \in Seq(Rows)
    BY <1>1, <2>1 DEF MInv, IInv, TypeOK, Loop
  <2> QED BY <1>1, <2>1, <2>2, MInvLoop
<1>3. CASE Found = {} /\ Finish(out) /\ UNCHANGED out
  <2>1. Wanted(out) < 0 \/ Wanted(out) * Span > low
    BY <1>1, <1>3, NotFoundBeyond DEF Number
  <2>2. pc' = "done" /\ status' = "ok" /\ UNCHANGED <<chain, ask, low, base, out>>
    BY <1>1, <1>3 DEF Finish, Unchanging
  <2> QED BY <1>1, <2>1, <2>2, MInvFinish
<1> QED BY <1>2, <1>3 DEF FetchItem

LEMMA MInvCallFails ==
  ASSUME MInv, CallFails
  PROVE  MInv'
<1>1. IInv' /\ pc' = "done" /\ status' = "error"
  BY CallFailsStep DEF CallFails, Refuse, MInv
<1> QED BY <1>1 DEF MInv, LookupFits, NothingIsMissing

LEMMA MInvChainMoves ==
  ASSUME MInv, ChainMoves
  PROVE  MInv'
<1>1. /\ IInv' /\ IInv /\ UNCHANGED walkVars
      /\ low' <= low /\ low \in Int /\ low' \in Int
      /\ \A b \in Blocks : b.height <= low' => (b \in OnChain' <=> b \in OnChain)
  BY ChainMovesStep, SettledStays DEF ChainMoves, MInv
<1>2. /\ Span' = Span /\ Wanted(out)' = Wanted(out) /\ UNCHANGED <<pc, ask, out, status, hash, last>>
  BY <1>1 DEF walkVars, Span, Wanted, First
<1>3. ASSUME NEW x \in Int, x > low PROVE x > low'
  BY <1>1, <1>3
<1>4. /\ Span \in Nat \ {0}
      /\ pc # "idle" => Wanted(out) \in Int /\ ask \in Request
      /\ last \in Int /\ hash \in Blocks \cup {NoHash}
  BY SpanType, WantedType, ChainAssumption DEF MInv, IInv, TypeOK
<1>5. LookupFits'
  <2>1. (last + 1) * Span \in Int
    BY <1>4, SMTT(30)
  <2>2. pc = "item" => (last + 1) * Span > low'
    BY <1>3, <2>1 DEF MInv, LookupFits
  <2>3. ASSUME pc \in {"anchor", "item"}, hash # NoHash, hash.height <= low'
        PROVE  hash \in OnChain'
    <3>1. hash \in Blocks /\ hash.height \in Int
      BY <1>4, <2>3 DEF Blocks
    <3>2. hash.height <= low
      BY <1>1, <2>3, <3>1
    <3> QED BY <1>1, <2>3, <3>1, <3>2 DEF MInv, LookupFits
  <2> QED BY <1>2, <2>2, <2>3 DEF MInv, LookupFits
<1>6. NothingIsMissing'
  <2> SUFFICES ASSUME pc = "done" PROVE NothingIsMissing'
    BY <1>2 DEF NothingIsMissing
  <2>1. Wanted(out) * Span \in Int
    BY <1>4, SMTT(30)
  <2>2. status = "ok" /\ Len(out) < ask.count =>
          Wanted(out) < 0 \/ Wanted(out) * Span > low'
    BY <1>3, <2>1 DEF MInv, NothingIsMissing
  <2>3. ASSUME status = "notfound"
        PROVE  IF ask.anchor.by = "hash"
               THEN ask.anchor.block \notin OnChain' \/ ask.anchor.block.height > low'
               ELSE ask.anchor.no > low'
    <3>1. CASE ask.anchor.by = "hash"
      <4>1. ask.anchor.block \in Blocks /\ ask.anchor.block.height \in Int
        BY <1>4, <3>1 DEF Request, Blocks
      <4>2. ask.anchor.block \notin OnChain \/ ask.anchor.block.height > low
        BY <2>3, <3>1 DEF MInv, NothingIsMissing
      <4> QED BY <1>1, <3>1, <4>1, <4>2
    <3>2. CASE ask.anchor.by # "hash"
      <4>1. ask.anchor.no \in Int
        BY <1>4, <3>2 DEF Request
      <4>2. ask.anchor.no > low
        BY <2>3, <3>2 DEF MInv, NothingIsMissing
      <4> QED BY <1>3, <3>2, <4>1, <4>2
    <3> QED BY <3>1, <3>2
  <2> QED BY <1>2, <2>2, <2>3 DEF NothingIsMissing
<1> QED BY <1>1, <1>5, <1>6 DEF MInv

LEMMA NextMInv == MInv /\ [Next]_vars => MInv'
<1> SUFFICES ASSUME MInv, [Next]_vars PROVE MInv'
  OBVIOUS
<1>1. CASE UNCHANGED vars
  <2>1. IInv'
    BY <1>1, NextIInv DEF MInv
  <2> QED
    BY <1>1, <2>1 DEF MInv, LookupFits, NothingIsMissing, vars, TipHeight, OnChain,
                      BlockAt, Span, Wanted, First
<1> QED
  BY <1>1, MInvBegin, MInvResolve, MInvFetchAnchor, MInvReadTip, MInvFetchItem,
     MInvCallFails, MInvChainMoves DEF Next, Step

-----------------------------------------------------------------------------
(* How the pages come to lie side by side: the rows of the page under way   *)
(* are the walk's numbers one by one, the walk starts next to the anchor    *)
(* asked for, and every page the client went on from was full.              *)
Ended == pc = "done" /\ status = "ok"

Counted(rows) == \A i \in 1 .. Len(rows) : rows[i].no = First + ask.dir * (i - 1)

StartFits ==
  /\ pc = "idle" => pages = <<>>
  /\ pc \in {"anchor", "tip"} => out = <<>>
  /\ pc \in {"tip", "item"} \/ Ended => base = AnchorNo
  /\ pc \notin {"idle", "anchor"} => Counted(out)

PagesFull ==
  IF Ended
  THEN pages # <<>> /\ Len(pages[Len(pages)]) = Len(out)
  ELSE \A k \in 1 .. Len(pages) : Len(pages[k]) = ask.count

Tiles == StartFits /\ PagesFull /\ PagesTile

TileInv == MInv /\ Tiles

LEMMA AskTypes ==
  ASSUME ask \in Request, Fits(ask)
  PROVE  /\ ask.dir \in {1, -1} /\ ask.count \in Nat \ {0} /\ ask.page \in Nat \ {0}
         /\ AnchorNo \in Int
<1>1. ask.anchor.by = "number" => ask.anchor.no \in Int
  BY DEF Request
<1>2. ask.anchor.by # "number" => ask.anchor.block.height \in Int
  BY DEF Request, Blocks
<1> QED BY <1>1, <1>2 DEF Request, AnchorNo

LEMMA LengthOfAscending ==
  ASSUME NEW rows \in Seq(Rows)
  PROVE  Len(Ascending(rows)) = Len(rows)
BY DEF Ascending

LEMMA Backwards ==
  ASSUME NEW a \in Int, NEW d, d = -1, NEW m \in Int, NEW j \in Int
  PROVE  a + d * (1 + m) + d * (j - 1) = a + d * (m + j)
OBVIOUS

(* The page that rows counted one by one make, in the numbers of PagesTile. *)
LEMMA PageOfCounted ==
  ASSUME ask \in Request, Fits(ask), base = AnchorNo, NEW rows \in Seq(Rows),
         Counted(rows), NEW i \in 1 .. Len(rows)
  PROVE  Ascending(rows)[i].no =
           AnchorNo + ask.dir * ((ask.page - 1) * ask.count
                                  + IF ask.dir = 1 THEN i ELSE Len(rows) + 1 - i)
<1> DEFINE before == (ask.page - 1) * ask.count
<1>1. /\ ask.dir \in {1, -1} /\ ask.count \in Nat /\ ask.page \in Nat
      /\ AnchorNo \in Int
  BY AskTypes
<1>2. before \in Int
  BY <1>1, SMTT(30)
<1>3. First = AnchorNo + ask.dir * (1 + before)
  BY DEF First
<1> HIDE DEF before
<1>4. CASE ask.dir = 1
  <2>1. Ascending(rows)[i].no = First + 1 * (i - 1)
    BY <1>4 DEF Ascending, Counted
  <2> QED BY <1>1, <1>2, <1>3, <1>4, <2>1 DEF before
<1>5. CASE ask.dir = -1
  <2> DEFINE j == Len(rows) + 1 - i
  <2>1. j \in 1 .. Len(rows)
    OBVIOUS
  <2>2. Ascending(rows)[i] = rows[j]
    BY <1>5 DEF Ascending
  <2>3. rows[j].no = First + ask.dir * (j - 1)
    BY <2>1 DEF Counted
  <2>4. AnchorNo + ask.dir * (1 + before) + ask.dir * (j - 1)
          = AnchorNo + ask.dir * (before + j)
    BY <1>1, <1>2, <1>5, <2>1, Backwards
  <2>5. rows[j].no = AnchorNo + ask.dir * (before + j)
    BY <1>3, <2>3, <2>4, Zenon
  <2> QED BY <1>5, <2>2, <2>5 DEF before
<1> QED BY <1>1, <1>4, <1>5

(* A page is answered.                                                      *)
LEMMA TilesFinish ==
  ASSUME TileInv, pc \in {"tip", "item"}, NEW rows \in Seq(Rows), Counted(rows),
         Finish(rows), out' = rows, UNCHANGED <<ask, base>>
  PROVE  Tiles'
<1> DEFINE n == Len(pages)
           p == Ascending(rows)
<1>1. /\ ask \in Request /\ Fits(ask) /\ base = AnchorNo /\ ~Ended
      /\ pages \in Seq(Seq(Rows)) /\ n \in Nat /\ ask.page \in Int
  BY AskTypes
     DEF TileInv, MInv, IInv, TypeOK, AskFits, Tiles, StartFits, Ended
<1>2. /\ pc' = "done" /\ status' = "ok" /\ Ended' /\ pages' = Append(pages, p)
      /\ AnchorNo' = AnchorNo
  BY DEF Finish, Ended, AnchorNo
<1>3. p \in Seq(Rows) /\ Len(p) = Len(rows)
  BY AscendingType, LengthOfAscending
<1>4. /\ Len(pages') = n + 1 /\ pages'[n + 1] = p
      /\ \A k \in 1 .. n : pages'[k] = pages[k]
  BY <1>1, <1>2, <1>3
<1>5. FirstPage' = FirstPage /\ FirstPage = ask.page - n
  <2>1. FirstPage = ask.page - n
    BY <1>1 DEF FirstPage, Ended
  <2>2. FirstPage' = ask.page - (n + 1) + 1
    BY <1>2, <1>4 DEF FirstPage
  <2> QED BY <1>1, <2>1, <2>2
<1>6. StartFits'
  <2>1. Counted(rows)'
    BY DEF Counted, First
  <2> QED BY <1>1, <1>2, <2>1 DEF StartFits, Counted, First
<1>7. PagesFull'
  <2> HIDE DEF n
  <2>1. pages' # <<>> /\ pages'[Len(pages')] = p
    BY <1>1, <1>4
  <2>2. Len(p) = Len(out')
    BY <1>3
  <2> HIDE DEF p
  <2> QED BY <1>2, <2>1, <2>2 DEF PagesFull
<1>8. PagesTile'
  <2> SUFFICES ASSUME NEW k \in 1 .. n + 1
               PROVE  /\ k < n + 1 => Len(pages'[k]) = ask.count
                      /\ \A i \in 1 .. Len(pages'[k]) :
                           pages'[k][i].no = AnchorNo + ask.dir *
                             ((FirstPage + k - 2) * ask.count
                                + IF ask.dir = 1 THEN i ELSE Len(pages'[k]) + 1 - i)
    BY <1>2, <1>4, <1>5 DEF PagesTile
  <2>1. CASE k \in 1 .. n
    <3>1. pages'[k] = pages[k] /\ Len(pages[k]) = ask.count
      BY <1>1, <1>4, <2>1 DEF TileInv, Tiles, PagesFull
    <3> QED BY <2>1, <3>1 DEF TileInv, Tiles, PagesTile
  <2>2. CASE k = n + 1
    <3>1. pages'[k] = p /\ FirstPage + k - 2 = ask.page - 1
      BY <1>1, <1>4, <1>5, <2>2
    <3> HIDE DEF p, n
    <3>2. \A i \in 1 .. Len(p) :
            p[i].no = AnchorNo + ask.dir * ((ask.page - 1) * ask.count
                                 + IF ask.dir = 1 THEN i ELSE Len(p) + 1 - i)
      BY <1>1, <1>3, PageOfCounted DEF p
    <3> QED BY <1>1, <2>2, <3>1, <3>2
  <2> QED BY <1>1, <2>1, <2>2
<1> QED BY <1>6, <1>7, <1>8 DEF Tiles

(* No page is answered.                                                     *)
LEMMA TilesKeep ==
  ASSUME TileInv, ~Ended, ~Ended', pc # "idle", pc' # "idle",
         UNCHANGED <<ask, pages>>, StartFits'
  PROVE  Tiles'
<1>1. AnchorNo' = AnchorNo /\ FirstPage' = FirstPage
  BY DEF AnchorNo, FirstPage, Ended
<1> QED BY <1>1 DEF TileInv, Tiles, PagesFull, PagesTile

LEMMA TilesRefuse ==
  ASSUME TileInv, pc \in {"anchor", "tip", "item"}, NEW s \in {"notfound", "error"},
         Refuse(s), UNCHANGED <<ask, out, base>>
  PROVE  Tiles'
<1>1. ~Ended /\ ~Ended' /\ pc' = "done" /\ UNCHANGED pages
  BY DEF Ended, Refuse
<1>2. Counted(out)'
  <2>1. CASE pc = "anchor"
    BY <2>1 DEF TileInv, Tiles, StartFits, Counted
  <2>2. CASE pc # "anchor"
    BY <2>2 DEF TileInv, Tiles, StartFits, Counted, First
  <2> QED BY <2>1, <2>2
<1>3. StartFits'
  BY <1>1, <1>2 DEF StartFits
<1> QED BY <1>1, <1>3, TilesKeep

LEMMA TilesLoop ==
  ASSUME TileInv, pc \in {"tip", "item"}, NEW rows \in Seq(Rows), Counted(rows),
         NEW t, Loop(rows, t), UNCHANGED <<ask, base>>
  PROVE  Tiles'
<1>1. CASE GoesOn(rows, t)
  <2>1. pc' = "item" /\ UNCHANGED <<status, pages>> /\ out' = rows /\ ~Ended /\ ~Ended'
    BY <1>1 DEF Loop, Ended
  <2>2. base = AnchorNo /\ AnchorNo' = AnchorNo /\ Counted(out)'
    BY <2>1 DEF TileInv, Tiles, StartFits, AnchorNo, Counted, First
  <2>3. StartFits'
    BY <2>1, <2>2 DEF StartFits
  <2> QED BY <2>1, <2>3, TilesKeep
<1>2. CASE ~GoesOn(rows, t)
  BY <1>2, TilesFinish DEF Loop
<1> QED BY <1>1, <1>2

LEMMA TilesAskFirst ==
  ASSUME TileInv, AskFirst
  PROVE  Tiles'
<1>1. /\ pages = <<>> /\ pages' = <<>> /\ out' = <<>>
      /\ pc' \in {"anchor", "tip"} /\ status' = "none"
  BY DEF TileInv, Tiles, StartFits, AskFirst, Begin
<1>2. pc' = "tip" => base' = AnchorNo'
  <2>1. PICK a \in Asks : Begin(a)
    BY DEF AskFirst
  <2>2. a \in Request /\ Fits(a)
    BY <2>1, WalkAssumption DEF Fits
  <2> QED BY <2>1, <2>2 DEF Begin, Fits, AnchorNo, Request
<1> QED BY <1>1, <1>2 DEF Tiles, StartFits, PagesFull, PagesTile, Ended, Counted

LEMMA TilesAskNext ==
  ASSUME TileInv, AskNext
  PROVE  Tiles'
<1> DEFINE a == [ask EXCEPT !.page = @ + 1]
<1>1. /\ Ended /\ ask \in Request /\ Fits(ask) /\ Len(out) = ask.count
      /\ pages \in Seq(Seq(Rows)) /\ UNCHANGED pages
  BY DEF TileInv, MInv, IInv, TypeOK, AskFits, AskNext, Ended
<1>2. /\ ask' = a /\ a.page = ask.page + 1 /\ a.count = ask.count /\ a.dir = ask.dir
      /\ a.anchor = ask.anchor /\ a.what = ask.what /\ ask.page \in Int
      /\ pc' \in {"anchor", "tip"} /\ ~Ended' /\ out' = <<>> /\ pc' # "idle"
      /\ pc' = "tip" => a.what = "epochs" /\ base' = a.anchor.no
  BY <1>1 DEF AskNext, Begin, Request, Ended
<1> HIDE DEF a
<1>3. AnchorNo' = AnchorNo /\ FirstPage' = FirstPage
  BY <1>1, <1>2 DEF AnchorNo, FirstPage, Ended
<1>4. StartFits'
  BY <1>1, <1>2, <1>3 DEF StartFits, Fits, AnchorNo, Ended, Counted
<1>5. \A k \in 1 .. Len(pages) : Len(pages[k]) = ask.count
  BY <1>1 DEF TileInv, Tiles, PagesFull, PagesTile
<1> QED
  BY <1>1, <1>2, <1>3, <1>4, <1>5 DEF TileInv, Tiles, PagesFull, PagesTile

LEMMA TilesResolve ==
  ASSUME TileInv, Resolve
  PROVE  Tiles'
<1>1. pc \in {"anchor", "item"} /\ UNCHANGED <<ask, base>> /\ out \in Seq(Rows)
  BY DEF Resolve, Unchanging, TileInv, MInv, IInv, TypeOK
<1>2. CASE UNCHANGED <<pc, out, status, pages>>
  <2>1. StartFits'
    BY <1>1, <1>2
       DEF TileInv, Tiles, StartFits, AnchorNo, Counted, First, Ended
  <2> QED BY <1>1, <1>2, <2>1, TilesKeep DEF Ended
<1>3. CASE /\ IF pc = "anchor" THEN Refuse("notfound") ELSE Finish(out)
           /\ UNCHANGED <<hash, out>>
  <2>1. CASE pc = "anchor"
    BY <1>1, <1>3, <2>1, TilesRefuse
  <2>2. CASE pc = "item"
    <3>1. Counted(out)
      BY <2>2 DEF TileInv, Tiles, StartFits
    <3> QED BY <1>1, <1>3, <2>2, <3>1, TilesFinish
  <2> QED BY <1>1, <2>1, <2>2
<1> QED BY <1>2, <1>3 DEF Resolve

LEMMA TilesFetchAnchor ==
  ASSUME TileInv, FetchAnchor
  PROVE  Tiles'
<1>1. /\ pc = "anchor" /\ UNCHANGED <<ask, out>> /\ ChainTypeOK /\ ask \in Request
      /\ Fits(ask) /\ ask.what = "blocks" /\ Span = 1 /\ Target = ask.anchor
      /\ out = <<>> /\ ~Resolving
  BY DEF FetchAnchor, Unchanging, TileInv, MInv, IInv, TypeOK, AskFits, LookupFits,
         Span, Target, Tiles, StartFits
<1>2. CASE (\E b \in Found : base' = b.height) /\ pc' = "tip" /\ UNCHANGED <<status, pages>>
  <2>1. PICK b \in Found : base' = b.height
    BY <1>2
  <2>2. b.height = AnchorNo
    <3>1. CASE ask.anchor.by = "hash"
      BY <1>1, <2>1, <3>1 DEF Found, RowsWith, AnchorNo
    <3>2. CASE ask.anchor.by # "hash" /\ ByHash
      <4>1. ask.anchor.by = "number" /\ hash # NoHash
        BY <1>1, <3>2 DEF Resolving, Request
      <4>2. b = hash
        BY <1>1, <2>1, <3>2 DEF Found, RowsWith
      <4> QED BY <1>1, <4>1, <4>2 DEF TileInv, MInv, LookupFits, AnchorNo
    <3>3. CASE ask.anchor.by # "hash" /\ ~ByHash
      <4>1. ask.anchor.by = "number" /\ ask.anchor.no \in Int
        BY <1>1, <3>3 DEF Request
      <4>2. b \in RowsAt(ask.anchor.no, 1)
        BY <1>1, <2>1, <3>3 DEF Found
      <4> QED BY <1>1, <4>1, <4>2, BlockOfNumber DEF AnchorNo
    <3> QED BY <3>1, <3>2, <3>3
  <2>3. AnchorNo' = AnchorNo
    BY <1>1 DEF AnchorNo
  <2>4. StartFits'
    BY <1>1, <1>2, <2>1, <2>2, <2>3 DEF StartFits, Counted
  <2> QED BY <1>1, <1>2, <2>4, TilesKeep DEF Ended
<1>3. CASE Refuse("notfound") /\ UNCHANGED base
  BY <1>1, <1>3, TilesRefuse
<1> QED BY <1>2, <1>3 DEF FetchAnchor

LEMMA TilesReadTip ==
  ASSUME TileInv, ReadTip
  PROVE  Tiles'
<1>1. pc = "tip" /\ UNCHANGED <<ask, base>> /\ out \in Seq(Rows) /\ Counted(out)
  BY DEF ReadTip, Unchanging, TileInv, MInv, IInv, TypeOK, Tiles, StartFits
<1>2. PICK t : Loop(out, t)
  BY DEF ReadTip
<1> QED BY <1>1, <1>2, TilesLoop

LEMMA TilesFetchItem ==
  ASSUME TileInv, FetchItem
  PROVE  Tiles'
<1>1. /\ pc = "item" /\ ~Resolving /\ UNCHANGED <<ask, base>> /\ out \in Seq(Rows)
      /\ Counted(out) /\ Target = Number(Wanted(out)) /\ IInv
  BY DEF FetchItem, Unchanging, TileInv, MInv, IInv, TypeOK, Tiles, StartFits, Target
<1>2. CASE \E b \in Found : Loop(Append(out, [no |-> Target.no, block |-> b]), last)
  <2>1. PICK b \in Found : Loop(Append(out, [no |-> Target.no, block |-> b]), last)
    BY <1>2
  <2> DEFINE row == [no |-> Target.no, block |-> b]
             rows == Append(out, row)
  <2>2. row \in Rows /\ row.no = First + ask.dir * Len(out)
    BY <1>1, NewRowIsTrue DEF Rows, Number, Wanted
  <2> HIDE DEF row
  <2>3. rows \in Seq(Rows) /\ Len(rows) = Len(out) + 1 /\ Len(out) \in Nat
    BY <1>1, <2>2
  <2>4. Counted(rows)
    <3> SUFFICES ASSUME NEW i \in 1 .. Len(rows)
                 PROVE  rows[i].no = First + ask.dir * (i - 1)
      BY DEF Counted
    <3>1. CASE i \in 1 .. Len(out)
      BY <1>1, <2>2, <3>1 DEF Counted
    <3>2. CASE i = Len(out) + 1
      <4>1. rows[i] = row /\ i - 1 = Len(out)
        BY <1>1, <2>3, <3>2
      <4> QED BY <2>2, <4>1
    <3> QED BY <2>3, <3>1, <3>2
  <2>5. Loop(rows, last)
    BY <2>1 DEF row
  <2> HIDE DEF rows
  <2> QED BY <1>1, <2>3, <2>4, <2>5, TilesLoop
<1>3. CASE Finish(out) /\ UNCHANGED out
  BY <1>1, <1>3, TilesFinish
<1> QED BY <1>2, <1>3 DEF FetchItem

LEMMA TilesUnmoved ==
  ASSUME TileInv, UNCHANGED walkVars
  PROVE  Tiles'
BY DEF TileInv, Tiles, StartFits, PagesFull, PagesTile, walkVars, Ended, Counted,
       First, AnchorNo, FirstPage

LEMMA NextTile == TileInv /\ [Next]_vars => TileInv'
<1> SUFFICES ASSUME TileInv, [Next]_vars PROVE TileInv'
  OBVIOUS
<1>1. MInv'
  BY NextMInv DEF TileInv
<1>2. CASE UNCHANGED vars \/ ChainMoves
  BY <1>1, <1>2, TilesUnmoved DEF vars, walkVars, ChainMoves, TileInv
<1>3. CASE CallFails
  <2>1. Tiles'
    BY <1>3, TilesRefuse DEF CallFails, Unchanging
  <2> QED BY <1>1, <2>1 DEF TileInv
<1> QED
  BY <1>1, <1>2, <1>3, TilesAskFirst, TilesAskNext, TilesResolve, TilesFetchAnchor,
     TilesReadTip, TilesFetchItem DEF Next, Step, TileInv

LEMMA InitTile == Init => TileInv
BY MInvInit
   DEF Init, TileInv, Tiles, StartFits, PagesFull, PagesTile, Ended, Counted

-----------------------------------------------------------------------------
(* The promise to the client.  The calls between two rows are stutters of   *)
(* the promise; what makes each visible step one of its own is in TileInv:  *)
(* the number wanted next, the block a hash stands for, and why a page may  *)
(* end.                                                                     *)
LEMMA SameChain ==
  /\ Promise!TipHeight = TipHeight /\ Promise!OnChain = OnChain
  /\ Promise!Span = Span /\ Promise!Anchor = AnchorNo
  /\ \A n, s : Promise!RowsAt(n, s) = RowsAt(n, s)
<1>1. Promise!TipHeight = TipHeight /\ \A h : Promise!BlockAt(h) = BlockAt(h)
  BY DEF Promise!TipHeight, TipHeight, Promise!BlockAt, BlockAt
<1>2. Promise!OnChain = OnChain
  BY <1>1 DEF Promise!OnChain, OnChain
<1>3. ASSUME NEW n, NEW s PROVE Promise!RowsAt(n, s) = RowsAt(n, s)
  <2>1. \A m : Promise!RowAt(m, s) = RowAt(m, s)
    BY <1>1 DEF Promise!RowAt, RowAt, Promise!LastHeight, LastHeight
  <2> QED BY <1>1, <2>1 DEF Promise!RowsAt, RowsAt, Promise!Unit, Unit
<1> QED
  BY <1>1, <1>2, <1>3 DEF Promise!Span, Span, Promise!Anchor, AnchorNo

LEMMA FollowingIsWanted ==
  ASSUME ask \in Request, Fits(ask), base = AnchorNo, NEW rows \in Seq(Rows)
  PROVE  Promise!Following(rows) = Wanted(rows)
<1> DEFINE before == (ask.page - 1) * ask.count
           n == Len(rows)
<1>1. /\ ask.dir \in {1, -1} /\ ask.count \in Nat /\ ask.page \in Nat
      /\ AnchorNo \in Int /\ n \in Nat
  BY AskTypes
<1>2. before \in Int
  BY <1>1, SMTT(30)
<1>3. Promise!Following(rows) = AnchorNo + ask.dir * (before + n + 1)
  BY SameChain DEF Promise!Following
<1>4. Wanted(rows) = AnchorNo + ask.dir * (1 + before) + ask.dir * n
  BY DEF Wanted, First
<1> HIDE DEF before, n
<1>5. AnchorNo + ask.dir * (before + n + 1)
        = AnchorNo + ask.dir * (1 + before) + ask.dir * n
  BY <1>1, <1>2
<1> QED BY <1>3, <1>4, <1>5

LEMMA UpwardsIsAscending ==
  ASSUME ask.dir \in {1, -1}, NEW rows \in Seq(Rows)
  PROVE  Promise!Upwards(rows) = Ascending(rows)
<1>1. CASE ask.dir = 1
  <2>1. Promise!Upwards(rows) = [i \in 1 .. Len(rows) |-> rows[i]]
    BY <1>1 DEF Promise!Upwards
  <2> QED BY <1>1, <2>1 DEF Ascending
<1>2. CASE ask.dir # 1
  BY <1>2 DEF Promise!Upwards, Ascending
<1> QED BY <1>1, <1>2

(* What the promise sees is left alone.                                     *)
LEMMA Unseen ==
  ASSUME UNCHANGED <<chain, forks, ask, out, pages, low>>, state' = state
  PROVE  UNCHANGED Promise!promiseVars
BY DEF Promise!promiseVars

LEMMA FinishAnswers ==
  ASSUME TileInv, TileInv', pc \in {"tip", "item"}, NEW rows \in Seq(Rows),
         Finish(rows), out' = rows, UNCHANGED <<ask, base, low>>
  PROVE  Promise!Answer(rows)
<1>1. /\ ask \in Request /\ Fits(ask) /\ base = AnchorNo
      /\ ask.dir \in {1, -1} /\ ask.count \in Nat
  BY AskTypes DEF TileInv, MInv, IInv, TypeOK, AskFits, Tiles, StartFits
<1>2. pc' = "done" /\ status' = "ok" /\ pages' = Append(pages, Ascending(rows))
  BY DEF Finish
<1>3. Len(rows) <= ask.count /\ Len(rows) \in Nat
  BY <1>2 DEF TileInv, MInv, IInv, TypeOK
<1>4. Len(rows) < ask.count => Wanted(rows) < 0 \/ Wanted(rows) * Span > low
  BY <1>2 DEF TileInv, MInv, NothingIsMissing, Wanted, First, Span
<1>5. Promise!Complete(rows)
  BY <1>1, <1>3, <1>4, FollowingIsWanted, SameChain DEF Promise!Complete
<1>6. state' = "ok"
  BY <1>2 DEF state
<1> QED BY <1>1, <1>2, <1>5, <1>6, UpwardsIsAscending DEF Promise!Answer

LEMMA PromiseEnd ==
  ASSUME TileInv, TileInv', pc \in {"tip", "item"}, Finish(out), Unchanging,
         UNCHANGED <<out, base>>
  PROVE  Promise!End
<1>1. out \in Seq(Rows) /\ state = "open"
  BY DEF TileInv, MInv, IInv, TypeOK, state
<1>2. Promise!Answer(out)
  BY <1>1, FinishAnswers DEF Unchanging
<1> QED BY <1>1, <1>2 DEF Promise!End, Unchanging

LEMMA PromiseRefuse ==
  ASSUME TileInv, pc = "anchor", Refuse("notfound"), Unchanging, UNCHANGED out,
         IF Target.by = "hash" THEN Target.block \notin OnChain
         ELSE Target.no < 0 \/ Target.no > low
  PROVE  Promise!Refuse
<1>1. /\ Target = ask.anchor /\ ask \in Request /\ Fits(ask) /\ ask.what = "blocks"
      /\ out = <<>> /\ low \in Int
  BY DEF Target, TileInv, MInv, IInv, TypeOK, AskFits, LookupFits, Tiles, StartFits
<1>2. Promise!NoAnchor
  <2>1. ask.anchor.by # "hash" => ask.anchor.no \in Int /\ ask.anchor.no >= 0
    BY <1>1 DEF Request, Fits
  <2> QED BY <1>1, <2>1, SameChain DEF Promise!NoAnchor
<1>3. state = "open" /\ state' = "notfound" /\ UNCHANGED pages
  BY DEF Refuse, state
<1> QED BY <1>1, <1>2, <1>3 DEF Promise!Refuse, Unchanging

-----------------------------------------------------------------------------
LEMMA PromiseAsk ==
  ASSUME TileInv, AskFirst
  PROVE  Promise!Ask
<1>1. PICK a \in Asks : Begin(a)
  BY DEF AskFirst
<1>2. /\ ask' = a /\ out' = <<>> /\ low' = TipHeight /\ state = "idle" /\ state' = "open"
      /\ UNCHANGED <<chain, forks, pages>>
  BY <1>1 DEF AskFirst, Begin, chainVars, state
<1> QED BY <1>2, SameChain DEF Promise!Ask, Promise!Open

LEMMA PromiseAskOn ==
  ASSUME TileInv, AskNext
  PROVE  Promise!AskOn
<1>1. /\ ask' = [ask EXCEPT !.page = @ + 1] /\ out' = <<>> /\ low' = TipHeight
      /\ state = "ok" /\ state' = "open" /\ Len(out) = ask.count
      /\ UNCHANGED <<chain, forks, pages>>
  BY DEF AskNext, Begin, chainVars, state
<1> QED BY <1>1, SameChain DEF Promise!AskOn, Promise!Open

LEMMA PromiseResolve ==
  ASSUME TileInv, TileInv', Resolve
  PROVE  [Promise!Next]_(Promise!promiseVars)
<1>1. /\ pc \in {"anchor", "item"} /\ Target.by = "number" /\ Unchanging
      /\ UNCHANGED <<base, last>> /\ ChainTypeOK /\ ask \in Request
      /\ low \in Int /\ low <= TipHeight /\ TipHeight \in Int
  BY TipInRange, ChainAssumption
     DEF Resolve, Resolving, TileInv, MInv, IInv, TypeOK, HistoryFits
<1>2. CASE UNCHANGED <<pc, out, status, pages>>
  BY <1>1, <1>2, Unseen DEF Unchanging, state
<1>3. CASE /\ RowsAt(Target.no, 1) = {}
           /\ IF pc = "anchor" THEN Refuse("notfound") ELSE Finish(out)
           /\ UNCHANGED <<hash, out>>
  <2>1. CASE pc = "anchor"
    <3>1. Target.no \in Int
      BY <1>1, <2>1 DEF Target, Request
    <3>2. Target.no < 0 \/ Target.no * 1 > TipHeight
      BY <1>1, <1>3, <3>1, NoRowsBeyond
    <3>3. Target.no < 0 \/ Target.no > low
      BY <1>1, <3>1, <3>2
    <3> QED BY <1>1, <1>3, <2>1, <3>3, PromiseRefuse DEF Promise!Next
  <2>2. CASE pc = "item"
    BY <1>1, <1>3, <2>2, PromiseEnd DEF Promise!Next
  <2> QED BY <1>1, <2>1, <2>2
<1> QED BY <1>2, <1>3 DEF Resolve

LEMMA PromiseFetchAnchor ==
  ASSUME TileInv, FetchAnchor
  PROVE  [Promise!Next]_(Promise!promiseVars)
<1>1. pc = "anchor" /\ ~Resolving /\ Unchanging /\ UNCHANGED out
  BY DEF FetchAnchor
<1>2. CASE pc' = "tip" /\ UNCHANGED <<status, pages>>
  BY <1>1, <1>2, Unseen DEF Unchanging, state
<1>3. CASE Found = {} /\ Refuse("notfound")
  <2>1. Span = 1 /\ Target = ask.anchor /\ ask \in Request
    BY <1>1 DEF TileInv, MInv, IInv, TypeOK, LookupFits, Span, Target
  <2>2. IF Target.by = "hash" THEN Target.block \notin OnChain
        ELSE Target.no < 0 \/ Target.no * Span > low
    BY <1>1, <1>3, NotFoundBeyond DEF TileInv
  <2>3. Target.by # "hash" => Target.no \in Int
    BY <2>1 DEF Request
  <2> QED BY <1>1, <1>3, <2>1, <2>2, <2>3, PromiseRefuse DEF Promise!Next
<1> QED BY <1>2, <1>3 DEF FetchAnchor

LEMMA PromiseReadTip ==
  ASSUME TileInv, TileInv', ReadTip
  PROVE  [Promise!Next]_(Promise!promiseVars)
<1>1. pc = "tip" /\ Unchanging /\ UNCHANGED <<base, out>>
  BY DEF ReadTip, Loop
<1>2. CASE pc' = "item" /\ UNCHANGED <<status, pages>>
  BY <1>1, <1>2, Unseen DEF Unchanging, state
<1>3. CASE Finish(out)
  BY <1>1, <1>3, PromiseEnd DEF Promise!Next
<1> QED BY <1>2, <1>3 DEF ReadTip, Loop

(* What a lookup finds is the chain's row of the number that is next: a     *)
(* hash that is still on the chain is the block of its number.              *)
LEMMA FoundIsRow ==
  ASSUME TileInv, pc = "item", ~Resolving, NEW b \in Found
  PROVE  b \in RowsAt(Wanted(out), Span)
<1> DEFINE n == Wanted(out)
<1>1. /\ ChainTypeOK /\ Target = Number(n) /\ Target.by = "number" /\ Target.no = n /\ IInv
  BY DEF TileInv, MInv, IInv, TypeOK, Target, Number
<1>2. /\ n \in 0 .. MaxHeight /\ b \in OnChain /\ Unit(b.height, Span) = n
  BY <1>1, NewRowIsTrue
<1>3. CASE ByHash
  <2>1. Span = 1 /\ TipHeight \in Nat /\ b.height \in 0 .. TipHeight /\ b = BlockAt(b.height)
    BY <1>1, <1>2, <1>3, OnChainBlocks, TipInRange DEF ByHash, Span
  <2>2. Unit(b.height, 1) = b.height /\ Unit(TipHeight, 1) = TipHeight
        /\ LastHeight(b.height, 1) = b.height
    BY <2>1, UnitUnique, SMTT(30) DEF LastHeight
  <2>3. n = b.height /\ RowAt(n, 1) = b
    BY <1>2, <2>1, <2>2 DEF RowAt
  <2> QED BY <2>1, <2>2, <2>3 DEF RowsAt
<1>4. CASE ~ByHash
  BY <1>1, <1>4 DEF Found
<1> QED BY <1>3, <1>4

LEMMA PromiseFetchItem ==
  ASSUME TileInv, TileInv', FetchItem
  PROVE  [Promise!Next]_(Promise!promiseVars)
<1>1. /\ pc = "item" /\ ~Resolving /\ Unchanging /\ UNCHANGED base
      /\ Target = Number(Wanted(out)) /\ state = "open"
      /\ out \in Seq(Rows) /\ ask \in Request /\ Fits(ask) /\ base = AnchorNo
      /\ Len(out) < ask.count
  BY DEF FetchItem, Target, state, TileInv, MInv, IInv, TypeOK, AskFits, LoopFits,
         Tiles, StartFits
<1>2. CASE \E b \in Found : Loop(Append(out, [no |-> Target.no, block |-> b]), last)
  <2>1. PICK b \in Found : Loop(Append(out, [no |-> Target.no, block |-> b]), last)
    BY <1>2
  <2> DEFINE n == Promise!Following(out)
             rows == Append(out, [no |-> n, block |-> b])
  <2>2. n = Wanted(out)
    BY <1>1, FollowingIsWanted
  <2>3. b \in Promise!RowsAt(n, Promise!Span)
    BY <1>1, <2>1, <2>2, FoundIsRow, SameChain
  <2>4. Loop(rows, last) /\ out' = rows
    BY <1>1, <2>1, <2>2 DEF Number, Loop
  <2>5. rows \in Seq(Rows)
    BY <2>4 DEF TileInv, MInv, IInv, TypeOK
  <2> HIDE DEF n
  <2>6. \/ Promise!Answer(out')
        \/ Len(out') < ask.count /\ UNCHANGED <<state, pages>>
    <3>1. CASE GoesOn(rows, last)
      BY <1>1, <2>4, <3>1 DEF Loop, GoesOn, state
    <3>2. CASE ~GoesOn(rows, last)
      BY <1>1, <2>4, <2>5, <3>2, FinishAnswers DEF Loop, Unchanging
    <3> QED BY <3>1, <3>2
  <2>7. Promise!Tell
    BY <1>1, <2>3, <2>4, <2>6 DEF Promise!Tell, Unchanging, n
  <2> QED BY <2>7 DEF Promise!Next
<1>3. CASE Finish(out) /\ UNCHANGED out
  BY <1>1, <1>3, PromiseEnd DEF Promise!Next
<1> QED BY <1>2, <1>3 DEF FetchItem

LEMMA PromiseChainMoves ==
  ASSUME ChainMoves
  PROVE  Promise!ChainMoves
<1>1. Promise!Forge \/ Promise!Rollback
  BY DEF ChainMoves, Forge, Rollback, Promise!Forge, Promise!Rollback, TipHeight,
         Promise!TipHeight
<1>2. UNCHANGED Promise!pageVars
  BY DEF ChainMoves, walkVars, Promise!pageVars, state
<1> QED BY <1>1, <1>2 DEF ChainMoves, Promise!ChainMoves

LEMMA PromiseStep ==
  ASSUME TileInv, TileInv', [Next]_vars
  PROVE  [Promise!Next]_(Promise!promiseVars)
<1>1. CASE AskFirst \/ AskNext
  BY <1>1, PromiseAsk, PromiseAskOn DEF Promise!Next
<1>2. CASE Step
  BY <1>2, PromiseResolve, PromiseFetchAnchor, PromiseReadTip, PromiseFetchItem DEF Step
<1>3. CASE CallFails
  <2>1. state = "open" /\ state' = "error" /\ UNCHANGED <<chain, forks, ask, out, pages, low>>
    BY <1>3 DEF CallFails, Refuse, Unchanging, state
  <2> QED BY <2>1 DEF Promise!Refuse, Promise!Next
<1>4. CASE ChainMoves
  BY <1>4, PromiseChainMoves DEF Promise!Next
<1>5. CASE UNCHANGED vars
  BY <1>5, Unseen DEF vars, state
<1> QED BY <1>1, <1>2, <1>3, <1>4, <1>5 DEF Next

(* Every reachable state is well typed; a page is never longer than asked.  *)
THEOREM TypeCorrect == Spec => []TypeOK
<1>1. IInv => TypeOK
  BY DEF IInv
<1> QED BY Invariance, <1>1, PTL

(* Whatever the chain does while _blocks_adjacent or _epochs_adjacent walks *)
(* it, each row is of its number and was on the chain during the walk, and  *)
(* what no rollback has reached is as the chain has it.                     *)
THEOREM WalksTellTheTruth == Spec => []RowsAreTrue
<1>1. IInv => RowsAreTrue
  BY DEF IInv
<1> QED BY Invariance, <1>1, PTL

(* A page is short, or an anchor refused, only for a number that is         *)
(* negative or not settled: neither a growing chain nor a rollback elsewhere *)
(* makes _blocks_adjacent or _epochs_adjacent drop a row.                   *)
THEOREM NothingGoesMissing == Spec => []NothingIsMissing
<1>1. MInv => NothingIsMissing
  BY DEF MInv
<1> QED BY MInvInit, NextMInv, <1>1, PTL DEF Spec

(* The pages a client reads one after the other are one walk: every row of  *)
(* page k of _blocks_adjacent and _epochs_adjacent has the number that      *)
(* anchor, direction, count and page give it, and only the last page read   *)
(* may be short, for every page size, first page and movement of the chain. *)
THEOREM PagesLieSideBySide == Spec => []PagesTile
<1>1. TileInv => PagesTile
  BY DEF TileInv, Tiles
<1> QED BY InitTile, NextTile, <1>1, PTL DEF Spec
(* To its client every walk is one of WalkPromise: between the request and  *)
(* the answer, the calls to the backend, the hashes resolved and the tip    *)
(* read once do not show (_blocks_adjacent, _epochs_adjacent of both        *)
(* providers).                                                              *)
THEOREM WalksKeepPromise == Spec => ImplementsPromise
<1>1. Init => Promise!Init
  <2> SUFFICES ASSUME Init PROVE Promise!Init
    OBVIOUS
  <2>1. Promise!ChainInit /\ state = "idle"
    BY DEF Init, ChainInit, Promise!ChainInit, state
  <2> QED BY <2>1, SameChain DEF Init, Promise!Init, NoRequest
<1>2. TileInv /\ TileInv' /\ [Next]_vars => [Promise!Next]_(Promise!promiseVars)
  BY PromiseStep
<1> QED
  BY InitTile, NextTile, <1>1, <1>2, PTL DEF Spec, ImplementsPromise, Promise!Spec

-----------------------------------------------------------------------------
(* How far a page is from its end, in calls: at most two for the anchor,    *)
(* one for the tip, two for each row that is missing.                       *)
Known == IF hash = NoHash THEN 0 ELSE 1

Left ==
  CASE pc = "anchor"           -> 2 * ask.count + 4 - Known
    [] pc = "tip"              -> 2 * ask.count + 2
    [] pc = "item"             -> 2 * (ask.count - Len(out)) + 1 - Known
    [] pc \in {"idle", "done"} -> 0

LEMMA LeftType ==
  ASSUME IInv
  PROVE  Left \in Nat /\ (pc \in {"anchor", "tip", "item"} => Left > 0)
<1>1. pc \in {"idle", "anchor", "tip", "item", "done"} /\ Known \in {0, 1}
  BY DEF IInv, TypeOK, Known
<1>2. pc # "idle" => ask.count \in Nat /\ Len(out) \in Nat
  BY DEF IInv, TypeOK, Request
<1>3. pc = "item" => Len(out) < ask.count
  BY DEF IInv, LoopFits
<1>4. CASE pc = "anchor"
  BY <1>1, <1>2, <1>4 DEF Left
<1>5. CASE pc = "tip"
  BY <1>2, <1>5 DEF Left
<1>6. CASE pc = "item"
  BY <1>1, <1>2, <1>3, <1>6 DEF Left
<1>7. CASE pc \in {"idle", "done"}
  BY <1>7 DEF Left
<1> QED BY <1>1, <1>4, <1>5, <1>6, <1>7

LEMMA DoneIsLess ==
  ASSUME IInv, pc \in {"anchor", "tip", "item"}, pc' = "done"
  PROVE  Left' < Left
<1>1. Left' = 0
  BY DEF Left
<1> QED BY <1>1, LeftType

LEMMA ResolveAdvances ==
  ASSUME IInv, Resolve
  PROVE  Left' < Left
<1>1. /\ pc \in {"anchor", "item"} /\ Target.by = "number" /\ hash = NoHash
      /\ ChainTypeOK /\ ask \in Request /\ UNCHANGED ask /\ Known = 0
  BY DEF Resolve, Resolving, Unchanging, IInv, TypeOK, Known
<1>2. Target.no \in Int
  <2>1. CASE pc = "anchor"
    BY <1>1, <2>1 DEF Target, Request
  <2>2. CASE pc = "item"
    BY <2>2, WantedType DEF Target, Number, IInv, TypeOK
  <2> QED BY <1>1, <2>1, <2>2
<1>3. CASE (\E b \in RowsAt(Target.no, 1) : hash' = b) /\ UNCHANGED <<pc, out>>
  <2>1. hash' \in Blocks
    BY <1>1, <1>2, <1>3, BlockOfNumber
  <2>2. hash' # NoHash
    BY <2>1, ChainAssumption DEF Blocks, NoHash
  <2>3. Known' = 1
    BY <2>2 DEF Known
  <2>4. ask.count \in Nat /\ Len(out) \in Nat
    BY <1>1 DEF IInv, TypeOK, Request
  <2>5. CASE pc = "anchor"
    BY <1>1, <1>3, <2>3, <2>4, <2>5 DEF Left
  <2>6. CASE pc = "item"
    BY <1>1, <1>3, <2>3, <2>4, <2>6 DEF Left
  <2> QED BY <1>1, <2>5, <2>6
<1>4. CASE pc' = "done"
  BY <1>1, <1>4, DoneIsLess
<1> QED BY <1>3, <1>4 DEF Resolve, Refuse, Finish

LEMMA CallAdvances ==
  ASSUME IInv, FetchAnchor \/ ReadTip \/ FetchItem
  PROVE  Left' < Left
<1>1. /\ pc \in {"anchor", "tip", "item"} /\ UNCHANGED ask
      /\ ask.count \in Nat /\ Len(out) \in Nat /\ Known \in {0, 1} /\ out \in Seq(Rows)
  BY DEF FetchAnchor, ReadTip, FetchItem, Unchanging, IInv, TypeOK, Request, Known
<1>2. CASE pc' = "done"
  BY <1>1, <1>2, DoneIsLess
<1>3. CASE pc = "anchor" /\ pc' = "tip"
  BY <1>1, <1>3 DEF Left
<1>4. CASE pc = "tip" /\ pc' = "item" /\ out' = out
  <2>1. Known' \in {0, 1}
    BY DEF Known
  <2> QED BY <1>1, <1>4, <2>1 DEF Left
<1>5. CASE pc = "item" /\ pc' = "item" /\ hash' = NoHash /\ Len(out') = Len(out) + 1
  <2>1. Known' = 0
    BY <1>5 DEF Known
  <2> QED BY <1>1, <1>5, <2>1 DEF Left
<1>6. CASE FetchAnchor
  BY <1>2, <1>3, <1>6 DEF FetchAnchor, Refuse
<1>7. CASE ReadTip
  BY <1>2, <1>4, <1>7 DEF ReadTip, Loop, Finish
<1>8. CASE FetchItem
  <2>1. pc = "item" /\ hash' = NoHash
    BY <1>8 DEF FetchItem
  <2>2. CASE Finish(out)
    BY <1>2, <2>2 DEF Finish
  <2>3. ASSUME NEW b \in Found, Loop(Append(out, [no |-> Target.no, block |-> b]), last)
        PROVE  Left' < Left
    <3>1. Len(out') = Len(out) + 1
      BY <1>1, <2>3 DEF Loop
    <3>2. pc' \in {"item", "done"}
      BY <2>3 DEF Loop, Finish
    <3> QED BY <1>2, <1>5, <2>1, <3>1, <3>2
  <2> QED BY <1>8, <2>2, <2>3 DEF FetchItem
<1> QED BY <1>6, <1>7, <1>8

(* Every call brings the page nearer to its end and nothing the chain does  *)
(* takes it further away, so that a page takes at most 2 * count + 4 calls  *)
(* (the loops of _blocks_adjacent and _epochs_adjacent, get_block).  This   *)
(* is why WalksEnd holds once each call is answered.                        *)
THEOREM EveryCallAdvances ==
  Spec => /\ [](Left \in Nat)
          /\ [][/\ Step \/ CallFails => Left' < Left
                /\ ChainMoves => Left' = Left]_vars
<1>1. IInv => Left \in Nat
  BY LeftType
<1>2. ASSUME IInv
      PROVE  /\ Step \/ CallFails => Left' < Left
             /\ ChainMoves => Left' = Left
  <2>1. CallFails => Left' < Left
    BY <1>2, DoneIsLess DEF CallFails, Refuse
  <2>2. ChainMoves => Left' = Left
    BY DEF ChainMoves, walkVars, Left, Known
  <2> QED BY <1>2, <2>1, <2>2, ResolveAdvances, CallAdvances DEF Step
<1> QED BY Invariance, <1>1, <1>2, PTL
=============================================================================
