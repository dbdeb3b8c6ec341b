------------------------ MODULE ChainLookup_proofs -------------------------
(***************************************************************************)
(* What the lookups of several calls answer, for chains of every length,    *)
(* epochs of every length, and rollbacks of every depth.                    *)
(***************************************************************************)
EXTENDS ChainLookup, Chain_proofs

UnderWay == pc \in {"second", "third"}

(* Between the calls the block found is on the chain, unless a rollback has *)
(* gone past it since the request came in.                                  *)
FoundHolds ==
  UnderWay =>
    /\ found \in Blocks
    /\ ~RolledPast(found.height) =>
         found.height <= TipHeight /\ found = BlockAt(found.height)
    /\ what \in OfNumber => found.height = no

(* Then also every block at the height of the tip that was read, or above,  *)
(* has been the tip since the request came in: it was when it was read, or  *)
(* it has been forged since.                                                *)
FromTipOn ==
  UnderWay /\ what \in OfLatest =>
    /\ found \in tips
    /\ \A h \in 0 .. TipHeight : found.height <= h => BlockAt(h) \in tips

(* The sum an address's balance starts with is as of a tip of the request.  *)
SumWasTrue == UnderWay /\ what = "balance" => found \in tips

Results ==
  /\ AnswerIsOneBlock /\ LatestWasLatest /\ LatestEpochExists
  /\ LookupFits /\ EmptyPageHasReason /\ BalanceWasTrue

IInv ==
  /\ TypeOK
  /\ pc # "idle" => Tip \in tips
  /\ pc # "done" => status = "none"
  /\ pc = "third" => what = "latest_txs"
  /\ FoundHolds
  /\ FromTipOn
  /\ SumWasTrue
  /\ Results

LEMMA InitIInv == Init => IInv
<1> SUFFICES ASSUME Init PROVE IInv
  OBVIOUS
<1>1. PICK n \in 1 .. MaxHeight + 1 : chain = [i \in 1 .. n |-> 0]
  BY DEF Init, ChainInit
<1>2. 0 \in Forks /\ n \in Nat
  BY ChainAssumption DEF Forks
<1>3. chain \in Seq(Forks) /\ Len(chain) = n
  BY <1>1, <1>2
<1>4. ChainTypeOK
  BY <1>1, <1>2, <1>3 DEF Init, ChainInit, ChainTypeOK
<1>5. TypeOK
  BY <1>4 DEF Init, TypeOK, NoAnswer, Answer, Whats, OfLatest
<1>6. Results
  BY DEF Init, Results, AnswerIsOneBlock, LatestWasLatest, LatestEpochExists,
         LookupFits, EmptyPageHasReason, BalanceWasTrue
<1> QED
  BY <1>5, <1>6 DEF Init, IInv, FoundHolds, FromTipOn, SumWasTrue, UnderWay

LEMMA AskStep == IInv /\ Ask => IInv'
<1> SUFFICES ASSUME IInv, Ask PROVE IInv'
  OBVIOUS
<1>1. ChainTypeOK /\ ChainTypeOK' /\ Tip' = Tip
  BY DEF IInv, TypeOK, Ask, ChainTypeOK, Tip, TipHeight, BlockAt
<1>2. Tip \in Blocks
  BY <1>1, TipInRange, BlocksOnChain
<1>3. no' \in Nat
  BY ChainAssumption DEF Ask
<1>4. TypeOK'
  BY <1>1, <1>2, <1>3 DEF IInv, TypeOK, Ask, NoAnswer, Answer
<1>5. Results'
  BY DEF Ask, Results, AnswerIsOneBlock, LatestWasLatest, LatestEpochExists,
         LookupFits, EmptyPageHasReason, BalanceWasTrue
<1> QED
  BY <1>1, <1>4, <1>5 DEF IInv, Ask, FoundHolds, FromTipOn, SumWasTrue, UnderWay

(* A row at a height is the block there; without one the chain is shorter.  *)
LEMMA RowAtHeight ==
  ASSUME ChainTypeOK, NEW n \in Nat
  PROVE  /\ \A b \in RowsAt(n, 1) : b = BlockAt(n) /\ n \in 0 .. TipHeight
         /\ RowsAt(n, 1) = {} => Tip.height < n
<1>1. TipHeight \in Nat /\ Tip.height = TipHeight
  BY TipInRange, TipOnChain
<1>2. Unit(TipHeight, 1) = TipHeight
  BY <1>1, UnitUnique, SMTT(30) DEF LastHeight
<1>3. ASSUME NEW b \in RowsAt(n, 1) PROVE b = BlockAt(n) /\ n \in 0 .. TipHeight
  <2>1. n \in 0 .. TipHeight
    BY <1>2, <1>3 DEF RowsAt
  <2>2. LastHeight(n, 1) = n
    BY DEF LastHeight
  <2> QED BY <2>1, <2>2, RowsOfUnit
<1>4. ASSUME RowsAt(n, 1) = {} PROVE Tip.height < n
  <2>1. n \notin 0 .. TipHeight
    BY <1>2, <1>4 DEF RowsAt
  <2> QED BY <1>1, <2>1
<1> QED BY <1>3, <1>4

(* While the chain stays as it is, a block that is there and was the tip    *)
(* keeps FoundHolds and FromTipOn.                                          *)
LEMMA Stays ==
  ASSUME IInv, Unchanging, pc # "idle"
  PROVE  /\ ChainTypeOK /\ ChainTypeOK' /\ Tip' = Tip /\ TipHeight' = TipHeight
         /\ \A h : BlockAt(h)' = BlockAt(h)
         /\ \A h : RolledPast(h)' = RolledPast(h)
         /\ Tip \in tips /\ tips' = tips /\ what' = what /\ no' = no
         /\ \A b : RowsWith(b)' = RowsWith(b)
BY DEF IInv, TypeOK, Unchanging, ChainTypeOK, Tip, TipHeight, BlockAt, RolledPast,
       RowsWith, OnChain

LEMMA ReadTipStep == IInv /\ ReadTip => IInv'
<1> SUFFICES ASSUME IInv, ReadTip PROVE IInv'
  OBVIOUS
<1>1. /\ Unchanging /\ pc = "first" /\ pc' = "second" /\ found' = Tip
      /\ what \in OfLatest /\ status' = status /\ reply' = reply
  BY DEF ReadTip
<1>2. /\ ChainTypeOK /\ ChainTypeOK' /\ Tip' = Tip /\ TipHeight' = TipHeight
      /\ \A h : BlockAt(h)' = BlockAt(h)
      /\ Tip \in tips /\ tips' = tips /\ what' = what /\ no' = no
  BY <1>1, Stays
<1>3. TipHeight \in Nat /\ Tip = BlockAt(TipHeight) /\ Tip.height = TipHeight
  BY <1>2, TipInRange
<1>4. Tip \in Blocks
  BY <1>2, TipOnChain
<1>5. TypeOK'
  BY <1>1, <1>2, <1>4 DEF IInv, TypeOK
<1>6. FoundHolds'
  BY <1>1, <1>2, <1>3, <1>4 DEF FoundHolds, OfLatest, OfNumber
<1>7. FromTipOn'
  <2>1. ASSUME NEW h \in 0 .. TipHeight, TipHeight <= h PROVE BlockAt(h) \in tips
    <3>1. h = TipHeight
      BY <1>3, <2>1
    <3> QED BY <3>1, <1>2, <1>3
  <2> QED BY <1>1, <1>2, <1>3, <2>1 DEF FromTipOn
<1>8. Results'
  BY <1>1 DEF IInv, Results, AnswerIsOneBlock, LatestWasLatest, LatestEpochExists,
         LookupFits, EmptyPageHasReason, BalanceWasTrue
<1> QED
  BY <1>1, <1>2, <1>5, <1>6, <1>7, <1>8 DEF IInv, SumWasTrue, OfLatest

(* What an answer that ends the request has to fulfil.                      *)
LEMMA Answered ==
  ASSUME IInv, Unchanging, UNCHANGED found, pc # "idle", pc' = "done",
         status' \in {"ok", "notfound", "error"},
         NEW i \in Blocks \cup {NoBlock}, NEW c \in Blocks \cup {NoBlock},
         reply' = Answer(i, c),
         status' = "ok" /\ what # "balance" => c \in {i, NoBlock},
         status' = "ok" /\ what = "balance" => {i, c} \subseteq tips,
         status' = "ok" /\ what \in OfLatest => i \in tips,
         status' = "notfound" /\ what = "epoch" =>
           \E t \in tips : Unit(t.height, EpochLength) < Unit(found.height, EpochLength),
         status' = "ok" /\ what \in OfNumber =>
           i.height = no /\ (~RolledPast(no) => i = BlockAt(no)),
         status' = "notfound" /\ what \in OfNumber => RolledPast(no),
         status' = "ok" /\ what \in {"txs", "latest_txs", "outputs"}
           /\ i # NoBlock /\ c = NoBlock =>
           RolledPast(i.height)
  PROVE  IInv'
<1>1. /\ ChainTypeOK' /\ Tip' = Tip /\ \A h : BlockAt(h)' = BlockAt(h)
      /\ \A h : RolledPast(h)' = RolledPast(h)
      /\ Tip \in tips /\ tips' = tips /\ what' = what /\ no' = no
  BY Stays
<1>2. TypeOK'
  BY <1>1 DEF IInv, TypeOK, Answer
<1>3. reply'.ident = i /\ reply'.content = c
  BY DEF Answer
<1>4. AnswerIsOneBlock' /\ LatestWasLatest' /\ LatestEpochExists'
  BY <1>1, <1>3 DEF AnswerIsOneBlock, LatestWasLatest, LatestEpochExists, Unit
<1>5. LookupFits'
  BY <1>1, <1>3 DEF LookupFits
<1>6. EmptyPageHasReason' /\ BalanceWasTrue'
  BY <1>1, <1>3 DEF EmptyPageHasReason, BalanceWasTrue
<1> QED
  BY <1>1, <1>2, <1>4, <1>5, <1>6 DEF IInv, Results, FoundHolds, FromTipOn, SumWasTrue, UnderWay

LEMMA LocateStep == IInv /\ Locate => IInv'
<1> SUFFICES ASSUME IInv, Locate PROVE IInv'
  OBVIOUS
<1>1. /\ Unchanging /\ pc = "first" /\ what \in OfNumber
      /\ what \notin OfLatest /\ what # "epoch" /\ no \in Nat
  BY DEF Locate, IInv, TypeOK, OfLatest, OfNumber
<1>2. /\ ChainTypeOK /\ ChainTypeOK' /\ Tip' = Tip /\ TipHeight' = TipHeight
      /\ \A h : BlockAt(h)' = BlockAt(h)
      /\ Tip \in tips /\ tips' = tips /\ what' = what /\ no' = no
  BY <1>1, Stays
<1>3. CASE /\ \E b \in RowsAt(no, 1) : found' = b
           /\ pc' = "second"
           /\ UNCHANGED <<status, reply>>
  <2>1. found' = BlockAt(no) /\ no \in 0 .. TipHeight
    BY <1>1, <1>2, <1>3, RowAtHeight
  <2>2. found' \in Blocks /\ found'.height = no
    BY <1>2, <2>1, BlocksOnChain
  <2>3. TypeOK'
    BY <1>2, <1>3, <2>2 DEF IInv, TypeOK
  <2>4. FoundHolds'
    BY <1>2, <2>1, <2>2 DEF FoundHolds
  <2>5. FromTipOn'
    BY <1>1, <1>2 DEF FromTipOn
  <2>6. Results'
    BY <1>1, <1>3 DEF IInv, Results, AnswerIsOneBlock, LatestWasLatest,
           LatestEpochExists, LookupFits, EmptyPageHasReason, BalanceWasTrue
  <2> QED BY <1>1, <1>2, <1>3, <2>3, <2>4, <2>5, <2>6 DEF IInv, SumWasTrue, OfNumber
<1>4. CASE RowsAt(no, 1) = {} /\ Respond("notfound", NoAnswer) /\ UNCHANGED found
  <2>1. RolledPast(no)
    BY <1>1, <1>2, <1>4, RowAtHeight DEF RolledPast
  <2> QED BY <1>1, <1>4, <2>1, Answered DEF Respond, NoAnswer
<1> QED BY <1>3, <1>4 DEF Locate

(* What the second call finds, from the tip's number on, was the tip.       *)
LEMMA RowsWereTips ==
  ASSUME IInv, UnderWay, what \in OfLatest, NEW s \in Nat \ {0},
         NEW b \in RowsAt(Unit(found.height, s), s)
  PROVE  b \in tips /\ b \in Blocks
<1> DEFINE n == Unit(found.height, s)
<1>1. ChainTypeOK /\ Tip \in tips /\ tips \subseteq Blocks /\ found \in tips
  BY DEF IInv, TypeOK, FromTipOn, SumWasTrue, UnderWay
<1>2. found.height \in Nat
  BY <1>1 DEF Blocks
<1>3. n \in Nat /\ found.height <= LastHeight(n, s)
  BY <1>2, UnitBounds
<1> HIDE DEF n
<1>4. /\ LastHeight(n, s) <= TipHeight => b = BlockAt(LastHeight(n, s))
      /\ ~(LastHeight(n, s) <= TipHeight) => b = Tip
      /\ b \in Blocks
  BY <1>1, <1>3, RowsOfUnit DEF n
<1>5. LastHeight(n, s) \in Int /\ TipHeight \in Nat
  BY <1>1, <1>3, TipInRange, SMTT(30) DEF LastHeight
<1>6. CASE LastHeight(n, s) <= TipHeight
  <2>1. LastHeight(n, s) \in 0 .. TipHeight
    BY <1>2, <1>3, <1>5, <1>6
  <2> QED BY <1>3, <1>4, <1>6, <2>1 DEF IInv, FromTipOn
<1> QED BY <1>1, <1>4, <1>5, <1>6

(* The latest block, told or kept for its transactions.                     *)
LEMMA LatestStep ==
  ASSUME IInv, Unchanging, pc = "second", what \in {"block", "latest_txs"},
         NEW b \in Blocks, NEW c \in {b, NoBlock}, Latest(Answer(b, c)),
         b \in tips, b.height = found.height,
         b = found \/ (b.height <= TipHeight /\ b = BlockAt(b.height))
  PROVE  IInv'
<1>1. what \in OfLatest /\ what \notin OfNumber /\ what # "epoch" /\ UnderWay
  BY DEF OfLatest, OfNumber, UnderWay
<1>2. CASE what = "block"
  BY <1>1, <1>2, Answered DEF Latest, Respond
<1>3. CASE what # "block"
  <2>1. /\ pc' = "third" /\ found' = b /\ UNCHANGED <<status, reply>>
        /\ what = "latest_txs"
    BY <1>3 DEF Latest, Answer
  <2>2. /\ ChainTypeOK' /\ Tip' = Tip /\ TipHeight' = TipHeight
        /\ \A h : BlockAt(h)' = BlockAt(h)
        /\ \A h : RolledPast(h)' = RolledPast(h)
        /\ Tip \in tips /\ tips' = tips /\ what' = what /\ no' = no
    BY Stays
  <2>3. TypeOK'
    BY <2>1, <2>2 DEF IInv, TypeOK
  <2>4. ~RolledPast(b.height) => b.height <= TipHeight /\ b = BlockAt(b.height)
    BY <1>1 DEF IInv, FoundHolds
  <2>5. FoundHolds'
    BY <1>1, <2>1, <2>2, <2>4 DEF FoundHolds
  <2>6. FromTipOn'
    BY <1>1, <2>1, <2>2 DEF IInv, FromTipOn
  <2>7. status = "none"
    BY DEF IInv
  <2>8. Results'
    BY <2>1, <2>7 DEF Results, AnswerIsOneBlock, LatestWasLatest,
           LatestEpochExists, LookupFits, EmptyPageHasReason, BalanceWasTrue
  <2> QED BY <1>1, <2>1, <2>2, <2>3, <2>5, <2>6, <2>7, <2>8 DEF IInv, SumWasTrue, OfLatest
<1> QED BY <1>2, <1>3

LEMMA FetchBlockStep == IInv /\ FetchBlock => IInv'
<1> SUFFICES ASSUME IInv, FetchBlock PROVE IInv'
  OBVIOUS
<1>1. /\ UnderWay /\ pc = "second" /\ Unchanging
      /\ what \in {"block", "latest_txs"} /\ what \in OfLatest
  BY DEF FetchBlock, UnderWay, OfLatest
<1>2. found \in tips /\ found \in Blocks /\ ChainTypeOK
  BY <1>1 DEF IInv, TypeOK, FromTipOn
<1>3. found.height \in Nat
  BY <1>2 DEF Blocks
<1>4. Unit(found.height, 1) = found.height
  BY <1>3, UnitUnique, SMTT(30) DEF LastHeight
<1>5. CASE \E b \in RowsAt(found.height, 1) : Latest(Merged(b))
  <2>1. PICK b \in RowsAt(found.height, 1) : Latest(Answer(b, b))
    BY <1>5 DEF Merged
  <2>2. b \in tips /\ b \in Blocks
    BY <1>1, <1>4, <2>1, RowsWereTips
  <2>3. b = BlockAt(found.height) /\ found.height \in 0 .. TipHeight
    BY <1>2, <1>3, <2>1, RowAtHeight
  <2>4. b.height = found.height /\ b.height <= TipHeight
    BY <1>2, <1>3, <2>3, BlocksOnChain
  <2> QED BY <1>1, <2>1, <2>2, <2>3, <2>4, LatestStep
<1>6. CASE RowsAt(found.height, 1) = {} /\ Latest(Answer(found, NoBlock))
  BY <1>1, <1>2, <1>6, LatestStep
<1> QED BY <1>5, <1>6 DEF FetchBlock

LEMMA FetchEpochStep == IInv /\ FetchEpoch => IInv'
<1> SUFFICES ASSUME IInv, FetchEpoch PROVE IInv'
  OBVIOUS
<1> DEFINE n == Unit(found.height, EpochLength)
           rows == RowsAt(n, EpochLength)
<1>0. /\ UnderWay /\ what \in OfLatest /\ what = "epoch" /\ pc = "second"
      /\ Unchanging /\ UNCHANGED found /\ what \notin OfNumber
  BY DEF FetchEpoch, UnderWay, OfLatest, OfNumber
<1>1. found \in tips /\ found \in Blocks /\ ChainTypeOK /\ Tip \in tips
  BY <1>0 DEF IInv, TypeOK, FromTipOn
<1>2. EpochLength \in Nat \ {0} /\ found.height \in Nat
  BY <1>1, ChainAssumption DEF Blocks
<1>3. CASE \E b \in rows : Respond("ok", Answer(b, b))
  <2>1. PICK b \in rows : Respond("ok", Answer(b, b))
    BY <1>3
  <2>2. b \in tips /\ b \in Blocks
    BY <1>0, <1>2, <2>1, RowsWereTips
  <2> QED
    BY <1>0, <2>1, <2>2, Answered DEF Respond
<1>4. CASE rows = {} /\ Respond("notfound", NoAnswer)
  <2>1. n \in Nat /\ TipHeight \in Nat /\ Tip.height = TipHeight
    BY <1>1, <1>2, UnitBounds, TipInRange
  <2>2. Unit(TipHeight, EpochLength) \in Nat
    BY <1>2, <2>1, UnitBounds
  <2>3. n \notin 0 .. Unit(TipHeight, EpochLength)
    BY <1>4 DEF RowsAt
  <2>4. Unit(Tip.height, EpochLength) < n
    BY <2>1, <2>2, <2>3
  <2>5. \E t \in tips : Unit(t.height, EpochLength) < Unit(found.height, EpochLength)
    BY <1>1, <2>4
  <2> QED
    BY <1>0, <1>4, <2>5, Answered DEF Respond, NoAnswer
<1> QED BY <1>3, <1>4 DEF FetchEpoch

(* A block that a query by hash does not find has been rolled back.         *)
LEMMA GoneIsRolledPast ==
  ASSUME IInv, UnderWay, RowsWith(found) = {}
  PROVE  RolledPast(found.height)
<1>1. found \in Blocks /\ found \notin OnChain
  BY DEF IInv, FoundHolds, RowsWith
<1>2. SUFFICES ASSUME ~RolledPast(found.height) PROVE FALSE
  OBVIOUS
<1>3. found.height \in 0 .. TipHeight /\ found = BlockAt(found.height)
  <2>1. found.height <= TipHeight /\ found = BlockAt(found.height)
    BY <1>2 DEF IInv, FoundHolds
  <2>2. found.height \in Nat /\ TipHeight \in Nat
    BY <1>1, TipOnChain DEF IInv, TypeOK, Blocks
  <2> QED BY <2>1, <2>2
<1>4. found \in OnChain
  BY <1>3 DEF OnChain
<1> QED BY <1>1, <1>4

LEMMA FetchLocatedStep == IInv /\ FetchLocated => IInv'
<1> SUFFICES ASSUME IInv, FetchLocated PROVE IInv'
  OBVIOUS
<1>1. /\ UnderWay /\ what = "slot" /\ what \in OfNumber /\ what \notin OfLatest
      /\ Unchanging /\ UNCHANGED found /\ pc # "idle"
  BY DEF FetchLocated, UnderWay, OfLatest, OfNumber
<1>2. /\ found \in Blocks /\ found.height = no
      /\ ~RolledPast(no) => found = BlockAt(no)
  BY <1>1 DEF IInv, FoundHolds
<1>3. CASE \E b \in RowsWith(found) : Respond("ok", Answer(b, b))
  <2>1. Respond("ok", Answer(found, found))
    BY <1>3 DEF RowsWith
  <2> QED BY <1>1, <1>2, <2>1, Answered DEF Respond
<1>4. CASE RowsWith(found) = {} /\ Respond("notfound", NoAnswer)
  BY <1>1, <1>2, <1>4, GoneIsRolledPast, Answered DEF Respond, NoAnswer
<1> QED BY <1>3, <1>4 DEF FetchLocated

LEMMA FetchTransactionsStep == IInv /\ FetchTransactions => IInv'
<1> SUFFICES ASSUME IInv, FetchTransactions PROVE IInv'
  OBVIOUS
<1> DEFINE c == IF RowsWith(found) = {} THEN NoBlock ELSE found
<1>1. /\ UnderWay /\ what \in {"txs", "latest_txs"} /\ what # "epoch" /\ what # "balance"
      /\ Unchanging /\ UNCHANGED found /\ pc # "idle"
      /\ pc' = "done" /\ status' = "ok" /\ reply' = Answer(found, c)
  BY DEF FetchTransactions, WhatIsLeft, UnderWay, IInv, Respond
<1>2. found \in Blocks /\ c \in {found, NoBlock}
  BY <1>1 DEF IInv, FoundHolds
<1>3. what \in OfLatest => found \in tips
  BY <1>1 DEF IInv, FromTipOn
<1>4. what \in OfNumber =>
        found.height = no /\ (~RolledPast(no) => found = BlockAt(no))
  BY <1>1 DEF IInv, FoundHolds
<1>5. c = NoBlock => RolledPast(found.height)
  <2>1. found # NoBlock
    BY <1>2 DEF Blocks, NoBlock
  <2> QED BY <1>1, <2>1, GoneIsRolledPast
<1> HIDE DEF c
<1> QED BY <1>1, <1>2, <1>3, <1>4, <1>5, Answered

(* A first read, of the tip or of a block on the chain, that ends nothing.  *)
LEMMA FirstRead ==
  ASSUME IInv, Unchanging, pc = "first", pc' = "second", what \in OfAddress,
         UNCHANGED <<status, reply>>, found' \in OnChain,
         what = "balance" => found' = Tip
  PROVE  IInv'
<1>1. /\ ChainTypeOK /\ ChainTypeOK' /\ Tip' = Tip /\ TipHeight' = TipHeight
      /\ \A h : BlockAt(h)' = BlockAt(h)
      /\ Tip \in tips /\ tips' = tips /\ what' = what /\ no' = no
  BY Stays
<1>2. PICK h \in 0 .. TipHeight : found' = BlockAt(h)
  BY DEF OnChain
<1>3. found' \in Blocks /\ found'.height = h /\ TipHeight \in Nat
  BY <1>1, <1>2, BlocksOnChain, TipOnChain
<1>4. TypeOK'
  BY <1>1, <1>3 DEF IInv, TypeOK
<1>5. what \notin OfLatest \cup OfNumber
  BY DEF OfAddress, OfLatest, OfNumber
<1>6. FoundHolds' /\ FromTipOn' /\ SumWasTrue'
  BY <1>1, <1>2, <1>3, <1>5 DEF FoundHolds, FromTipOn, SumWasTrue
<1>7. status = "none"
  BY DEF IInv
<1>8. Results'
  BY <1>7 DEF Results, AnswerIsOneBlock, LatestWasLatest, LatestEpochExists,
         LookupFits, EmptyPageHasReason, BalanceWasTrue
<1> QED BY <1>1, <1>4, <1>6, <1>7, <1>8 DEF IInv

LEMMA ReadSumStep == IInv /\ ReadSum => IInv'
<1> SUFFICES ASSUME IInv, ReadSum PROVE IInv'
  OBVIOUS
<1>1. TipHeight \in 0 .. TipHeight
  BY TipOnChain DEF IInv, TypeOK
<1>2. Tip \in OnChain
  BY <1>1 DEF Tip, OnChain
<1> QED BY <1>2, FirstRead DEF ReadSum, OfAddress

LEMMA ReadAssetSumsStep == IInv /\ ReadAssetSums => IInv'
<1> SUFFICES ASSUME IInv, ReadAssetSums PROVE IInv'
  OBVIOUS
<1>1. /\ UnderWay /\ what = "balance" /\ what \notin OfLatest \cup OfNumber
      /\ Unchanging /\ UNCHANGED found /\ pc # "idle"
      /\ pc' = "done" /\ status' = "ok" /\ reply' = Answer(found, Tip)
  BY DEF ReadAssetSums, UnderWay, Respond, OfLatest, OfNumber
<1>2. found \in tips /\ Tip \in tips /\ tips \subseteq Blocks
  BY <1>1 DEF IInv, SumWasTrue, TypeOK
<1> QED BY <1>1, <1>2, Answered

LEMMA ReadOutputsStep == IInv /\ ReadOutputs => IInv'
<1> SUFFICES ASSUME IInv, ReadOutputs PROVE IInv'
  OBVIOUS
<1>1. what = "outputs" /\ pc = "first" /\ Unchanging
  BY DEF ReadOutputs
<1>2. CASE found' \in OnChain /\ pc' = "second" /\ UNCHANGED <<status, reply>>
  BY <1>1, <1>2, FirstRead DEF OfAddress
<1>3. CASE Respond("ok", NoAnswer) /\ UNCHANGED found
  BY <1>1, <1>3, Answered DEF Respond, NoAnswer, OfLatest, OfNumber
<1> QED BY <1>2, <1>3 DEF ReadOutputs

LEMMA ReadOutputAssetsStep == IInv /\ ReadOutputAssets => IInv'
<1> SUFFICES ASSUME IInv, ReadOutputAssets PROVE IInv'
  OBVIOUS
<1> DEFINE c == WhatIsLeft
<1>1. /\ UnderWay /\ what = "outputs" /\ what \notin OfLatest \cup OfNumber
      /\ Unchanging /\ UNCHANGED found /\ pc # "idle"
      /\ pc' = "done" /\ status' = "ok" /\ reply' = Answer(found, c)
  BY DEF ReadOutputAssets, UnderWay, Respond, OfLatest, OfNumber
<1>2. found \in Blocks /\ c \in {found, NoBlock}
  BY <1>1 DEF IInv, FoundHolds, WhatIsLeft
<1>3. c = NoBlock => RolledPast(found.height)
  <2>1. found # NoBlock
    BY <1>2 DEF Blocks, NoBlock
  <2> QED BY <1>1, <2>1, GoneIsRolledPast DEF WhatIsLeft
<1> HIDE DEF c
<1> QED BY <1>1, <1>2, <1>3, Answered

LEMMA CallFailsStep == IInv /\ CallFails => IInv'
<1> SUFFICES ASSUME IInv, CallFails PROVE IInv'
  OBVIOUS
<1>1. CASE pc = "second" /\ what \in {"block", "latest_txs"}
  <2>1. found \in tips /\ found \in Blocks
    BY <1>1 DEF IInv, TypeOK, FromTipOn, SumWasTrue, UnderWay, OfLatest
  <2> QED BY <1>1, <2>1, LatestStep DEF CallFails
<1>2. CASE ~(pc = "second" /\ what \in {"block", "latest_txs"})
  BY <1>2, Answered DEF CallFails, Respond, NoAnswer
<1> QED BY <1>1, <1>2

LEMMA ChainMovesStep == IInv /\ ChainMoves => IInv'
<1> SUFFICES ASSUME IInv, ChainMoves PROVE IInv'
  OBVIOUS
<1>1. /\ ChainTypeOK' /\ ChainTypeOK /\ TipHeight' <= TipHeight + 1
      /\ \A h \in 0 .. TipHeight' : h <= TipHeight => BlockAt(h)' = BlockAt(h)
  BY ChainStep DEF IInv, TypeOK, ChainMoves
<1>2. tips' = tips \cup {Tip'} /\ UNCHANGED lookupVars
  BY DEF ChainMoves, Tip, TipHeight, BlockAt
<1>3. /\ TipHeight \in Nat /\ TipHeight' \in Nat
      /\ Tip' = BlockAt(TipHeight)' /\ Tip' \in Blocks
  <2>1. chain' \in Seq(Forks) /\ Len(chain') \in 1 .. MaxHeight + 1
    BY <1>1 DEF ChainTypeOK
  <2>2. chain'[Len(chain')] \in Forks
    BY <2>1, ChainAssumption
  <2>3. TipHeight' \in 0 .. MaxHeight /\ TipHeight' + 1 = Len(chain')
    BY <2>1, ChainAssumption DEF TipHeight
  <2>4. Tip' = [height |-> TipHeight', fork |-> chain'[Len(chain')]]
    BY <2>3 DEF Tip, BlockAt
  <2>5. TipHeight \in Nat
    BY <1>1, TipOnChain
  <2>6. TipHeight' \in Nat /\ Tip' \in Blocks
    BY <2>2, <2>3, <2>4, ChainAssumption DEF Blocks
  <2>7. Tip' = BlockAt(TipHeight)'
    BY DEF Tip
  <2> QED BY <2>5, <2>6, <2>7
<1>4. TypeOK'
  BY <1>1, <1>2, <1>3 DEF IInv, TypeOK, lookupVars
<1>5. FromTipOn'
  <2> SUFFICES ASSUME UnderWay, what \in OfLatest,
                      NEW h \in 0 .. TipHeight', found.height <= h
               PROVE  BlockAt(h)' \in tips'
    BY <1>2 DEF IInv, FromTipOn, SumWasTrue, UnderWay, lookupVars
  <2>1. CASE h <= TipHeight
    BY <1>1, <1>2, <1>3, <2>1 DEF IInv, FromTipOn
  <2>2. CASE ~(h <= TipHeight)
    <3>1. h = TipHeight'
      BY <1>1, <1>3, <2>2
    <3> QED BY <1>2, <1>3, <3>1
  <2> QED BY <2>1, <2>2
(* Unless a rollback goes past it, the block at a height stays.             *)
<1>6. ASSUME NEW h \in Nat, ~RolledPast(h)', h <= TipHeight
      PROVE  ~RolledPast(h) /\ h <= TipHeight' /\ BlockAt(h)' = BlockAt(h)
  <2>1. ~RolledPast(h) /\ ~(Tip'.height < h)
    BY <1>2, <1>6 DEF RolledPast
  <2>2. Tip'.height = TipHeight'
    BY <1>1, <1>3 DEF Tip, BlockAt
  <2> QED BY <1>1, <1>3, <1>6, <2>1, <2>2
<1>7. \A h : RolledPast(h) => RolledPast(h)'
  BY <1>2 DEF RolledPast
<1>8. FoundHolds'
  <2> SUFFICES ASSUME UnderWay
               PROVE  /\ found \in Blocks
                      /\ ~RolledPast(found.height)' =>
                           /\ found.height <= TipHeight'
                           /\ found = BlockAt(found.height)'
                      /\ what \in OfNumber => found.height = no
    BY <1>2 DEF FoundHolds, UnderWay, lookupVars, RolledPast
  <2>1. /\ found \in Blocks
        /\ ~RolledPast(found.height) =>
             found.height <= TipHeight /\ found = BlockAt(found.height)
        /\ what \in OfNumber => found.height = no
    BY DEF IInv, FoundHolds
  <2>2. found.height \in Nat
    BY <2>1 DEF Blocks
  <2> QED BY <1>2, <1>6, <1>7, <2>1, <2>2 DEF RolledPast, BlockAt, lookupVars
<1>9. LookupFits'
  <2> SUFFICES ASSUME what \in OfNumber
               PROVE  /\ status = "ok" =>
                           /\ reply.ident.height = no
                           /\ ~RolledPast(no)' => reply.ident = BlockAt(no)'
                      /\ status = "notfound" => RolledPast(no)'
    BY <1>2 DEF LookupFits, lookupVars, RolledPast
  <2>1. no \in Nat
    BY DEF IInv, TypeOK
  <2>2. status = "ok" /\ ~RolledPast(no) => no <= TipHeight
    <3> SUFFICES ASSUME status = "ok", ~RolledPast(no) PROVE no <= TipHeight
      OBVIOUS
    <3>1. Tip \in tips
      BY DEF IInv
    <3>2. ~(Tip.height < no) /\ Tip.height = TipHeight
      BY <1>1, <3>1, TipInRange DEF RolledPast
    <3> QED BY <1>3, <2>1, <3>2
  <2>3. /\ status = "ok" =>
             reply.ident.height = no /\ (~RolledPast(no) => reply.ident = BlockAt(no))
        /\ status = "notfound" => RolledPast(no)
    BY DEF IInv, Results, LookupFits
  <2> QED BY <1>2, <1>6, <1>7, <2>1, <2>2, <2>3 DEF RolledPast, BlockAt, lookupVars
<1>10. EmptyPageHasReason'
  BY <1>2, <1>7 DEF IInv, Results, EmptyPageHasReason, lookupVars
<1>11. AnswerIsOneBlock' /\ LatestWasLatest' /\ LatestEpochExists'
  BY <1>2 DEF IInv, Results, AnswerIsOneBlock, LatestWasLatest, LatestEpochExists,
         lookupVars, Unit
<1>12. BalanceWasTrue' /\ SumWasTrue'
  BY <1>2 DEF IInv, Results, BalanceWasTrue, SumWasTrue, UnderWay, lookupVars
<1> QED
  BY <1>2, <1>4, <1>5, <1>8, <1>9, <1>10, <1>11, <1>12 DEF IInv, Results, lookupVars

LEMMA NextIInv == IInv /\ [Next]_vars => IInv'
<1> SUFFICES ASSUME IInv, [Next]_vars PROVE IInv'
  OBVIOUS
<1>1. CASE UNCHANGED vars
  <2>1. UNCHANGED <<TypeOK, Tip, FoundHolds, FromTipOn, SumWasTrue>>
    BY <1>1 DEF vars, TypeOK, FoundHolds, FromTipOn, SumWasTrue, UnderWay, RolledPast,
                ChainTypeOK, Tip, TipHeight, BlockAt
  <2>2. UNCHANGED Results
    BY <1>1 DEF vars, Results, AnswerIsOneBlock, LatestWasLatest, LatestEpochExists,
                LookupFits, EmptyPageHasReason, BalanceWasTrue, RolledPast, BlockAt, Unit
  <2> QED BY <1>1, <2>1, <2>2 DEF IInv, vars
<1> QED
  BY <1>1, AskStep, ReadTipStep, LocateStep, FetchBlockStep, FetchEpochStep,
     FetchLocatedStep, FetchTransactionsStep, ReadSumStep, ReadAssetSumsStep,
     ReadOutputsStep, ReadOutputAssetsStep, CallFailsStep, ChainMovesStep DEF Next

LEMMA Invariance == Spec => []IInv
BY InitIInv, NextIInv, PTL DEF Spec

(* Every reachable state is well typed.                                     *)
THEOREM TypeCorrect == Spec => []TypeOK
<1>1. IInv => TypeOK
  BY DEF IInv
<1> QED BY Invariance, <1>1, PTL

(* What is told as latest was the tip, or the tip's epoch as it then was, at *)
(* some moment of the request (fetch_tip_as, KoiosProvider.get_epoch).      *)
THEOREM LatestIsSound == Spec => []LatestWasLatest
<1>1. IInv => LatestWasLatest
  BY DEF IInv, Results
<1> QED BY Invariance, <1>1, PTL

(* No answer mixes two blocks: the latest block's detail replaces all that  *)
(* the tip told (fetch_tip_as).                                             *)
THEOREM AnswersAreOfOneBlock == Spec => []AnswerIsOneBlock
<1>1. IInv => AnswerIsOneBlock
  BY DEF IInv, Results
<1> QED BY Invariance, <1>1, PTL

(* The latest epoch is a 404 only after a rollback out of the epoch of the  *)
(* tip that was read (KoiosProvider.get_epoch).                             *)
THEOREM LatestEpochIsThere == Spec => []LatestEpochExists
<1>1. IInv => LatestEpochExists
  BY DEF IInv, Results
<1> QED BY Invariance, <1>1, PTL

(* Each part of a db-sync balance is as of a tip of the request             *)
(* (DbSyncProvider._address_amounts).                                       *)
THEOREM BalancesWereTrue == Spec => []BalanceWasTrue
<1>1. IInv => BalanceWasTrue
  BY DEF IInv, Results
<1> QED BY Invariance, <1>1, PTL

(* A block by slot, or one whose transactions are asked for by number, is   *)
(* of that slot or number and on the chain unless a rollback went past it,  *)
(* and is refused only if the chain ended before it                         *)
(* (KoiosProvider.get_block_by_slot, get_block_transactions).               *)
THEOREM LookupIsSound == Spec => []LookupFits
<1>1. IInv => LookupFits
  BY DEF IInv, Results
<1> QED BY Invariance, <1>1, PTL

(* A page of transactions is empty for want of its block, and an output     *)
(* lacks its assets, only if a rollback took the block away between the     *)
(* calls.                                                                   *)
THEOREM EmptyPagesAreExplained == Spec => []EmptyPageHasReason
<1>1. IInv => EmptyPageHasReason
  BY DEF IInv, Results
<1> QED BY Invariance, <1>1, PTL
=============================================================================
