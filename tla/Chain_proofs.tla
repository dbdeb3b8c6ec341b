---------------------------- MODULE Chain_proofs ----------------------------
(***************************************************************************)
(* Lemmas about Chain: units and their rows, and what a move of the chain   *)
(* leaves in place.                                                         *)
(***************************************************************************)
EXTENDS Chain, SequenceTheorems, TLAPS

(* A height lies in its unit, between the unit before and the unit after.   *)
LEMMA UnitBounds ==
  ASSUME NEW h \in Nat, NEW s \in Nat \ {0}
  PROVE  /\ Unit(h, s) \in Nat
         /\ Unit(h, s) * s <= h
         /\ h <= LastHeight(Unit(h, s), s)
<1>1. h = s * (h \div s) + (h % s) /\ h % s \in 0 .. s - 1 /\ h \div s \in Nat
  BY SMTT(30)
<1> QED BY <1>1, SMTT(30) DEF Unit, LastHeight

(* Heights of one unit are those between its first and its last.            *)
LEMMA UnitUnique ==
  ASSUME NEW h \in Nat, NEW s \in Nat \ {0}, NEW n \in Nat,
         n * s <= h, h <= LastHeight(n, s)
  PROVE  Unit(h, s) = n
<1> DEFINE q == Unit(h, s)
<1>1. q \in Nat /\ q * s <= h /\ h < (q + 1) * s
  BY UnitBounds, SMTT(30) DEF LastHeight
<1>2. n * s <= h /\ h < (n + 1) * s
  BY SMTT(30) DEF LastHeight
<1> HIDE DEF q
<1>3. ~(q < n)
  <2>1. SUFFICES ASSUME q + 1 <= n PROVE FALSE
    BY <1>1
  <2>2. (q + 1) * s <= n * s
    BY <2>1, <1>1, SMTT(30)
  <2> QED BY <2>2, <1>1, <1>2, SMTT(30)
<1>4. ~(n < q)
  <2>1. SUFFICES ASSUME n + 1 <= q PROVE FALSE
    BY <1>1
  <2>2. (n + 1) * s <= q * s
    BY <2>1, <1>1, SMTT(30)
  <2> QED BY <2>2, <1>1, <1>2, SMTT(30)
<1>5. q = n
  BY <1>1, <1>3, <1>4
<1> QED BY <1>5 DEF q

LEMMA TipInRange ==
  ASSUME ChainTypeOK
  PROVE  /\ TipHeight \in 0 .. MaxHeight
         /\ Tip = BlockAt(TipHeight)
         /\ Tip.height = TipHeight
BY ChainAssumption DEF ChainTypeOK, TipHeight, Tip, BlockAt

LEMMA BlocksOnChain ==
  ASSUME ChainTypeOK, NEW h \in 0 .. TipHeight
  PROVE  /\ BlockAt(h) \in Blocks
         /\ BlockAt(h).height = h
         /\ BlockAt(h) \in OnChain
<1>1. h + 1 \in 1 .. Len(chain) /\ h \in 0 .. MaxHeight
  BY ChainAssumption DEF ChainTypeOK, TipHeight
<1>2. chain[h + 1] \in Forks
  <2>1. \A i \in 1 .. Len(chain) : chain[i] \in Forks
    BY DEF ChainTypeOK
  <2> QED BY <1>1, <2>1
<1>3. BlockAt(h) \in OnChain
  BY DEF OnChain
<1> QED BY <1>1, <1>2, <1>3 DEF BlockAt, Blocks

LEMMA TipOnChain ==
  ChainTypeOK => TipHeight \in Nat /\ Tip \in Blocks
BY TipInRange, BlocksOnChain

(* What a query for a unit finds: its last block, or the chain's while the  *)
(* unit is not over.                                                        *)
LEMMA RowsOfUnit ==
  ASSUME ChainTypeOK, NEW n \in Int, NEW s \in Nat \ {0}, NEW b \in RowsAt(n, s)
  PROVE  /\ b.height \in 0 .. TipHeight
         /\ b = BlockAt(b.height)
         /\ b \in Blocks /\ b \in OnChain
         /\ n \in Nat
         /\ Unit(b.height, s) = n
         /\ LastHeight(n, s) <= TipHeight => b = BlockAt(LastHeight(n, s))
         /\ ~(LastHeight(n, s) <= TipHeight) => b = Tip
<1>1. TipHeight \in Nat
  BY TipInRange
<1>2. n \in 0 .. Unit(TipHeight, s) /\ b = RowAt(n, s)
  BY DEF RowsAt
<1>3. Unit(TipHeight, s) \in Nat /\ Unit(TipHeight, s) * s <= TipHeight
  BY <1>1, UnitBounds
<1>4. n \in Nat /\ n <= Unit(TipHeight, s)
  BY <1>2, <1>3
<1>5. n * s <= TipHeight
  <2>1. n * s <= Unit(TipHeight, s) * s
    BY <1>3, <1>4, SMTT(30)
  <2> QED BY <2>1, <1>1, <1>3, <1>4, SMTT(30)
<1>6. LastHeight(n, s) \in Nat /\ n * s <= LastHeight(n, s)
  BY <1>4, SMTT(30) DEF LastHeight
<1> DEFINE k == IF LastHeight(n, s) <= TipHeight THEN LastHeight(n, s) ELSE TipHeight
<1>7. k \in 0 .. TipHeight /\ n * s <= k /\ k <= LastHeight(n, s)
  BY <1>1, <1>5, <1>6, SMTT(30)
<1>8. b = BlockAt(k)
  BY <1>2 DEF RowAt
<1>9. b.height = k /\ b \in Blocks /\ b \in OnChain
  BY <1>7, <1>8, BlocksOnChain
<1>10. Unit(k, s) = n
  BY <1>1, <1>4, <1>7, UnitUnique
<1> QED BY <1>4, <1>7, <1>8, <1>9, <1>10 DEF Tip

(* A step of the chain adds one block, or takes some away; the others stay. *)
LEMMA ChainStep ==
  ASSUME ChainTypeOK, Forge \/ Rollback
  PROVE  /\ ChainTypeOK'
         /\ TipHeight' <= TipHeight + 1
         /\ \A h \in 0 .. TipHeight' : h <= TipHeight => BlockAt(h)' = BlockAt(h)
<1>1. CASE Forge
  <2>1. /\ chain' \in Seq(Forks) /\ Len(chain') = Len(chain) + 1
        /\ \A i \in 1 .. Len(chain) : chain'[i] = chain[i]
    BY <1>1 DEF Forge, ChainTypeOK
  <2>2. forks' = forks /\ Len(chain) - 1 < MaxHeight
    BY <1>1 DEF Forge, TipHeight
  <2>3. ChainTypeOK'
    BY <2>1, <2>2, ChainAssumption DEF ChainTypeOK
  <2>4. ASSUME NEW h \in 0 .. TipHeight', h <= TipHeight
        PROVE  BlockAt(h)' = BlockAt(h)
    <3>1. h + 1 \in 1 .. Len(chain)
      BY <2>1, <2>4 DEF TipHeight, ChainTypeOK
    <3> QED BY <3>1, <2>1 DEF BlockAt
  <2> QED BY <2>1, <2>3, <2>4 DEF TipHeight, ChainTypeOK
<1>2. CASE Rollback
  <2>1. PICK d \in 1 .. MaxDepth : d < Len(chain) /\ chain' = SubSeq(chain, 1, Len(chain) - d)
    BY <1>2 DEF Rollback
  <2>2. d \in Nat \ {0} /\ Len(chain) \in Nat
    BY ChainAssumption DEF ChainTypeOK
  <2>3. /\ chain' \in Seq(Forks) /\ Len(chain') = Len(chain) - d
        /\ \A i \in 1 .. Len(chain') : chain'[i] = chain[i]
    <3> DEFINE n == Len(chain) - d
    <3>1. n \in Int /\ 1 <= n /\ n <= Len(chain)
      BY <2>1, <2>2
    <3>2. \A i \in 1 .. Len(chain) : chain[i] \in Forks
      BY DEF ChainTypeOK
    <3>3. \A i \in 1 .. n : chain[i] \in Forks
      BY <3>1, <3>2, <2>2
    <3> HIDE DEF n
    <3>4. /\ SubSeq(chain, 1, n) \in Seq(Forks)
          /\ Len(SubSeq(chain, 1, n)) = n
          /\ \A i \in 1 .. n : SubSeq(chain, 1, n)[i] = chain[i]
      BY <3>1, <3>3, SubSeqProperties
    <3> QED BY <3>1, <3>4, <2>1 DEF n
  <2>4. forks' \in Forks
    BY <1>2, ChainAssumption DEF Rollback, ChainTypeOK, Forks
  <2>5. ChainTypeOK'
    BY <2>1, <2>2, <2>3, <2>4, ChainAssumption DEF ChainTypeOK
  <2>6. ASSUME NEW h \in 0 .. TipHeight', h <= TipHeight
        PROVE  BlockAt(h)' = BlockAt(h)
    <3>1. h + 1 \in 1 .. Len(chain')
      BY <2>2, <2>3, <2>6 DEF TipHeight, ChainTypeOK
    <3> QED BY <3>1, <2>3 DEF BlockAt
  <2> QED BY <2>2, <2>3, <2>5, <2>6 DEF TipHeight, ChainTypeOK
<1> QED BY <1>1, <1>2
=============================================================================
