---------------------------- MODULE Compare_proofs ---------------------------
(***************************************************************************)
(* The live comparison, for every chain, length of epochs, depth of         *)
(* rollbacks, lag of the backend behind Janus, size of a page and list of   *)
(* cases: the epoch it takes by default is over, its alarms have a reason,  *)
(* and what passes has been compared.                                       *)
(***************************************************************************)
EXTENDS Compare, Chain_proofs, FiniteSetTheorems

(* What rollbacks may have taken since the epoch was resolved.              *)
Taken == forks * MaxDepth

(* Nothing has been resolved, or the lowest tip since lies at or below the  *)
(* chain's, and together with what rollbacks took it reaches beyond the     *)
(* epoch that followed the one compared.                                    *)
EpochInv ==
  /\ ChainTypeOK
  /\ epoch \in {NoEpoch} \cup Nat
  /\ low \in Int /\ low <= TipHeight
  /\ epoch > 0 => LastHeight(epoch, EpochLength) + EpochLength < low + Taken

LEMMA Products ==
  ASSUME NEW a \in Nat, NEW b \in Nat
  PROVE  a * b \in Nat /\ (a + 1) * b = a * b + b
BY SMTT(30)

LEMMA SumsKeep ==
  ASSUME NEW a \in Int, NEW b \in Int, NEW m \in Int, NEW t \in Int, a - m <= b
  PROVE  a + t <= b + (t + m)
OBVIOUS

LEMMA TakenIsNat ==
  ASSUME ChainTypeOK
  PROVE  Taken \in Nat /\ forks \in Nat
<1>1. forks \in Nat /\ MaxDepth \in Nat
  BY ChainAssumption DEF ChainTypeOK, Forks
<1> QED BY <1>1, Products DEF Taken

LEMMA EpochInit == CompareInit => EpochInv
<1> SUFFICES ASSUME CompareInit PROVE EpochInv
  OBVIOUS
<1>1. PICK n \in 1 .. MaxHeight + 1 : chain = [i \in 1 .. n |-> 0]
  BY DEF CompareInit, ChainInit
<1>2. 0 \in Forks /\ n \in Nat
  BY ChainAssumption DEF Forks
<1>3. chain \in Seq(Forks) /\ Len(chain) = n
  BY <1>1, <1>2
<1>4. ChainTypeOK
  BY <1>2, <1>3, ChainAssumption DEF CompareInit, ChainInit, ChainTypeOK
<1>5. low = TipHeight /\ TipHeight \in Int /\ epoch = -1
  BY <1>4, TipInRange DEF CompareInit, NoEpoch
<1> QED BY <1>4, <1>5 DEF EpochInv, NoEpoch

(* Two epochs below the running one lies one that is over, and another.     *)
LEMMA ResolveStep ==
  ASSUME EpochInv, ResolveEpoch
  PROVE  EpochInv'
<1> DEFINE running == Unit(TipHeight, EpochLength)
<1>1. /\ TipHeight \in Nat /\ Tip.height = TipHeight
      /\ running \in Nat /\ running * EpochLength <= TipHeight
  BY TipInRange, UnitBounds, ChainAssumption DEF EpochInv
<1>2. /\ epoch' \in {IF running < 2 THEN 0 ELSE running - 2, NoEpoch}
      /\ low' = TipHeight /\ UNCHANGED <<chain, forks>>
  BY <1>1 DEF ResolveEpoch, EpochToCompare
<1>3. ChainTypeOK' /\ TipHeight' = TipHeight /\ Taken' = Taken
  BY <1>2 DEF EpochInv, ChainTypeOK, TipHeight, Taken
<1> HIDE DEF running
<1>4. ASSUME epoch' > 0
      PROVE  LastHeight(epoch', EpochLength) + EpochLength < low' + Taken'
  <2>1. epoch' = running - 2 /\ epoch' \in Nat
    BY <1>1, <1>2, <1>4 DEF NoEpoch
  <2>2. LastHeight(epoch', EpochLength) + EpochLength = running * EpochLength - 1
    <3>1. EpochLength \in Nat
      BY ChainAssumption
    <3> QED BY <1>1, <2>1, <3>1, SMTT(30) DEF LastHeight
  <2>3. Taken \in Nat
    BY TakenIsNat DEF EpochInv
  <2>4. running * EpochLength \in Int
    BY <1>1, ChainAssumption, SMTT(30)
  <2> QED BY <1>1, <1>2, <1>3, <2>2, <2>3, <2>4
<1>5. epoch' \in {NoEpoch} \cup Nat
  BY <1>1, <1>2
<1>6. LastHeight(epoch, EpochLength)' = LastHeight(epoch', EpochLength)
  BY DEF LastHeight
<1> QED BY <1>1, <1>2, <1>3, <1>4, <1>5, <1>6 DEF EpochInv

(* A rollback lowers the lowest tip by no more than it takes.               *)
LEMMA MoveStep ==
  ASSUME EpochInv, CompareChainMoves
  PROVE  EpochInv'
<1>0. ChainTypeOK /\ Taken \in Nat /\ forks \in Nat /\ MaxDepth \in Nat
  BY TakenIsNat, ChainAssumption DEF EpochInv
<1>1. /\ Forge \/ Rollback
      /\ low' = IF Len(chain') - 1 < low THEN Len(chain') - 1 ELSE low
      /\ epoch' = epoch
  BY DEF CompareChainMoves, runVars
<1>2. ChainTypeOK' /\ TipHeight' \in Int /\ TipHeight \in Int
  BY <1>1, ChainStep, TipInRange DEF EpochInv, ChainTypeOK, TipHeight
<1>3. low' \in Int /\ low' <= TipHeight'
  BY <1>1, <1>2 DEF EpochInv, TipHeight
<1>4. low + Taken <= low' + Taken'
  <2>1. CASE Forge
    <3>1. forks' = forks /\ TipHeight' = TipHeight + 1
      BY <2>1 DEF Forge, EpochInv, ChainTypeOK, TipHeight
    <3>2. low' = low /\ Taken' = Taken
      BY <1>1, <1>2, <3>1 DEF EpochInv, TipHeight, Taken
    <3> QED BY <1>0, <3>2 DEF EpochInv
  <2>2. CASE Rollback
    <3>1. PICK d \in 1 .. MaxDepth :
            d < Len(chain) /\ chain' = SubSeq(chain, 1, Len(chain) - d)
      BY <2>2 DEF Rollback
    <3>2. forks' = forks + 1
      BY <2>2 DEF Rollback
    <3>3. /\ d \in Nat /\ MaxDepth \in Nat /\ forks \in Nat /\ d <= MaxDepth
          /\ Len(chain) \in Nat
      BY <3>1, ChainAssumption DEF EpochInv, ChainTypeOK, Forks
    <3>4. TipHeight' = TipHeight - d
      BY <3>1, <3>3 DEF EpochInv, ChainTypeOK, TipHeight
    <3>5. low - MaxDepth <= low'
      BY <1>1, <1>2, <3>3, <3>4 DEF EpochInv, TipHeight
    <3>6. Taken' = Taken + MaxDepth
      BY <3>2, <3>3, Products DEF Taken
    <3>7. low \in Int /\ low' \in Int /\ MaxDepth \in Int /\ Taken \in Int
      BY <1>0, <1>3 DEF EpochInv
    <3> QED BY <3>5, <3>6, <3>7, SumsKeep
  <2> QED BY <1>1, <2>1, <2>2
<1>5. LastHeight(epoch, EpochLength)' = LastHeight(epoch, EpochLength)
  BY <1>1 DEF LastHeight
<1>6. Taken' \in Nat
  <2>1. forks' \in Nat
    BY <1>2, ChainAssumption DEF ChainTypeOK, Forks
  <2> QED BY <1>0, <2>1, Products DEF Taken
<1>7. epoch > 0 => LastHeight(epoch, EpochLength) \in Int
  BY ChainAssumption, SMTT(30) DEF LastHeight, EpochInv, NoEpoch
<1> QED BY <1>0, <1>1, <1>2, <1>3, <1>4, <1>5, <1>6, <1>7, ChainAssumption DEF EpochInv

LEMMA StillStep ==
  ASSUME EpochInv, UNCHANGED <<chain, forks, epoch, low>>
  PROVE  EpochInv'
BY DEF EpochInv, ChainTypeOK, TipHeight, LastHeight, Taken

LEMMA EpochNext == EpochInv /\ [CompareNext]_<<chain, forks, compareVars>> => EpochInv'
<1> SUFFICES ASSUME EpochInv, [CompareNext]_<<chain, forks, compareVars>> PROVE EpochInv'
  OBVIOUS
<1>1. CASE ResolveEpoch
  BY <1>1, ResolveStep
<1>2. CASE CompareChainMoves
  BY <1>2, MoveStep
<1>3. CASE ResolveFixtures \/ NextCase
  BY <1>3, StillStep DEF ResolveFixtures, NextCase, Unmoved
<1>4. CASE StartCase \/ ReadHeight \/ FindSample \/ AskNative \/ AskJanus
             \/ CompareCallFails \/ Exit
  <2>1. SameRun
    BY <1>4 DEF StartCase, ReadHeight, FindSample, AskNative, AskJanus, CompareCallFails, Exit
  <2> QED BY <2>1, StillStep DEF SameRun, Unmoved, runVars
<1>5. CASE UNCHANGED <<chain, forks, compareVars>>
  BY <1>5, StillStep DEF compareVars, runVars
<1> QED BY <1>1, <1>2, <1>3, <1>4, <1>5 DEF CompareNext

(* The epoch that _resolve_compare_epoch takes is over on both sides, and   *)
(* stays so, unless rollbacks and lag together take more than an epoch.     *)
THEOREM ComparedEpochsAreOver == CompareSpec => []ComparedEpochIsOver
<1>1. EpochInv => ComparedEpochIsOver
  <2> SUFFICES ASSUME EpochInv, epoch > 0, Taken + MaxLag <= EpochLength
               PROVE  LastHeight(epoch, EpochLength) <= low - MaxLag
    BY DEF ComparedEpochIsOver, Taken
  <2>1. /\ Taken \in Nat /\ MaxLag \in Nat /\ EpochLength \in Nat /\ low \in Int
        /\ epoch \in Nat
    BY TakenIsNat, CompareAssumption, ChainAssumption DEF EpochInv, NoEpoch
  <2>2. LastHeight(epoch, EpochLength) \in Int
    BY <2>1, SMTT(30) DEF LastHeight
  <2>3. LastHeight(epoch, EpochLength) + EpochLength < low + Taken
    BY DEF EpochInv
  <2> QED BY <2>1, <2>2, <2>3
<1> QED BY <1>1, EpochInit, EpochNext, PTL DEF CompareSpec

-----------------------------------------------------------------------------
(* What the steps keep, and what the sides answer *)

(* A finite set of numbers has a greatest one.                              *)
LEMMA GreatestExists ==
  ASSUME NEW S \in SUBSET Nat, IsFiniteSet(S), S # {}
  PROVE  \E m \in S : \A x \in S : x <= m
<1> DEFINE Has(A) == \E m \in A : \A x \in A : x <= m
           Lacking == {A \in FiniteSubsetsOf(Nat) : A # {} /\ ~Has(A)}
<1> SUFFICES ASSUME ~Has(S) PROVE FALSE
  OBVIOUS
<1>1. S \in Lacking
  BY DEF FiniteSubsetsOf
<1>2. PICK A \in Lacking : \A B \in Lacking : <<B, A>> \notin StrictSubsetOrdering(Nat)
  <2>1. IsWellFoundedOn(StrictSubsetOrdering(Nat), FiniteSubsetsOf(Nat))
    BY FS_StrictSubsetOrderingWellFounded
  <2>2. Lacking \subseteq FiniteSubsetsOf(Nat) /\ Lacking # {}
    BY <1>1
  <2> HIDE DEF Lacking
  <2> QED BY <2>1, <2>2, WFMin
<1>3. A \in SUBSET Nat /\ IsFiniteSet(A) /\ A # {} /\ ~Has(A)
  BY <1>2 DEF FiniteSubsetsOf
<1>4. PICK a \in A : TRUE
  BY <1>3
<1>5. A \ {a} # {}
  <2>1. SUFFICES ASSUME A = {a} PROVE FALSE
    BY <1>4
  <2>2. a \in A /\ \A x \in A : x <= a
    BY <1>3, <1>4, <2>1
  <2> QED BY <1>3, <2>2
<1>6. Has(A \ {a})
  <2>1. SUFFICES ASSUME ~Has(A \ {a}) PROVE FALSE
    OBVIOUS
  <2>2. A \ {a} \in Lacking
    BY <1>3, <1>5, <2>1, FS_RemoveElement DEF FiniteSubsetsOf
  <2>3. <<A \ {a}, A>> \in StrictSubsetOrdering(Nat)
    BY <1>3, <1>4 DEF StrictSubsetOrdering
  <2> QED BY <1>2, <2>2, <2>3
<1>7. PICK m \in A \ {a} : \A x \in A \ {a} : x <= m
  BY <1>6
<1>8. m \in A /\ m \in Nat /\ a \in Nat
  BY <1>3, <1>4, <1>7
<1>9. CASE a <= m
  <2>1. \A x \in A : x <= m
    BY <1>7, <1>9
  <2> QED BY <1>3, <1>8, <2>1
<1>10. CASE ~(a <= m)
  <2>1. \A x \in A : x <= a
    BY <1>3, <1>7, <1>8, <1>10
  <2> QED BY <1>3, <1>4, <2>1
<1> QED BY <1>9, <1>10

(* What is asked for by a block's hash.                                     *)
Hashed == Anchored /\ Asks \notin OfEpoch /\ ~ByNumber

(* A case that runs is one of the table's, and is not left out.             *)
CaseRuns ==
  /\ stage \in {"tip", "sample", "native", "janus"} =>
       Known /\ index <= Len(cases) /\ Mode \notin {"wrong face", "skip"}
  /\ stage = "tip" => Asks \in OfRecent \cup OfEpoch
  /\ stage = "sample" => Asks \in OfRecent \cup OfListed
  /\ stage = "judged" => index <= Len(cases)

(* The sample is still on the chain, or has been rolled back since.         *)
Holds(block) ==
  block \in Blocks /\ (block.height <= low => block = BlockAt(block.height))

(* What is asked for is what a case of its kind asks for.                   *)
Fits(at, asked) ==
  /\ at \in {"sample", "native", "janus"} /\ Asks \in OfRecent => asked.no \in Nat \ {0}
  /\ at \in {"native", "janus"} /\ Asks \in OfEpoch =>
       asked.no \in Nat /\ asked.block = Garbled
  /\ \/ at = "sample" /\ Asks \in OfRecent
     \/ at \in {"native", "janus"} /\ (Hashed \/ Asks = "slot")
     => Holds(asked.block)

SubjectFits == Fits(stage, subject)

(* The rows that tell contents of a block.                                  *)
TellingRow ==
  [id : {"it"} \cup Int \cup [height : Nat, fork : Forks],
   of : [height : Nat, fork : Forks]]
GoodRows(rows) == rows \in Seq(TellingRow)

NoHistory == Asks = "history" /\ epoch = NoEpoch

(* Over settled data the native answer is the one that every view of the    *)
(* chain gives that reaches as far.                                         *)
NativeFits ==
  stage = "janus" =>
    /\ GoodRows(native)
    /\ Settled <= low /\ ~NoHistory =>
         \A v \in Seq(Forks) :
           Settled < Len(v) /\ (\A h \in 0 .. Settled : v[h + 1] = chain[h + 1])
             => native = Rows(v, "native")

(* A function on the first numbers is a sequence, empty if there are none.  *)
LEMMA RowsOn ==
  ASSUME NEW n \in Int, NEW S, NEW f \in [1 .. n -> S]
  PROVE  /\ f \in Seq(S)
         /\ n > 0 => Len(f) = n /\ f # <<>>
         /\ n <= 0 => f = <<>>
<1>1. CASE n > 0
  <2>1. f \in Seq(S) /\ Len(f) = n
    BY <1>1
  <2> QED BY <1>1, <2>1
<1>2. CASE n <= 0
  <2>1. 1 .. n = 1 .. 0 /\ 0 \in Nat
    BY <1>2
  <2>2. f \in [1 .. 0 -> S] /\ DOMAIN f = 1 .. 0
    BY <2>1
  <2>3. f \in Seq(S)
    BY <2>1, <2>2, SeqDef
  <2>4. f = <<>>
    <3>1. SUFFICES ASSUME f # <<>> PROVE FALSE
      OBVIOUS
    <3>2. Len(f) \in Nat \ {0} /\ DOMAIN f = 1 .. Len(f)
      BY <2>3, <3>1, EmptySeq, LenProperties
    <3> QED BY <2>2, <3>2
  <2> QED BY <1>2, <2>3, <2>4
<1> QED BY <1>1, <1>2

LEMMA SameRows ==
  ASSUME NEW D, NEW S, NEW T, NEW f \in [D -> S], NEW g \in [D -> T],
         \A i \in D : f[i] = g[i]
  PROVE  f = g
<1>1. f \in [D -> S \cup T] /\ g \in [D -> S \cup T]
  OBVIOUS
<1> QED BY <1>1

LEMMA KnownBlockTells ==
  ASSUME NEW v \in Seq(Forks), NEW h \in 0 .. Len(v) - 1
  PROVE  KnownBlock(v, h) \in [height : Nat, fork : Forks]
<1>1. h + 1 \in 1 .. Len(v) /\ h \in Nat
  OBVIOUS
<1>2. v[h + 1] \in Forks
  BY <1>1, ElementOfSeq
<1> QED BY <1>1, <1>2 DEF KnownBlock

LEMMA BlockRowsGood ==
  ASSUME NEW v \in Seq(Forks), NEW first \in Int, NEW last \in Int
  PROVE  /\ GoodRows(BlockRows(v, first, last))
         /\ first <= last /\ 0 <= last /\ first < Len(v) /\ 0 < Len(v)
              => BlockRows(v, first, last) # <<>>
<1> DEFINE from == IF first < 0 THEN 0 ELSE first
           to == IF last < Len(v) THEN last ELSE Len(v) - 1
<1>1. PICK f : f = BlockRows(v, first, last)
  OBVIOUS
<1>2. PICK n : n = to - from + 1
  OBVIOUS
<1>3. n \in Int /\ from \in Nat /\ to \in Int /\ to < Len(v)
  BY <1>2
<1>4. f = [i \in 1 .. n |-> LET b == KnownBlock(v, from + i - 1) IN Row(b, b)]
  BY <1>1, <1>2 DEF BlockRows
<1> HIDE DEF from, to
<1>5. ASSUME first <= last, 0 <= last, first < Len(v), 0 < Len(v)
      PROVE  n > 0
  <2>1. from <= to
    BY <1>5 DEF from, to
  <2> QED BY <1>2, <1>3, <2>1
<1>6. ASSUME NEW i \in 1 .. n
      PROVE  LET b == KnownBlock(v, from + i - 1) IN Row(b, b) \in TellingRow
  <2>1. from + i - 1 \in 0 .. Len(v) - 1
    BY <1>2, <1>3
  <2>2. KnownBlock(v, from + i - 1) \in [height : Nat, fork : Forks]
    BY <2>1, KnownBlockTells
  <2> QED BY <2>2 DEF Row, TellingRow
<1>7. f \in [1 .. n -> TellingRow]
  BY <1>4, <1>6
<1> QED BY <1>1, <1>3, <1>5, <1>7, RowsOn DEF GoodRows

LEMMA BlockRowsAgree ==
  ASSUME NEW v \in Seq(Forks), NEW w \in Seq(Forks), NEW first \in Int, NEW last \in Int,
         last < Len(v), last < Len(w),
         \A h \in 0 .. last : v[h + 1] = w[h + 1]
  PROVE  BlockRows(v, first, last) = BlockRows(w, first, last)
<1> DEFINE from == IF first < 0 THEN 0 ELSE first
           At(x) == [i \in 1 .. last - from + 1 |->
                       LET b == KnownBlock(x, from + i - 1) IN Row(b, b)]
<1>1. BlockRows(v, first, last) = At(v) /\ BlockRows(w, first, last) = At(w)
  BY DEF BlockRows
<1>2. ASSUME NEW i \in 1 .. last - from + 1
      PROVE  KnownBlock(v, from + i - 1) = KnownBlock(w, from + i - 1)
  <2>1. from + i - 1 \in 0 .. last
    OBVIOUS
  <2> HIDE DEF from
  <2> QED BY <2>1 DEF KnownBlock
<1>3. PICK f, g : f = At(v) /\ g = At(w)
  OBVIOUS
<1>4. PICK n : n = last - from + 1
  OBVIOUS
<1>5. /\ f \in [1 .. n -> Range(f)] /\ g \in [1 .. n -> Range(g)]
      /\ \A i \in 1 .. n : f[i] = g[i]
  BY <1>2, <1>3, <1>4 DEF Range
<1> HIDE DEF At
<1>6. f = g
  <2> DEFINE D == 1 .. n
  <2>1. f \in [D -> Range(f)] /\ g \in [D -> Range(g)] /\ \A i \in D : f[i] = g[i]
    BY <1>5
  <2> HIDE DEF D
  <2> QED BY <2>1, SameRows
<1> QED BY <1>1, <1>3, <1>6

LEMMA LastHeightType ==
  ASSUME NEW n \in Int, NEW s \in Nat \ {0}
  PROVE  LastHeight(n, s) \in Int /\ (n >= 0 => LastHeight(n, s) \in Nat)
<1>1. n >= 0 => n * s >= 0
  BY SMTT(30)
<1>2. (n + 1) * s = n * s + s /\ n * s \in Int
  BY SMTT(30)
<1> QED BY <1>1, <1>2 DEF LastHeight

LEMMA LastHeights ==
  ASSUME NEW m \in Int, NEW n \in Int, NEW s \in Nat \ {0}, m <= n
  PROVE  LastHeight(m, s) <= LastHeight(n, s)
<1>1. m * s <= n * s /\ (n + 1) * s = n * s + s /\ (m + 1) * s = m * s + s
  BY SMTT(30)
<1>2. m * s \in Int /\ n * s \in Int
  OBVIOUS
<1> QED BY <1>1, <1>2 DEF LastHeight

LEMMA UnitReaches ==
  ASSUME NEW h \in Nat, NEW n \in Int, NEW s \in Nat \ {0}, n * s <= h
  PROVE  n <= Unit(h, s) /\ Unit(h, s) \in Nat
<1>1. PICK u \in Nat : u = Unit(h, s) /\ h <= LastHeight(u, s)
  BY UnitBounds
<1>2. SUFFICES ASSUME u + 1 <= n PROVE FALSE
  BY <1>1
<1>3. (u + 1) * s <= n * s
  BY <1>2, SMTT(30)
<1>4. (u + 1) * s \in Int /\ n * s \in Int
  OBVIOUS
<1> QED BY <1>1, <1>3, <1>4 DEF LastHeight

LEMMA UnitOver ==
  ASSUME NEW h \in Nat, NEW n \in Int, NEW s \in Nat \ {0}, LastHeight(n, s) <= h
  PROVE  n <= Unit(h, s) /\ Unit(h, s) \in Nat
<1>1. n * s <= h
  BY SMTT(30) DEF LastHeight
<1> QED BY <1>1, UnitReaches

LEMMA EpochEnds ==
  ASSUME NEW n \in Int
  PROVE  /\ LastHeight(n, EpochLength) \in Int
         /\ n >= 0 => LastHeight(n, EpochLength) \in Nat
BY LastHeightType, ChainAssumption

LEMMA EpochEndsMonotone ==
  ASSUME NEW m \in Int, NEW n \in Int, m <= n
  PROVE  LastHeight(m, EpochLength) <= LastHeight(n, EpochLength)
BY LastHeights, ChainAssumption

LEMMA EpochRowsGood ==
  ASSUME NEW v \in Seq(Forks), NEW first \in Int, NEW last \in Int, Len(v) > 0
  PROVE  /\ GoodRows(EpochRows(v, first, last))
         /\ first <= last /\ 0 <= last /\ first * EpochLength < Len(v)
              => EpochRows(v, first, last) # <<>>
<1> DEFINE from == IF first < 0 THEN 0 ELSE first
           running == Unit(Len(v) - 1, EpochLength)
           to == IF last < running THEN last ELSE running
           over(n) == LastHeight(n, EpochLength)
           at(n) == IF over(n) < Len(v) THEN over(n) ELSE Len(v) - 1
<1>0. Len(v) \in Nat /\ Len(v) - 1 \in Nat /\ EpochLength \in Nat \ {0}
  BY ChainAssumption
<1>1. PICK f : f = EpochRows(v, first, last)
  OBVIOUS
<1>2. PICK n : n = to - from + 1
  OBVIOUS
<1>3. running \in Nat
  BY <1>0, UnitBounds
<1>4. f = [i \in 1 .. n |-> LET m == from + i - 1 IN Row(m, KnownBlock(v, at(m)))]
  BY <1>1, <1>2 DEF EpochRows
<1> HIDE DEF running
<1>5. n \in Int /\ from \in Nat /\ to \in Int
  BY <1>2, <1>3
<1> HIDE DEF from, to
<1>6. ASSUME first <= last, 0 <= last, first * EpochLength < Len(v)
      PROVE  n > 0
  <2>1. first <= running
    <3>1. first * EpochLength <= Len(v) - 1
      <4>1. first * EpochLength \in Int
        BY <1>0
      <4> QED BY <1>0, <1>6, <4>1
    <3> QED BY <1>0, <3>1, UnitReaches DEF running
  <2>2. from <= to
    BY <1>3, <1>6, <2>1 DEF from, to
  <2> QED BY <1>2, <1>5, <2>2
<1>7. ASSUME NEW m \in Nat
      PROVE  Row(m, KnownBlock(v, at(m))) \in TellingRow
  <2>1. over(m) \in Nat
    BY EpochEnds DEF over
  <2>2. at(m) \in 0 .. Len(v) - 1
    BY <1>0, <2>1
  <2>3. KnownBlock(v, at(m)) \in [height : Nat, fork : Forks]
    BY <2>2, KnownBlockTells
  <2> QED BY <2>3 DEF Row, TellingRow
<1> HIDE DEF at
<1>8. f \in [1 .. n -> TellingRow]
  <2>1. ASSUME NEW i \in 1 .. n
        PROVE  from + i - 1 \in Nat
    BY <1>5
  <2> QED BY <1>4, <1>7, <2>1
<1> QED BY <1>1, <1>5, <1>6, <1>8, RowsOn DEF GoodRows

LEMMA EpochRowsAgree ==
  ASSUME NEW v \in Seq(Forks), NEW w \in Seq(Forks), NEW first \in Int, NEW last \in Int,
         Len(v) > 0, Len(w) > 0,
         LastHeight(last, EpochLength) < Len(v), LastHeight(last, EpochLength) < Len(w),
         \A h \in 0 .. LastHeight(last, EpochLength) : v[h + 1] = w[h + 1]
  PROVE  EpochRows(v, first, last) = EpochRows(w, first, last)
<1> DEFINE from == IF first < 0 THEN 0 ELSE first
           over(n) == LastHeight(n, EpochLength)
           At(x) == [i \in 1 .. last - from + 1 |->
                       LET n == from + i - 1 IN Row(n, KnownBlock(x, over(n)))]
<1>0. EpochLength \in Nat \ {0} /\ from \in Nat
  BY ChainAssumption
<1>1. ASSUME NEW x \in Seq(Forks), Len(x) > 0, over(last) < Len(x)
      PROVE  EpochRows(x, first, last) = At(x)
  <2> DEFINE running == Unit(Len(x) - 1, EpochLength)
             to == IF last < running THEN last ELSE running
             at(n) == IF over(n) < Len(x) THEN over(n) ELSE Len(x) - 1
             Got == [i \in 1 .. to - from + 1 |->
                       LET n == from + i - 1 IN Row(n, KnownBlock(x, at(n)))]
  <2>1. EpochRows(x, first, last) = Got
    BY DEF EpochRows
  <2>2. to = last
    <3>0. over(last) \in Int
      BY EpochEnds
    <3>1. Len(x) - 1 \in Nat /\ over(last) <= Len(x) - 1
      BY <1>1, <3>0
    <3>2. last <= running /\ running \in Nat
      BY <1>0, <3>1, UnitOver
    <3> HIDE DEF running
    <3> QED BY <3>2
  <2> HIDE DEF to
  <2>3. ASSUME NEW i \in 1 .. last - from + 1
        PROVE  at(from + i - 1) = over(from + i - 1)
    <3>1. from + i - 1 \in Int /\ from + i - 1 <= last
      BY <1>0
    <3>2. over(from + i - 1) \in Int /\ over(from + i - 1) <= over(last) /\ over(last) \in Int
      <4>1. PICK m \in Int : m = from + i - 1 /\ m <= last
        BY <3>1
      <4>2. /\ LastHeight(m, EpochLength) \in Int /\ LastHeight(last, EpochLength) \in Int
        BY EpochEnds
      <4>3. LastHeight(m, EpochLength) <= LastHeight(last, EpochLength)
        BY <4>1, EpochEndsMonotone
      <4> QED BY <4>1, <4>2, <4>3
    <3> HIDE DEF from, over
    <3> QED BY <1>1, <3>2
  <2> HIDE DEF at, over, from
  <2>4. Got = At(x)
    BY <2>2, <2>3
  <2> QED BY <2>1, <2>4
<1>2. ASSUME NEW i \in 1 .. last - from + 1
      PROVE  KnownBlock(v, over(from + i - 1)) = KnownBlock(w, over(from + i - 1))
  <2>1. from + i - 1 \in Nat /\ from + i - 1 <= last
    BY <1>0
  <2>2. /\ over(from + i - 1) \in Nat /\ over(last) \in Int
        /\ over(from + i - 1) <= over(last)
    <3>1. PICK m \in Nat : m = from + i - 1 /\ m <= last
      BY <2>1
    <3>2. /\ LastHeight(m, EpochLength) \in Nat /\ LastHeight(last, EpochLength) \in Int
      <4>1. m \in Int /\ m >= 0
        OBVIOUS
      <4>2. LastHeight(m, EpochLength) \in Nat
        BY <4>1, EpochEnds
      <4>3. LastHeight(last, EpochLength) \in Int
        BY EpochEnds
      <4> QED BY <4>2, <4>3
    <3>3. LastHeight(m, EpochLength) <= LastHeight(last, EpochLength)
      BY <3>1, EpochEndsMonotone
    <3>4. over(from + i - 1) = over(m)
      BY <3>1
    <3> QED BY <3>2, <3>3, <3>4
  <2>3. over(from + i - 1) \in 0 .. over(last)
    BY <2>2
  <2> HIDE DEF from
  <2> QED BY <2>3 DEF KnownBlock
<1>3. EpochRows(v, first, last) = At(v) /\ EpochRows(w, first, last) = At(w)
  BY <1>1
<1>4. PICK f, g : f = At(v) /\ g = At(w)
  OBVIOUS
<1>5. PICK n : n = last - from + 1
  OBVIOUS
<1> HIDE DEF over, from
<1>6. /\ f \in [1 .. n -> Range(f)] /\ g \in [1 .. n -> Range(g)]
      /\ \A i \in 1 .. n : f[i] = g[i]
  BY <1>2, <1>4, <1>5 DEF Range
<1> HIDE DEF At
<1>7. f = g
  <2> DEFINE D == 1 .. n
  <2>1. f \in [D -> Range(f)] /\ g \in [D -> Range(g)] /\ \A i \in D : f[i] = g[i]
    BY <1>6
  <2> HIDE DEF D
  <2> QED BY <2>1, SameRows
<1> QED BY <1>3, <1>4, <1>7

(* The last height at which registered data changes.                        *)
LastUpdate == CHOOSE h \in {0} \cup Updates : \A u \in Updates : u <= h

LEMMA LastUpdateIsLast ==
  LastUpdate \in {0} \cup Updates /\ LastUpdate \in Nat /\ \A u \in Updates : u <= LastUpdate
<1>1. {0} \cup Updates \in SUBSET Nat /\ IsFiniteSet({0} \cup Updates) /\ {0} \cup Updates # {}
  <2>1. IsFiniteSet(Updates \cup {0})
    BY CompareAssumption, FS_AddElement
  <2>2. Updates \cup {0} = {0} \cup Updates
    OBVIOUS
  <2>3. Updates \subseteq Nat
    BY CompareAssumption
  <2>4. {0} \cup Updates \in SUBSET Nat /\ {0} \cup Updates # {}
    BY <2>3
  <2>5. IsFiniteSet({0} \cup Updates)
    BY <2>1, <2>2, Zenon
  <2> QED BY <2>4, <2>5
<1>2. \E h \in {0} \cup Updates : \A u \in {0} \cup Updates : u <= h
  BY <1>1, GreatestExists
<1>3. \E h \in {0} \cup Updates : \A u \in Updates : u <= h
  BY <1>2
<1> QED BY <1>1, <1>3 DEF LastUpdate

LEMMA UpdatesWithin ==
  ASSUME NEW v \in Seq(Forks), Len(v) > 0
  PROVE  /\ Within(v, Updates) \subseteq 0 .. Len(v) - 1
         /\ IsFiniteSet({0} \cup Within(v, Updates))
         /\ LastUpdate < Len(v) => Within(v, Updates) = Updates
<1>1. IsFiniteSet({0} \cup Within(v, Updates))
  <2>1. {0} \cup Within(v, Updates) \subseteq 0 .. Len(v) - 1
    BY DEF Within
  <2>2. IsFiniteSet(0 .. Len(v) - 1)
    BY FS_Interval
  <2> QED BY <2>1, <2>2, FS_Subset
<1>2. ASSUME LastUpdate < Len(v)
      PROVE  Within(v, Updates) = Updates
  <2>1. ASSUME NEW u \in Updates
        PROVE  u \in 0 .. Len(v) - 1
    <3>1. u \in Nat /\ u <= LastUpdate /\ LastUpdate \in Nat
      BY LastUpdateIsLast, CompareAssumption
    <3> QED BY <1>2, <3>1
  <2> QED BY <2>1 DEF Within
<1> QED BY <1>1, <1>2 DEF Within

LEMMA RegisteredTells ==
  ASSUME NEW v \in Seq(Forks), Len(v) > 0
  PROVE  Registered(v) \in [height : Nat, fork : Forks]
<1> DEFINE past == {0} \cup Within(v, Updates)
           last == CHOOSE h \in past : \A u \in past : u <= h
<1>0. Within(v, Updates) \subseteq 0 .. Len(v) - 1 /\ IsFiniteSet(past)
  BY UpdatesWithin
<1>1. past \subseteq 0 .. Len(v) - 1 /\ past \in SUBSET Nat /\ IsFiniteSet(past) /\ past # {}
  BY <1>0
<1> HIDE DEF past
<1>2. \E h \in past : \A u \in past : u <= h
  BY <1>1, GreatestExists
<1>3. last \in past
  BY <1>2
<1>4. last \in 0 .. Len(v) - 1
  BY <1>1, <1>3
<1>5. Registered(v) = KnownBlock(v, last)
  BY DEF Registered, past
<1> HIDE DEF last
<1> QED BY <1>4, <1>5, KnownBlockTells

LEMMA RegisteredAgree ==
  ASSUME NEW v \in Seq(Forks), NEW w \in Seq(Forks),
         LastUpdate < Len(v), LastUpdate < Len(w),
         \A h \in 0 .. LastUpdate : v[h + 1] = w[h + 1]
  PROVE  Registered(v) = Registered(w)
<1> DEFINE past == {0} \cup Updates
           last == CHOOSE h \in past : \A u \in past : u <= h
<1>0. Len(v) > 0 /\ Len(w) > 0
  BY LastUpdateIsLast
<1>1. Within(v, Updates) = Updates /\ Within(w, Updates) = Updates
  BY <1>0, UpdatesWithin
<1>2. Registered(v) = KnownBlock(v, last) /\ Registered(w) = KnownBlock(w, last)
  BY <1>1 DEF Registered
<1>3. \E h \in past : \A u \in past : u <= h
  BY LastUpdateIsLast
<1>4. last \in past
  BY <1>3
<1>5. last \in 0 .. LastUpdate
  <2> HIDE DEF last
  <2>1. Updates \subseteq Nat
    BY CompareAssumption
  <2>2. last \in Nat
    BY <1>4, <2>1
  <2>3. LastUpdate \in Nat /\ last <= LastUpdate
    BY <1>4, <2>2, LastUpdateIsLast
  <2> QED BY <2>2, <2>3
<1> HIDE DEF last
<1> QED BY <1>2, <1>5 DEF KnownBlock

LEMMA HashRowsGood ==
  ASSUME NEW v \in Seq(Forks), NEW b
  PROVE  GoodRows(HashRows(v, b))
<1>1. CASE b.height \in Within(v, {b.height}) /\ KnownBlock(v, b.height) = b
  <2>1. b.height \in 0 .. Len(v) - 1
    BY <1>1 DEF Within
  <2>2. b \in [height : Nat, fork : Forks]
    BY <1>1, <2>1, KnownBlockTells
  <2>3. Row(b, b) \in TellingRow
    BY <2>2 DEF Row, TellingRow
  <2>4. HashRows(v, b) = <<Row(b, b)>>
    BY <1>1 DEF HashRows
  <2> QED BY <2>3, <2>4 DEF GoodRows
<1>2. CASE ~(b.height \in Within(v, {b.height}) /\ KnownBlock(v, b.height) = b)
  <2>1. HashRows(v, b) = <<>>
    BY <1>2 DEF HashRows
  <2> QED BY <2>1, EmptySeq DEF GoodRows
<1> QED BY <1>1, <1>2

(* A block that a view has in its place is found by its hash.               *)
LEMMA HashRowsFind ==
  ASSUME NEW v \in Seq(Forks), NEW b \in Blocks, b.height < Len(v), b.fork = v[b.height + 1]
  PROVE  HashRows(v, b) = <<Row(b, b)>>
<1>1. b.height \in Nat /\ b = [height |-> b.height, fork |-> b.fork]
  BY ChainAssumption DEF Blocks
<1>2. b.height \in Within(v, {b.height})
  BY <1>1 DEF Within
<1>3. KnownBlock(v, b.height) = b
  BY <1>1 DEF KnownBlock
<1> QED BY <1>2, <1>3 DEF HashRows

(* The row of the epoch compared, once the epoch is over.                   *)
EpochRow(v) == Row(epoch, KnownBlock(v, LastHeight(epoch, EpochLength)))

(* Of a page of epochs the filter keeps the one compared, if it is there.   *)
LEMMA FilteredPage ==
  ASSUME NEW v \in Seq(Forks), NEW first \in Int, NEW last \in Int,
         epoch \in Nat, LastHeight(epoch, EpochLength) < Len(v),
         last <= Unit(Len(v) - 1, EpochLength)
  PROVE  Filtered(EpochRows(v, first, last)) =
           IF first <= epoch /\ epoch <= last THEN <<EpochRow(v)>> ELSE <<>>
<1> DEFINE from == IF first < 0 THEN 0 ELSE first
           running == Unit(Len(v) - 1, EpochLength)
           over(m) == LastHeight(m, EpochLength)
           at(m) == IF over(m) < Len(v) THEN over(m) ELSE Len(v) - 1
           RowOf(m) == Row(m, KnownBlock(v, at(m)))
<1>1. PICK f : f = EpochRows(v, first, last)
  OBVIOUS
<1>2. PICK n : n = last - from + 1
  OBVIOUS
<1>3. n \in Int /\ from \in Nat
  BY <1>2
<1>4. f = [i \in 1 .. n |-> RowOf(from + i - 1)]
  <2>1. Len(v) - 1 \in Nat /\ EpochLength \in Nat \ {0}
    <3>1. LastHeight(epoch, EpochLength) \in Nat
      BY EpochEnds
    <3> QED BY <3>1, ChainAssumption
  <2>2. running \in Nat
    BY <2>1, UnitBounds
  <2>3. (IF last < running THEN last ELSE running) = last
    BY <2>2
  <2> QED BY <1>1, <1>2, <2>3 DEF EpochRows
<1>5. at(epoch) = over(epoch)
  OBVIOUS
<1>6. RowOf(epoch) = EpochRow(v)
  BY <1>5 DEF EpochRow
<1> HIDE DEF RowOf
<1>7. \A m : RowOf(m).id = m
  BY DEF RowOf, Row
<1>8. \A i \in 1 .. n : f[i] = RowOf(from + i - 1) /\ f[i].id = from + i - 1
  BY <1>4, <1>7
<1>9. f \in [1 .. n -> Range(f)]
  BY <1>4 DEF Range
<1>10. 1 .. Len(f) = 1 .. n
  <2>1. CASE n > 0
    BY <1>3, <1>9, <2>1, RowsOn
  <2>2. CASE n <= 0
    <3>1. f = <<>>
      BY <1>3, <1>9, <2>2, RowsOn
    <3>2. Len(f) = 0
      BY <3>1, EmptySeq
    <3> QED BY <1>3, <2>2, <3>2
  <2> QED BY <1>3, <2>1, <2>2
<1> DEFINE hits == {i \in 1 .. Len(f) : f[i].id = epoch}
<1>11. Filtered(f) = IF hits = {} THEN <<>> ELSE <<f[CHOOSE i \in hits : TRUE]>>
  BY DEF Filtered, NoEpoch
<1>12. \A i : i \in hits <=> i \in 1 .. n /\ from + i - 1 = epoch
  BY <1>8, <1>10
<1> HIDE DEF hits
<1>13. CASE first <= epoch /\ epoch <= last
  <2>1. epoch - from + 1 \in 1 .. n /\ from + (epoch - from + 1) - 1 = epoch
    BY <1>2, <1>3, <1>13
  <2>2. hits # {}
    BY <1>12, <2>1
  <2>3. \A i \in hits : f[i] = EpochRow(v)
    BY <1>6, <1>8, <1>12
  <2> QED BY <1>1, <1>11, <1>13, <2>2, <2>3
<1>14. CASE ~(first <= epoch /\ epoch <= last)
  <2>1. hits = {}
    <3>1. SUFFICES ASSUME NEW i \in hits PROVE FALSE
      OBVIOUS
    <3>2. i \in 1 .. n /\ from + i - 1 = epoch
      BY <1>12
    <3> QED BY <1>2, <1>3, <1>14, <3>2
  <2> QED BY <1>1, <1>11, <1>14, <2>1
<1> QED BY <1>13, <1>14

(* A finished epoch is in a pool's history, unless the page lacks it: of    *)
(* the oldest epochs on one face, of the newest on the other.               *)
LEMMA HistoryTells ==
  ASSUME NEW v \in Seq(Forks), face \in PublicFaces, epoch \in Nat,
         NEW side \in {"native", "janus"},
         LastHeight(epoch, EpochLength) + 1 < Len(v)
  PROVE  Filtered(History(v, side)) =
           IF \/ face = "blockfrost" /\ epoch >= HistoryPage
              \/ /\ face = "koios" /\ side = "janus"
                 /\ epoch < Unit(Len(v) - 1, EpochLength) - HistoryPage
           THEN <<>> ELSE <<EpochRow(v)>>
<1>0. PICK r : r = Unit(Len(v) - 1, EpochLength)
  OBVIOUS
<1>1. PICK last : last = r - 1
  OBVIOUS
<1>2. LastHeight(epoch, EpochLength) \in Nat /\ LastHeight(epoch, EpochLength) < Len(v)
  BY EpochEnds
<1>3. r \in Nat /\ last \in Int /\ epoch <= last /\ last <= r
  <2>1. (epoch + 1) * EpochLength <= Len(v) - 1
    <3>1. (epoch + 1) * EpochLength \in Int
      BY ChainAssumption, SMTT(30)
    <3> QED BY <1>2, <3>1 DEF LastHeight
  <2>2. Len(v) - 1 \in Nat /\ EpochLength \in Nat \ {0} /\ epoch + 1 \in Int
    BY <1>2, ChainAssumption
  <2>3. /\ epoch + 1 <= Unit(Len(v) - 1, EpochLength)
        /\ Unit(Len(v) - 1, EpochLength) \in Nat
    BY <2>1, <2>2, UnitReaches
  <2> QED BY <1>0, <1>1, <2>3
<1>4. epoch # NoEpoch /\ HistoryPage \in Nat \ {0}
  BY CompareAssumption DEF NoEpoch
<1>5. CASE face = "blockfrost"
  <2>1. PICK m : m = IF last < HistoryPage THEN last ELSE HistoryPage - 1
    OBVIOUS
  <2>2. m \in Int /\ m <= r /\ (epoch <= m <=> epoch < HistoryPage)
    BY <1>3, <1>4, <2>1
  <2>3. History(v, side) = EpochRows(v, 0, m)
    BY <1>0, <1>1, <1>5, <2>1 DEF History
  <2>4. Filtered(EpochRows(v, 0, m)) =
          IF 0 <= epoch /\ epoch <= m THEN <<EpochRow(v)>> ELSE <<>>
    BY <1>0, <1>2, <2>2, FilteredPage
  <2> QED BY <1>3, <1>4, <1>5, <2>2, <2>3, <2>4
<1>6. CASE face = "koios" /\ side = "native"
  <2>1. History(v, side) = EpochRows(v, epoch, epoch)
    BY <1>0, <1>1, <1>3, <1>4, <1>6 DEF History
  <2>2. epoch \in Int /\ epoch <= r
    BY <1>1, <1>3
  <2>3. Filtered(EpochRows(v, epoch, epoch)) = <<EpochRow(v)>>
    BY <1>0, <1>2, <2>2, FilteredPage
  <2> QED BY <1>6, <2>1, <2>3
<1>7. CASE face = "koios" /\ side = "janus"
  <2>1. PICK m : m = last - HistoryPage + 1
    OBVIOUS
  <2>2. History(v, side) = EpochRows(v, m, last)
    BY <1>0, <1>1, <1>7, <2>1 DEF History
  <2>3. m \in Int /\ (m <= epoch <=> ~(epoch < r - HistoryPage))
    BY <1>1, <1>3, <1>4, <2>1
  <2>4. Filtered(EpochRows(v, m, last)) =
          IF m <= epoch /\ epoch <= last THEN <<EpochRow(v)>> ELSE <<>>
    BY <1>0, <1>2, <1>3, <2>3, FilteredPage
  <2> QED BY <1>0, <1>3, <1>7, <2>2, <2>3, <2>4
<1> QED BY <1>5, <1>6, <1>7 DEF PublicFaces

LEMMA HistoryGood ==
  ASSUME NEW v \in Seq(Forks), Len(v) > 0, NEW side, epoch \in {NoEpoch} \cup Nat
  PROVE  GoodRows(Filtered(History(v, side)))
<1>1. PICK last : last = Unit(Len(v) - 1, EpochLength) - 1
  OBVIOUS
<1>2. last \in Int
  BY <1>1, UnitBounds, ChainAssumption
<1>3. HistoryPage \in Nat
  BY CompareAssumption
<1>4. PICK h : h = History(v, side)
  OBVIOUS
<1>5. GoodRows(h)
  <2>1. CASE face = "blockfrost"
    <3>1. PICK m : m = IF last < HistoryPage THEN last ELSE HistoryPage - 1
      OBVIOUS
    <3>2. m \in Int /\ h = EpochRows(v, 0, m)
      BY <1>1, <1>2, <1>3, <1>4, <2>1, <3>1 DEF History
    <3> QED BY <3>2, EpochRowsGood
  <2>2. CASE face # "blockfrost" /\ side = "native" /\ epoch # NoEpoch
    <3>1. PICK m : m = IF epoch <= last THEN epoch ELSE last
      OBVIOUS
    <3>2. m \in Int /\ epoch \in Int /\ h = EpochRows(v, epoch, m)
      BY <1>1, <1>2, <1>4, <2>2, <3>1 DEF History
    <3> QED BY <3>2, EpochRowsGood
  <2>3. CASE face # "blockfrost" /\ ~(side = "native" /\ epoch # NoEpoch)
    <3>1. PICK m : m = last - HistoryPage + 1
      OBVIOUS
    <3>2. m \in Int /\ h = EpochRows(v, m, last)
      BY <1>1, <1>2, <1>3, <1>4, <2>3, <3>1 DEF History
    <3> QED BY <1>2, <3>2, EpochRowsGood
  <2> QED BY <2>1, <2>2, <2>3
<1>6. GoodRows(Filtered(h))
  <2> DEFINE at == {i \in 1 .. Len(h) : h[i].id = epoch}
  <2>1. CASE at = {} /\ epoch # NoEpoch
    <3>1. Filtered(h) = <<>>
      BY <2>1 DEF Filtered
    <3> QED BY <3>1, EmptySeq DEF GoodRows
  <2>2. CASE at # {} /\ epoch # NoEpoch
    <3>1. PICK i : i = CHOOSE k \in at : TRUE
      OBVIOUS
    <3>2. Filtered(h) = <<h[i]>>
      BY <2>2, <3>1 DEF Filtered
    <3>3. i \in 1 .. Len(h)
      BY <2>2, <3>1
    <3>4. h[i] \in TellingRow
      BY <1>5, <3>3, ElementOfSeq DEF GoodRows
    <3> QED BY <3>2, <3>4 DEF GoodRows
  <2>3. CASE epoch = NoEpoch
    BY <1>5, <2>3 DEF Filtered
  <2> QED BY <2>1, <2>2, <2>3
<1> QED BY <1>4, <1>6

AskKinds == {"tip", "page", "constant", "registered", "list", "history"}
  \cup OfEpoch \cup OfRecent \cup OfListed

(* What a case that asks has for a subject.                                 *)
Suits ==
  /\ Asks \in AskKinds /\ face \in PublicFaces /\ epoch \in {NoEpoch} \cup Nat
  /\ Asks \in OfEpoch => subject.no \in Nat /\ subject.block = Garbled
  /\ ByNumber => subject.no \in Nat \ {0}
  /\ Hashed => subject.block \in Blocks

LEMMA Sizes ==
  /\ Count \in Nat \ {0} /\ PageSize \in Nat \ {0} /\ HistoryPage \in Nat \ {0}
  /\ Floor \in Nat \ {0} /\ Deep \in Nat /\ MaxLag \in Nat /\ EpochLength \in Nat \ {0}
BY CompareAssumption, ChainAssumption

ListRows(v) ==
  [i \in 1 .. Cardinality({0} \cup Within(v, Updates)) |-> Row(i, KnownBlock(v, 0))]

Unlike == {"tip", "page", "constant", "registered", "list", "history",
           "blocks after", "blocks before"} \cup OfEpoch

(* The height that settles the answer, by what is asked for.                *)
LEMMA SettledHeights ==
  /\ Asks \in {"tip", "page"} => Settled = PageSize - 1
  /\ Asks = "constant" => Settled = 0
  /\ Asks \in {"registered", "list"} => Settled = LastUpdate
  /\ Asks \in {"epoch", "epoch's blocks"} => Settled = LastHeight(subject.no, EpochLength)
  /\ Asks = "epochs after" => Settled = LastHeight(subject.no + Count, EpochLength)
  /\ Asks = "epochs before" => Settled = subject.no * EpochLength
  /\ Asks = "history" => Settled = LastHeight(epoch, EpochLength) + 1
  /\ Asks = "blocks after" => Settled = subject.no + Count
  /\ Asks = "blocks before" => Settled = subject.no
  /\ Asks \in AskKinds \ Unlike =>
       Settled = IF ByNumber THEN subject.no ELSE subject.block.height
<1>1. Asks \in {"tip", "page", "constant", "registered", "list"} =>
        /\ Asks \in {"tip", "page"} => Settled = PageSize - 1
        /\ Asks = "constant" => Settled = 0
        /\ Asks \in {"registered", "list"} => Settled = LastUpdate
  BY DEF Settled, LastUpdate, BlockByNumber
<1>2. /\ Asks \in {"epoch", "epoch's blocks"} => Settled = LastHeight(subject.no, EpochLength)
      /\ Asks = "epochs after" => Settled = LastHeight(subject.no + Count, EpochLength)
      /\ Asks = "epochs before" => Settled = subject.no * EpochLength
      /\ Asks = "history" => Settled = LastHeight(epoch, EpochLength) + 1
  BY DEF Settled, BlockByNumber
<1>3. /\ Asks = "blocks after" => Settled = subject.no + Count
      /\ Asks = "blocks before" => Settled = subject.no
  BY DEF Settled, BlockByNumber
<1>4. Asks \in AskKinds \ Unlike =>
        Settled = IF ByNumber THEN subject.no ELSE subject.block.height
  BY DEF Settled, Unlike, OfEpoch, ByNumber, BlockByNumber
<1> QED BY <1>1, <1>2, <1>3, <1>4

(* The rows, by what is asked for.                                          *)
LEMMA RowsByAsks ==
  ASSUME NEW v, NEW side
  PROVE  /\ Asks \in {"tip", "page"} => Rows(v, side) = BlockRows(v, 0, PageSize - 1)
         /\ Asks = "constant" => Rows(v, side) = <<Row("it", KnownBlock(v, 0))>>
         /\ Asks = "registered" => Rows(v, side) = <<Row("it", Registered(v))>>
         /\ Asks = "list" => Rows(v, side) = ListRows(v)
BY DEF Rows, ListRows, BlockByNumber

LEMMA RowsOfEpochs ==
  ASSUME NEW v, NEW side
  PROVE  /\ Asks = "epoch" => Rows(v, side) = EpochRows(v, subject.no, subject.no)
         /\ Asks = "epochs after" =>
              Rows(v, side) = EpochRows(v, subject.no + 1, subject.no + Count)
         /\ Asks = "epochs before" =>
              Rows(v, side) = EpochRows(v, subject.no - Count, subject.no - 1)
         /\ Asks = "history" => Rows(v, side) = Filtered(History(v, side))
BY DEF Rows, BlockByNumber

LEMMA RowsOfBlocks ==
  ASSUME NEW v, NEW side
  PROVE  /\ Asks = "epoch's blocks" =>
              Rows(v, side) =
                LET first == subject.no * EpochLength
                    page == first + PageSize - 1
                    end == LastHeight(subject.no, EpochLength)
                IN BlockRows(v, first, IF page < end THEN page ELSE end)
         /\ Asks = "blocks after" =>
              Rows(v, side) = BlockRows(v, subject.no + 1, subject.no + Count)
         /\ Asks = "blocks before" =>
              Rows(v, side) = BlockRows(v, subject.no - Count, subject.no - 1)
BY DEF Rows, BlockByNumber

(* A block by its number, or by its hash.                                   *)
LEMMA RowsOfABlock ==
  ASSUME NEW v, NEW side, Asks \in AskKinds \ Unlike
  PROVE  Rows(v, side) = IF ByNumber THEN BlockRows(v, subject.no, subject.no)
                         ELSE HashRows(v, subject.block)
BY DEF Rows, Unlike, OfEpoch, ByNumber, BlockByNumber

LEMMA HashedAsks ==
  ASSUME Asks \in AskKinds
  PROVE  Hashed <=> ~ByNumber /\ Asks \notin Unlike
BY DEF Hashed, Anchored, ByNumber, BlockByNumber, OfEpoch, Unlike

LEMMA SettledIsNat ==
  ASSUME Suits, ~NoHistory
  PROVE  Settled \in Nat
<1>1. CASE Asks \in {"tip", "page", "constant", "registered", "list"}
  <2>1. PageSize - 1 \in Nat /\ LastUpdate \in Nat
    BY Sizes, LastUpdateIsLast
  <2>2. Settled \in {PageSize - 1, 0, LastUpdate}
    BY <1>1, SettledHeights
  <2> QED BY <2>1, <2>2
<1>2. CASE Asks \in OfEpoch
  <2>1. subject.no \in Nat /\ subject.no + Count \in Nat
    BY <1>2, Sizes DEF Suits
  <2>2. /\ LastHeight(subject.no, EpochLength) \in Nat
        /\ LastHeight(subject.no + Count, EpochLength) \in Nat
    BY <2>1, EpochEnds
  <2>3. subject.no * EpochLength \in Nat
    BY <2>1, Sizes, SMTT(30)
  <2> QED BY <1>2, <2>2, <2>3, SettledHeights DEF OfEpoch
<1>3. CASE Asks = "history"
  <2>1. epoch \in Nat
    BY <1>3 DEF Suits, NoHistory
  <2>2. LastHeight(epoch, EpochLength) \in Nat
    BY <2>1, EpochEnds
  <2> QED BY <1>3, <2>2, SettledHeights
<1>4. CASE Asks \in {"blocks after", "blocks before"}
  <2>1. ByNumber
    BY <1>4 DEF ByNumber
  <2>2. subject.no \in Nat /\ subject.no + Count \in Nat
    BY <2>1, Sizes DEF Suits
  <2> QED BY <1>4, <2>2, SettledHeights
<1>5. CASE Asks \in AskKinds \ Unlike
  <2>1. CASE ByNumber
    BY <1>5, <2>1, SettledHeights DEF Suits
  <2>2. CASE ~ByNumber
    <3>1. Hashed
      BY <1>5, <2>2, HashedAsks DEF Suits
    <3>2. subject.block.height \in Nat
      BY <3>1, ChainAssumption DEF Suits, Blocks
    <3> QED BY <1>5, <2>2, <3>2, SettledHeights
  <2> QED BY <2>1, <2>2
<1> QED BY <1>1, <1>2, <1>3, <1>4, <1>5 DEF Suits, Unlike

LEMMA ListRowsGood ==
  ASSUME NEW v \in Seq(Forks), Len(v) > 0
  PROVE  GoodRows(ListRows(v))
<1>1. PICK n : n = Cardinality({0} \cup Within(v, Updates))
  OBVIOUS
<1>2. n \in Nat
  BY <1>1, UpdatesWithin, FS_CardinalityType
<1>3. KnownBlock(v, 0) \in [height : Nat, fork : Forks]
  BY KnownBlockTells
<1>4. PICK f : f = ListRows(v)
  OBVIOUS
<1>5. f \in [1 .. n -> TellingRow]
  <2>1. \A i \in 1 .. n : Row(i, KnownBlock(v, 0)) \in TellingRow
    BY <1>2, <1>3 DEF Row, TellingRow
  <2> QED BY <1>1, <1>4, <2>1 DEF ListRows
<1> QED BY <1>2, <1>4, <1>5, RowsOn DEF GoodRows

LEMMA OneRowGood ==
  ASSUME NEW b \in [height : Nat, fork : Forks]
  PROVE  GoodRows(<<Row("it", b)>>) /\ GoodRows(<<Row(b, b)>>)
BY DEF GoodRows, TellingRow, Row

LEMMA SubjectNumbers ==
  ASSUME Suits
  PROVE  /\ Asks \in OfEpoch \/ ByNumber => subject.no \in Nat
         /\ ByNumber => subject.no > 0
         /\ Asks \in {"blocks after", "blocks before"} => ByNumber
         /\ Asks \in OfEpoch => subject.no * EpochLength \in Nat
<1>1. Asks \in OfEpoch => subject.no * EpochLength \in Nat
  BY Sizes, SMTT(30) DEF Suits
<1>2. ByNumber => subject.no \in Nat /\ subject.no > 0
  BY DEF Suits
<1>3. Asks \in {"blocks after", "blocks before"} => ByNumber
  BY DEF ByNumber
<1>4. Asks \in OfEpoch => subject.no \in Nat
  BY DEF Suits
<1> QED BY <1>1, <1>2, <1>3, <1>4

LEMMA RowsGood ==
  ASSUME NEW v \in Seq(Forks), Len(v) > 0, NEW side, Suits
  PROVE  GoodRows(Rows(v, side))
<1>0. 0 \in 0 .. Len(v) - 1
  OBVIOUS
<1>1. CASE Asks \in {"tip", "page"}
  <2>1. PageSize - 1 \in Int /\ Rows(v, side) = BlockRows(v, 0, PageSize - 1)
    BY <1>1, Sizes, RowsByAsks
  <2> QED BY <2>1, BlockRowsGood
<1>2. CASE Asks \in {"constant", "registered"}
  <2>1. /\ KnownBlock(v, 0) \in [height : Nat, fork : Forks]
        /\ Registered(v) \in [height : Nat, fork : Forks]
    BY <1>0, KnownBlockTells, RegisteredTells
  <2>2. \/ Rows(v, side) = <<Row("it", KnownBlock(v, 0))>>
        \/ Rows(v, side) = <<Row("it", Registered(v))>>
    BY <1>2, RowsByAsks
  <2> QED BY <2>1, <2>2, OneRowGood
<1>3. CASE Asks = "list"
  BY <1>3, RowsByAsks, ListRowsGood
<1>4. CASE Asks = "history"
  BY <1>4, RowsOfEpochs, HistoryGood DEF Suits
<1>5. CASE Asks \in OfEpoch
  <2>1. subject.no \in Nat /\ subject.no * EpochLength \in Nat
    BY <1>5, SubjectNumbers
  <2>2. \E first, last \in Int : \/ Rows(v, side) = EpochRows(v, first, last)
                                 \/ Rows(v, side) = BlockRows(v, first, last)
    <3>1. CASE Asks \in {"epoch", "epochs after", "epochs before"}
      <4>1. /\ subject.no \in Int /\ subject.no + 1 \in Int /\ subject.no + Count \in Int
            /\ subject.no - Count \in Int /\ subject.no - 1 \in Int
        BY <2>1, Sizes
      <4> QED BY <3>1, <4>1, RowsOfEpochs
    <3>2. CASE Asks = "epoch's blocks"
      <4>1. PICK first : first = subject.no * EpochLength
        OBVIOUS
      <4>2. PICK last : last = IF first + PageSize - 1 < LastHeight(subject.no, EpochLength)
                               THEN first + PageSize - 1 ELSE LastHeight(subject.no, EpochLength)
        OBVIOUS
      <4>3. LastHeight(subject.no, EpochLength) \in Int
        BY <2>1, EpochEnds
      <4>4. first \in Int /\ last \in Int
        BY <2>1, <4>1, <4>2, <4>3, Sizes
      <4>5. Rows(v, side) = BlockRows(v, first, last)
        BY <3>2, <4>1, <4>2, RowsOfBlocks
      <4> QED BY <4>4, <4>5
    <3> QED BY <1>5, <3>1, <3>2 DEF OfEpoch
  <2> QED BY <2>2, EpochRowsGood, BlockRowsGood
<1>6. CASE Asks \in {"blocks after", "blocks before"}
  <2>1. subject.no \in Nat
    BY <1>6, SubjectNumbers
  <2>2. /\ subject.no + 1 \in Int /\ subject.no + Count \in Int
        /\ subject.no - Count \in Int /\ subject.no - 1 \in Int
    BY <2>1, Sizes
  <2> QED BY <1>6, <2>2, RowsOfBlocks, BlockRowsGood
<1>7. CASE Asks \in AskKinds \ Unlike
  <2>1. CASE ByNumber
    <3>1. subject.no \in Int
      BY <2>1, SubjectNumbers
    <3> QED BY <1>7, <2>1, <3>1, RowsOfABlock, BlockRowsGood
  <2>2. CASE ~ByNumber
    BY <1>7, <2>2, RowsOfABlock, HashRowsGood
  <2> QED BY <2>1, <2>2
<1> QED BY <1>1, <1>2, <1>3, <1>4, <1>5, <1>6, <1>7 DEF Suits, Unlike

(* Two views that agree as far as settles the answer give the same one.     *)
Agree(v, w, height) == \A h \in 0 .. height : v[h + 1] = w[h + 1]

LEMMA BlockRowsSame ==
  ASSUME NEW v \in Seq(Forks), NEW w \in Seq(Forks), NEW first \in Int, NEW last \in Int,
         NEW s \in Int, last <= s, s < Len(v), s < Len(w), Agree(v, w, s)
  PROVE  BlockRows(v, first, last) = BlockRows(w, first, last)
<1>1. last < Len(v) /\ last < Len(w) /\ \A h \in 0 .. last : v[h + 1] = w[h + 1]
  BY DEF Agree
<1> QED BY <1>1, BlockRowsAgree

LEMMA EpochRowsSame ==
  ASSUME NEW v \in Seq(Forks), NEW w \in Seq(Forks), NEW first \in Int, NEW last \in Int,
         NEW s \in Nat, LastHeight(last, EpochLength) <= s, s < Len(v), s < Len(w),
         Agree(v, w, s)
  PROVE  EpochRows(v, first, last) = EpochRows(w, first, last)
<1>1. LastHeight(last, EpochLength) \in Int
  BY EpochEnds
<1>2. /\ LastHeight(last, EpochLength) < Len(v) /\ LastHeight(last, EpochLength) < Len(w)
      /\ Len(v) > 0 /\ Len(w) > 0
      /\ \A h \in 0 .. LastHeight(last, EpochLength) : v[h + 1] = w[h + 1]
  BY <1>1 DEF Agree
<1> QED BY <1>2, EpochRowsAgree

LEMMA ListRowsSame ==
  ASSUME NEW v \in Seq(Forks), NEW w \in Seq(Forks),
         LastUpdate < Len(v), LastUpdate < Len(w), v[1] = w[1]
  PROVE  ListRows(v) = ListRows(w)
<1>1. Len(v) > 0 /\ Len(w) > 0
  BY LastUpdateIsLast
<1>2. Within(v, Updates) = Updates /\ Within(w, Updates) = Updates
  BY <1>1, UpdatesWithin
<1>3. KnownBlock(v, 0) = KnownBlock(w, 0)
  BY DEF KnownBlock
<1> QED BY <1>2, <1>3 DEF ListRows

LEMMA RowsSame ==
  ASSUME NEW v \in Seq(Forks), NEW w \in Seq(Forks), NEW a, NEW b, Suits, ~NoHistory,
         Asks # "history", Settled < Len(v), Settled < Len(w), Agree(v, w, Settled)
  PROVE  Rows(v, a) = Rows(w, b)
<1>0. PICK s \in Nat : s = Settled
  BY SettledIsNat
<1>a. s < Len(v) /\ s < Len(w) /\ Agree(v, w, s)
  BY <1>0
<1>b. v[1] = w[1]
  <2>1. 0 \in 0 .. s
    OBVIOUS
  <2>2. v[0 + 1] = w[0 + 1]
    BY <1>a, <2>1 DEF Agree
  <2> QED BY <2>2
<1>1. CASE Asks \in {"tip", "page"}
  <2>1. s = PageSize - 1
    BY <1>0, <1>1, SettledHeights
  <2>2. BlockRows(v, 0, s) = BlockRows(w, 0, s)
    BY <1>a, BlockRowsSame
  <2> QED BY <1>1, <2>1, <2>2, RowsByAsks
<1>2. CASE Asks = "constant"
  <2>1. KnownBlock(v, 0) = KnownBlock(w, 0)
    BY <1>b DEF KnownBlock
  <2> QED BY <1>2, <2>1, RowsByAsks
<1>3. CASE Asks \in {"registered", "list"}
  <2>1. s = LastUpdate
    BY <1>0, <1>3, SettledHeights
  <2>2. Registered(v) = Registered(w)
    BY <1>a, <2>1, RegisteredAgree DEF Agree
  <2>3. ListRows(v) = ListRows(w)
    BY <1>a, <1>b, <2>1, ListRowsSame
  <2> QED BY <1>3, <2>2, <2>3, RowsByAsks
<1>4. CASE Asks \in OfEpoch
  <2>1. PICK no \in Nat : no = subject.no
    BY <1>4, SubjectNumbers
  <2>2. LastHeight(no, EpochLength) \in Nat
    BY EpochEnds
  <2>3. CASE Asks = "epoch"
    <3>1. s = LastHeight(no, EpochLength)
      BY <1>0, <2>1, <2>3, SettledHeights
    <3>2. EpochRows(v, no, no) = EpochRows(w, no, no)
      BY <1>a, <3>1, EpochRowsSame
    <3> QED BY <2>1, <2>3, <3>2, RowsOfEpochs
  <2>4. CASE Asks = "epochs after"
    <3>1. s = LastHeight(no + Count, EpochLength)
      BY <1>0, <2>1, <2>4, SettledHeights
    <3>2. PICK first, last \in Int : first = no + 1 /\ last = no + Count
      BY Sizes
    <3>3. EpochRows(v, first, last) = EpochRows(w, first, last)
      <4>1. LastHeight(last, EpochLength) <= s
        BY <3>1, <3>2
      <4> QED BY <1>a, <4>1, EpochRowsSame
    <3> QED BY <2>1, <2>4, <3>2, <3>3, RowsOfEpochs
  <2>5. CASE Asks = "epochs before"
    <3>1. s = no * EpochLength
      BY <1>0, <2>1, <2>5, SettledHeights
    <3>2. no - Count \in Int /\ no - 1 \in Int
      BY Sizes
    <3>3. LastHeight(no - 1, EpochLength) <= s
      <4>1. LastHeight(no - 1, EpochLength) = s - 1
        <5>1. (no - 1) + 1 = no
          OBVIOUS
        <5> QED BY <3>1, <5>1 DEF LastHeight
      <4> QED BY <4>1
    <3>4. EpochRows(v, no - Count, no - 1) = EpochRows(w, no - Count, no - 1)
      BY <1>a, <3>2, <3>3, EpochRowsSame
    <3> QED BY <2>1, <2>5, <3>4, RowsOfEpochs
  <2>6. CASE Asks = "epoch's blocks"
    <3>1. PICK first : first = no * EpochLength
      OBVIOUS
    <3>2. PICK last : last = IF first + PageSize - 1 < s THEN first + PageSize - 1 ELSE s
      OBVIOUS
    <3>3. s = LastHeight(no, EpochLength)
      BY <1>0, <2>1, <2>6, SettledHeights
    <3>4. first \in Int
      BY <3>1, Sizes, SMTT(30)
    <3>5. last \in Int /\ last <= s
      BY <3>2, <3>4, Sizes
    <3>6. BlockRows(v, first, last) = BlockRows(w, first, last)
      BY <1>a, <3>4, <3>5, BlockRowsSame
    <3>7. Rows(v, a) = BlockRows(v, first, last) /\ Rows(w, b) = BlockRows(w, first, last)
      BY <2>1, <2>6, <3>1, <3>2, <3>3, RowsOfBlocks
    <3> QED BY <3>6, <3>7
  <2> QED BY <1>4, <2>3, <2>4, <2>5, <2>6 DEF OfEpoch
<1>5. CASE Asks \in {"blocks after", "blocks before"}
  <2>1. PICK no \in Nat : no = subject.no
    BY <1>5, SubjectNumbers
  <2>2. /\ no + 1 \in Int /\ no + Count \in Int /\ no - Count \in Int /\ no - 1 \in Int
    BY Sizes
  <2>3. CASE Asks = "blocks after"
    <3>1. s = no + Count
      BY <1>0, <2>1, <2>3, SettledHeights
    <3>2. BlockRows(v, no + 1, no + Count) = BlockRows(w, no + 1, no + Count)
      BY <1>a, <2>2, <3>1, BlockRowsSame
    <3> QED BY <2>1, <2>3, <3>2, RowsOfBlocks
  <2>4. CASE Asks = "blocks before"
    <3>0. s = no
      BY <1>0, <2>1, <2>4, SettledHeights
    <3>1. s = no /\ no - 1 <= s
      BY <3>0
    <3>2. BlockRows(v, no - Count, no - 1) = BlockRows(w, no - Count, no - 1)
      BY <1>a, <2>2, <3>1, BlockRowsSame
    <3> QED BY <2>1, <2>4, <3>2, RowsOfBlocks
  <2> QED BY <1>5, <2>3, <2>4
<1>6. CASE Asks \in AskKinds \ Unlike
  <2>1. CASE ByNumber
    <3>1. PICK no \in Nat : no = subject.no
      BY <2>1, SubjectNumbers
    <3>2. s = no
      BY <1>0, <1>6, <2>1, <3>1, SettledHeights
    <3>3. BlockRows(v, no, no) = BlockRows(w, no, no)
      BY <1>a, <3>2, BlockRowsSame
    <3> QED BY <1>6, <2>1, <3>1, <3>3, RowsOfABlock
  <2>2. CASE ~ByNumber
    <3>1. s = subject.block.height
      BY <1>0, <1>6, <2>2, SettledHeights
    <3>2. PICK block : block = subject.block
      OBVIOUS
    <3>3. /\ block.height \in Within(v, {block.height})
          /\ block.height \in Within(w, {block.height})
          /\ KnownBlock(v, block.height) = KnownBlock(w, block.height)
      <4>1. v[s + 1] = w[s + 1]
        <5>1. s \in 0 .. s
          OBVIOUS
        <5> QED BY <1>a, <5>1 DEF Agree
      <4> QED BY <1>a, <3>1, <3>2, <4>1 DEF Within, KnownBlock
    <3>4. HashRows(v, block) = HashRows(w, block)
      BY <3>3 DEF HashRows
    <3> QED BY <1>6, <2>2, <3>2, <3>4, RowsOfABlock
  <2> QED BY <2>1, <2>2
<1> QED BY <1>1, <1>2, <1>3, <1>4, <1>5, <1>6 DEF Suits, Unlike

(* So does a pool's history, of one side.                                   *)
LEMMA NativeSame ==
  ASSUME NEW v \in Seq(Forks), NEW w \in Seq(Forks), Suits, ~NoHistory,
         Settled < Len(v), Settled < Len(w), Agree(v, w, Settled)
  PROVE  Rows(v, "native") = Rows(w, "native")
<1>1. CASE Asks # "history"
  BY <1>1, RowsSame
<1>2. CASE Asks = "history"
  <2>1. epoch \in Nat /\ face \in PublicFaces
    BY <1>2 DEF Suits, NoHistory
  <2>2. PICK s \in Nat : s = LastHeight(epoch, EpochLength)
    BY <2>1, EpochEnds
  <2>3. s + 1 = Settled
    BY <1>2, <2>2, SettledHeights
  <2>4. LastHeight(epoch, EpochLength) + 1 < Len(v) /\ LastHeight(epoch, EpochLength) + 1 < Len(w)
    BY <2>2, <2>3
  <2>5. EpochRow(v) = EpochRow(w)
    <3>1. v[s + 1] = w[s + 1]
      <4>1. s \in 0 .. s + 1
        OBVIOUS
      <4> QED BY <2>3, <4>1 DEF Agree
    <3> QED BY <2>2, <3>1 DEF EpochRow, KnownBlock
  <2>6. Filtered(History(v, "native")) = Filtered(History(w, "native"))
    <3>1. Filtered(History(v, "native")) =
            IF face = "blockfrost" /\ epoch >= HistoryPage THEN <<>> ELSE <<EpochRow(v)>>
      BY <2>1, <2>4, HistoryTells
    <3>2. Filtered(History(w, "native")) =
            IF face = "blockfrost" /\ epoch >= HistoryPage THEN <<>> ELSE <<EpochRow(w)>>
      BY <2>1, <2>4, HistoryTells
    <3> QED BY <2>5, <3>1, <3>2
  <2> QED BY <1>2, <2>6, RowsOfEpochs
<1> QED BY <1>1, <1>2

(* A view that has the block that is asked for by its hash.                 *)
InPlace(v) == Hashed => subject.block.fork = v[subject.block.height + 1]

(* What is settled is there, but for epochs before the first.               *)
LEMMA OneIsSome == \A x : <<x>> # <<>>
OBVIOUS

FromFirst == Asks = "epochs before" /\ subject.no = 0

LEMMA RowsThere ==
  ASSUME NEW v \in Seq(Forks), NEW side, Suits, ~NoHistory, Settled < Len(v), InPlace(v),
         Asks \notin {"list", "history"}, ~FromFirst
  PROVE  Rows(v, side) # <<>>
<1>0. PICK s \in Nat : s = Settled
  BY SettledIsNat
<1>a. s < Len(v) /\ Len(v) > 0
  BY <1>0
<1>1. CASE Asks \in {"tip", "page"}
  <2>1. BlockRows(v, 0, PageSize - 1) # <<>>
    <3>1. PageSize - 1 \in Int /\ 0 <= PageSize - 1
      BY Sizes
    <3> QED BY <1>a, <3>1, BlockRowsGood
  <2> QED BY <1>1, <2>1, RowsByAsks
<1>2. CASE Asks \in {"constant", "registered"}
  BY <1>2, RowsByAsks, OneIsSome
<1>3. CASE Asks \in OfEpoch
  <2>1. PICK no \in Nat : no = subject.no
    BY <1>3, SubjectNumbers
  <2>2. /\ LastHeight(no, EpochLength) \in Nat
        /\ no * EpochLength \in Nat /\ no * EpochLength <= LastHeight(no, EpochLength)
    <3>1. LastHeight(no, EpochLength) = no * EpochLength + EpochLength - 1
      BY Sizes, SMTT(30) DEF LastHeight
    <3>2. no * EpochLength \in Nat
      BY Sizes, SMTT(30)
    <3> QED BY <3>1, <3>2, Sizes
  <2>3. CASE Asks = "epoch"
    <3>1. s = LastHeight(no, EpochLength)
      BY <1>0, <2>1, <2>3, SettledHeights
    <3>2. EpochRows(v, no, no) # <<>>
      <4>1. no * EpochLength < Len(v)
        BY <1>a, <2>2, <3>1
      <4> QED BY <1>a, <4>1, EpochRowsGood
    <3> QED BY <2>1, <2>3, <3>2, RowsOfEpochs
  <2>4. CASE Asks = "epochs after"
    <3>1. s = LastHeight(no + Count, EpochLength)
      BY <1>0, <2>1, <2>4, SettledHeights
    <3>2. PICK first, last \in Nat : first = no + 1 /\ last = no + Count /\ first <= last
      BY Sizes
    <3>3. first * EpochLength < Len(v)
      <4>1. /\ LastHeight(first, EpochLength) <= LastHeight(last, EpochLength)
            /\ LastHeight(first, EpochLength) \in Int
        BY <3>2, EpochEnds, EpochEndsMonotone
      <4>2. first * EpochLength <= LastHeight(first, EpochLength)
        BY Sizes, SMTT(30) DEF LastHeight
      <4>3. first * EpochLength \in Int
        BY Sizes
      <4>4. LastHeight(last, EpochLength) = s
        BY <3>1, <3>2
      <4> QED BY <1>a, <4>1, <4>2, <4>3, <4>4
    <3>4. EpochRows(v, first, last) # <<>>
      BY <1>a, <3>2, <3>3, EpochRowsGood
    <3> QED BY <2>1, <2>4, <3>2, <3>4, RowsOfEpochs
  <2>5. CASE Asks = "epochs before"
    <3>1. s = no * EpochLength /\ no # 0
      BY <1>0, <2>1, <2>5, SettledHeights DEF FromFirst
    <3>2. PICK first, last \in Int : first = no - Count /\ last = no - 1
      BY Sizes
    <3>3. first <= last /\ 0 <= last /\ first <= no
      BY <3>1, <3>2, Sizes
    <3>4. first * EpochLength < Len(v)
      <4>1. first * EpochLength <= no * EpochLength /\ first * EpochLength \in Int
        BY <3>3, Sizes, SMTT(30)
      <4> QED BY <1>a, <3>1, <4>1
    <3>5. EpochRows(v, first, last) # <<>>
      BY <1>a, <3>3, <3>4, EpochRowsGood
    <3> QED BY <2>1, <2>5, <3>2, <3>5, RowsOfEpochs
  <2>6. CASE Asks = "epoch's blocks"
    <3>1. PICK first : first = no * EpochLength
      OBVIOUS
    <3>2. PICK last : last = IF first + PageSize - 1 < s THEN first + PageSize - 1 ELSE s
      OBVIOUS
    <3>3. s = LastHeight(no, EpochLength)
      BY <1>0, <2>1, <2>6, SettledHeights
    <3>4. first \in Nat /\ first <= s
      BY <2>2, <3>1, <3>3
    <3>5. last \in Int /\ first <= last /\ 0 <= last
      BY <3>2, <3>4, Sizes
    <3>6. BlockRows(v, first, last) # <<>>
      BY <1>a, <3>4, <3>5, BlockRowsGood
    <3>7. Rows(v, side) = BlockRows(v, first, last)
      BY <2>1, <2>6, <3>1, <3>2, <3>3, RowsOfBlocks
    <3> QED BY <3>6, <3>7
  <2> QED BY <1>3, <2>3, <2>4, <2>5, <2>6 DEF OfEpoch
<1>4. CASE Asks \in {"blocks after", "blocks before"}
  <2>1. PICK no \in Nat : no = subject.no /\ no > 0
    BY <1>4, SubjectNumbers
  <2>2. CASE Asks = "blocks after"
    <3>1. s = no + Count
      BY <1>0, <2>1, <2>2, SettledHeights
    <3>2. PICK first, last \in Nat : first = no + 1 /\ last = no + Count /\ first <= last
      BY Sizes
    <3>3. BlockRows(v, first, last) # <<>>
      BY <1>a, <3>1, <3>2, BlockRowsGood
    <3> QED BY <2>1, <2>2, <3>2, <3>3, RowsOfBlocks
  <2>3. CASE Asks = "blocks before"
    <3>1. s = no
      BY <1>0, <2>1, <2>3, SettledHeights
    <3>2. PICK first, last \in Int : first = no - Count /\ last = no - 1
      BY Sizes
    <3>3. first <= last /\ 0 <= last /\ first < no
      BY <2>1, <3>2, Sizes
    <3>4. BlockRows(v, first, last) # <<>>
      BY <1>a, <3>1, <3>3, BlockRowsGood
    <3> QED BY <2>1, <2>3, <3>2, <3>4, RowsOfBlocks
  <2> QED BY <1>4, <2>2, <2>3
<1>5. CASE Asks \in AskKinds \ Unlike
  <2>1. CASE ByNumber
    <3>1. PICK no \in Nat : no = subject.no
      BY <2>1, SubjectNumbers
    <3>2. s = no
      BY <1>0, <1>5, <2>1, <3>1, SettledHeights
    <3>3. BlockRows(v, no, no) # <<>>
      BY <1>a, <3>2, BlockRowsGood
    <3> QED BY <1>5, <2>1, <3>1, <3>3, RowsOfABlock
  <2>2. CASE ~ByNumber
    <3>1. Hashed
      BY <1>5, <2>2, HashedAsks
    <3>2. PICK block \in Blocks : block = subject.block /\ block.fork = v[block.height + 1]
      BY <3>1 DEF Suits, InPlace
    <3>3. block.height = s
      BY <1>0, <1>5, <2>2, <3>2, SettledHeights
    <3>4. HashRows(v, block) = <<Row(block, block)>>
      BY <1>a, <3>2, <3>3, HashRowsFind
    <3> QED BY <1>5, <2>2, <3>2, <3>4, RowsOfABlock, OneIsSome
  <2> QED BY <2>1, <2>2
<1> QED BY <1>1, <1>2, <1>3, <1>4, <1>5 DEF Suits, Unlike

LEMMA AnchorSettled ==
  ASSUME Suits, Anchored
  PROVE  Anchor \in Nat /\ Anchor <= Settled
<1>1. CASE Asks \in OfEpoch
  <2>1. PICK no \in Nat : no = subject.no
    BY <1>1, SubjectNumbers
  <2>2. Anchor = no * EpochLength
    BY <1>1, <2>1 DEF Anchor, OfEpoch
  <2>3. /\ no * EpochLength \in Nat
        /\ no * EpochLength <= LastHeight(no, EpochLength)
    <3>1. LastHeight(no, EpochLength) = no * EpochLength + EpochLength - 1
      BY Sizes, SMTT(30) DEF LastHeight
    <3>2. no * EpochLength \in Nat
      BY Sizes, SMTT(30)
    <3> QED BY <3>1, <3>2, Sizes
  <2>4. /\ LastHeight(no, EpochLength) \in Nat
        /\ LastHeight(no + Count, EpochLength) \in Nat
        /\ LastHeight(no, EpochLength) <= LastHeight(no + Count, EpochLength)
    <3>1. PICK m \in Nat : m = no + Count /\ no <= m
      BY Sizes
    <3> QED BY <3>1, EpochEnds, EpochEndsMonotone
  <2>5. Settled \in {LastHeight(no, EpochLength), LastHeight(no + Count, EpochLength),
                     no * EpochLength}
    BY <1>1, <2>1, SettledHeights DEF OfEpoch
  <2> QED BY <2>2, <2>3, <2>4, <2>5
<1>2. CASE Asks \notin OfEpoch /\ ByNumber
  <2>1. PICK no \in Nat : no = subject.no
    BY <1>2, SubjectNumbers
  <2>2. Anchor = no
    BY <1>2, <2>1 DEF Anchor, OfEpoch
  <2>3. Settled \in {no, no + Count}
    <3>1. Asks \in {"blocks after", "blocks before"} \/ Asks \in AskKinds \ Unlike
      BY <1>2 DEF Anchored, Suits, Unlike
    <3> QED BY <1>2, <2>1, <3>1, SettledHeights
  <2> QED BY <2>2, <2>3, Sizes
<1>3. CASE Asks \notin OfEpoch /\ ~ByNumber
  <2>1. Hashed
    BY <1>3 DEF Hashed
  <2>2. Anchor = subject.block.height
    BY <1>3 DEF Anchor, OfEpoch
  <2>3. Settled = subject.block.height
    BY <1>3, <2>1, HashedAsks, SettledHeights DEF Suits
  <2>4. subject.block.height \in Nat
    BY <2>1, ChainAssumption DEF Suits, Blocks
  <2> QED BY <2>2, <2>3, <2>4
<1> QED BY <1>1, <1>2, <1>3

LEMMA NotThereUnsettled ==
  ASSUME NEW v \in Seq(Forks), Suits, ~NoHistory, Settled < Len(v), InPlace(v)
  PROVE  ~NotThere(v)
<1> SUFFICES ASSUME NotThere(v) PROVE FALSE
  OBVIOUS
<1>1. Anchored
  BY DEF NotThere
<1>2. PICK a \in Nat : a = Anchor /\ a <= Settled
  BY <1>1, AnchorSettled
<1>3. Settled \in Nat
  BY SettledIsNat
<1>4. Anchor \in Within(v, {Anchor})
  BY <1>2, <1>3 DEF Within
<1>5. ~ByNumber /\ subject.block # Garbled /\ HashRows(v, subject.block) = <<>>
  BY <1>4 DEF NotThere
<1>6. Hashed
  BY <1>1, <1>5 DEF Hashed, Suits
<1>7. PICK block \in Blocks : block = subject.block /\ block.fork = v[block.height + 1]
  BY <1>6 DEF Suits, InPlace
<1>8. block.height = Settled
  BY <1>6, <1>7, HashedAsks, SettledHeights DEF Suits
<1>9. HashRows(v, block) = <<Row(block, block)>>
  BY <1>7, <1>8, HashRowsFind
<1> QED BY <1>5, <1>7, <1>9, OneIsSome

-----------------------------------------------------------------------------
(* Verdicts                                                                 *)

Judging == {"always", "no diff", "by epoch", "identity", "row", "epochs", "lengths",
            "some", "same set", "same order", "set in order", "contents", "aligned",
            "overlap", "both", "alike"}

LEMMA VerdictIsBoolean ==
  ASSUME NEW mode \in Judging, NEW n, NEW j
  PROVE  Verdict(mode, n, j) \in BOOLEAN
BY DEF Judging, Verdict, NoDiffByEpoch, SameIdentity

(* An answer is right by itself, if it has rows where some are called for.  *)
Enough(mode, r) == r # <<>> \/ mode \in {"by epoch", "lengths", "set in order"}

LEMMA VerdictOfSame ==
  ASSUME NEW mode \in Judging, NEW r, GoodRows(r), Enough(mode, r)
  PROVE  Verdict(mode, r, r)
<1>1. CASE mode \in {"always", "no diff", "by epoch", "identity", "row"}
  BY <1>1 DEF Verdict, Enough, NoDiffByEpoch, SameIdentity
<1>2. CASE mode \in {"epochs", "lengths", "some"}
  BY <1>2 DEF Verdict, Enough
<1>3. CASE mode \in {"same set", "same order", "set in order"}
  BY <1>3 DEF Verdict, Enough
<1>4. CASE mode \in {"contents", "aligned", "both", "alike"}
  BY <1>4 DEF Verdict, Enough
<1>5. CASE mode = "overlap"
  <2>0. r # <<>>
    BY <1>5 DEF Enough
  <2>1. Len(r) \in Nat \ {0}
    BY <2>0, EmptySeq DEF GoodRows
  <2>2. 1 \in 1 .. Len(r)
    BY <2>1
  <2>3. r[1].id \in Ids(r)
    BY <2>2 DEF Ids
  <2> QED BY <1>5, <2>3 DEF Verdict, Enough
<1> QED BY <1>1, <1>2, <1>3, <1>4, <1>5 DEF Judging

Comparing == {"no diff", "by epoch", "epochs", "contents", "aligned"}

(* Contents that are of no block pass no comparison of contents.            *)
LEMMA GarbledFails ==
  ASSUME NEW mode \in Comparing, NEW n, NEW r, GoodRows(n), GoodRows(r),
         mode = "aligned" => Len(n) = Len(r), r # <<>>
  PROVE  ~Verdict(mode, n, Told(r, FALSE))
<1> SUFFICES ASSUME Verdict(mode, n, Told(r, FALSE)) PROVE FALSE
  OBVIOUS
<1>1. PICK k \in Nat \ {0} : k = Len(r)
  BY EmptySeq DEF GoodRows
<1>2. PICK j : j = Told(r, FALSE)
  OBVIOUS
<1>3. j = [i \in 1 .. k |-> Row(r[i].id, Garbled)]
  BY <1>1, <1>2 DEF Told
<1>4. Len(j) = k /\ j[1].of = Garbled /\ j[1].of.height = -1 /\ j[1] \in RowSet(j)
  BY <1>3 DEF Row, Garbled, RowSet
<1>5. ASSUME NEW row \in RowSet(n)
      PROVE  row.of.height \in Nat
  <2>1. PICK i \in 1 .. Len(n) : row = n[i]
    BY DEF RowSet
  <2>2. row \in TellingRow
    BY <2>1, ElementOfSeq DEF GoodRows
  <2> QED BY <2>2 DEF TellingRow
<1>6. Verdict(mode, n, j)
  BY <1>2
<1>7. j[1] \notin RowSet(n)
  BY <1>4, <1>5
<1>8. n # j
  BY <1>4, <1>7
<1>9. CASE mode = "no diff" \/ mode = "contents"
  BY <1>6, <1>8, <1>9 DEF Verdict
<1>10. CASE mode = "by epoch"
  BY <1>4, <1>6, <1>7, <1>10 DEF Verdict, NoDiffByEpoch
<1>11. CASE mode = "aligned"
  BY <1>1, <1>4, <1>6, <1>8, <1>11 DEF Verdict
<1>12. CASE mode = "epochs"
  <2>1. Len(n) = Len(j) /\ \A i \in 1 .. Len(n) : EpochOf(n[i]) = EpochOf(j[i])
    BY <1>6, <1>12 DEF Verdict
  <2>2. 1 \in 1 .. Len(n)
    BY <1>1, <1>4, <2>1
  <2>3. n[1].of.height \in Nat
    BY <1>5, <2>2 DEF RowSet
  <2>4. EpochOf(n[1]) \in Nat
    BY <2>3, UnitBounds, ChainAssumption DEF EpochOf
  <2>5. EpochOf(j[1]) = -1
    <3>1. \A s \in Nat \ {0} : (-1) \div s = -1
      BY SMTT(30)
    <3> QED BY <1>4, <3>1, ChainAssumption DEF EpochOf, Unit
  <2> QED BY <2>1, <2>2, <2>4, <2>5
<1> QED BY <1>9, <1>10, <1>11, <1>12 DEF Comparing

-----------------------------------------------------------------------------
(* The table of the cases                                                   *)

(* What is judged how: lists that may be empty are not held against each    *)
(* other row by row.                                                        *)
Fair(asks, mode) ==
  /\ asks \in AskKinds /\ mode \in Judging \cup {"wrong face", "skip"}
  /\ asks \in {"epochs before", "history"} => mode \in {"by epoch", "wrong face"}
  /\ asks = "list" => mode \in {"lengths", "set in order", "skip"}
  /\ asks = "slot" => mode = "same order"
  /\ mode = "aligned" => asks = "constant"

FairOnBoth(case) == Fair(case.asks, case.judge.koios) /\ Fair(case.asks, case.judge.blockfrost)

LEMMA FairCases1 ==
  /\ FairOnBoth(TipSoftly) /\ FairOnBoth(Genesis)
  /\ FairOnBoth(EpochInfo) /\ FairOnBoth(PoolList)
  /\ FairOnBoth(PoolHistory) /\ FairOnBoth(EpochParams)
  /\ FairOnBoth(EpochsNext) /\ FairOnBoth(PoolInfo)
  /\ FairOnBoth(PoolMetadata) /\ FairOnBoth(PoolRelays)
  /\ FairOnBoth(PoolDelegators) /\ FairOnBoth(PoolBlocks)
BY Zenon DEF FairOnBoth, Fair, AskKinds, OfEpoch, OfRecent, OfListed, Judging, Case,
   TipSoftly, Genesis, EpochInfo, PoolList, PoolHistory, EpochParams,
   EpochsNext, PoolInfo, PoolMetadata, PoolRelays, PoolDelegators,
   PoolBlocks

LEMMA FairCases2 ==
  /\ FairOnBoth(PoolUpdates) /\ FairOnBoth(PoolVotes)
  /\ FairOnBoth(BlockInfo) /\ FairOnBoth(AddressInfo)
  /\ FairOnBoth(AddressExtended) /\ FairOnBoth(AddressAssets)
  /\ FairOnBoth(AccountInfo) /\ FairOnBoth(EpochsPrevious)
  /\ FairOnBoth(EpochBlocks) /\ FairOnBoth(BlockTxs)
  /\ FairOnBoth(TxInfo) /\ FairOnBoth(TxUtxos)
BY Zenon DEF FairOnBoth, Fair, AskKinds, OfEpoch, OfRecent, OfListed, Judging, Case,
   PoolUpdates, PoolVotes, BlockInfo, AddressInfo, AddressExtended,
   AddressAssets, AccountInfo, EpochsPrevious, EpochBlocks, BlockTxs,
   TxInfo, TxUtxos

LEMMA FairCases3 ==
  /\ FairOnBoth(TxMetadata) /\ FairOnBoth(TxCbor)
  /\ FairOnBoth(AddressUtxos) /\ FairOnBoth(AddressTxs)
  /\ FairOnBoth(AccountRewards) /\ FairOnBoth(AccountHistory)
  /\ FairOnBoth(AccountAddresses) /\ FairOnBoth(PoolsExtended)
  /\ FairOnBoth(GovernanceCommittee) /\ FairOnBoth(AccountDelegations)
  /\ FairOnBoth(AccountTxs) /\ FairOnBoth(MetadataLabels)
BY Zenon DEF FairOnBoth, Fair, AskKinds, OfEpoch, OfRecent, OfListed, Judging, Case,
   TxMetadata, TxCbor, AddressUtxos, AddressTxs, AccountRewards,
   AccountHistory, AccountAddresses, PoolsExtended, GovernanceCommittee,
   AccountDelegations, AccountTxs, MetadataLabels

LEMMA FairCases4 ==
  /\ FairOnBoth(GovernanceDreps) /\ FairOnBoth(GovernanceProposals)
  /\ FairOnBoth(AssetInfo) /\ FairOnBoth(DrepInfo)
  /\ FairOnBoth(MetadataByLabel) /\ FairOnBoth(ScriptInfo)
  /\ FairOnBoth(DatumInfo) /\ FairOnBoth(EraSummaries)
  /\ FairOnBoth(BlocksNext) /\ FairOnBoth(BlocksPrevious)
  /\ FairOnBoth(BlockBySlot)
BY Zenon DEF FairOnBoth, Fair, AskKinds, OfEpoch, OfRecent, OfListed, Judging, Case,
   GovernanceDreps, GovernanceProposals, AssetInfo, DrepInfo,
   MetadataByLabel, ScriptInfo, DatumInfo, EraSummaries, BlocksNext,
   BlocksPrevious, BlockBySlot

LEMMA CasesAreFair ==
  ASSUME NEW name \in DOMAIN Cases, NEW f \in PublicFaces
  PROVE  Fair(Cases[name].asks, Cases[name].judge[f])
<1> DEFINE Names ==
           {"tip", "genesis", "epoch_info", "pool_list", "pool_history",
            "epoch_params", "epochs_next", "pool_info", "pool_metadata",
            "pool_relays", "pool_delegators", "pool_blocks", "pool_updates",
            "pool_votes", "block_info", "address_info", "address_extended",
            "address_assets", "account_info", "epochs_previous",
            "epoch_blocks", "block_txs", "tx_info", "tx_utxos",
            "tx_metadata", "tx_cbor", "address_utxos", "address_txs",
            "account_rewards", "account_history", "account_addresses",
            "pools_extended", "governance_committee", "account_delegations",
            "account_txs", "metadata_labels", "governance_dreps",
            "governance_proposals", "asset_info", "drep_info",
            "metadata_by_label", "script_info", "datum_info",
            "era_summaries", "blocks_next", "blocks_previous",
            "block_by_slot"}
           Rest ==
           {TipSoftly, Genesis, EpochInfo, PoolList, PoolHistory,
            EpochParams, EpochsNext, PoolInfo, PoolMetadata, PoolRelays,
            PoolDelegators, PoolBlocks, PoolUpdates, PoolVotes, BlockInfo,
            AddressInfo, AddressExtended, AddressAssets, AccountInfo,
            EpochsPrevious, EpochBlocks, BlockTxs, TxInfo, TxUtxos,
            TxMetadata, TxCbor, AddressUtxos, AddressTxs, AccountRewards,
            AccountHistory, AccountAddresses, PoolsExtended,
            GovernanceCommittee, AccountDelegations, AccountTxs,
            MetadataLabels, GovernanceDreps, GovernanceProposals, AssetInfo,
            DrepInfo, MetadataByLabel, ScriptInfo, DatumInfo, EraSummaries,
            BlocksNext, BlocksPrevious, BlockBySlot}
<1>1. DOMAIN Cases = Names
  BY DEF Cases
<1>2. \A x \in Names : Cases[x] \in Rest
  BY DEF Cases
<1>3. \A c \in Rest : FairOnBoth(c)
  BY FairCases1, FairCases2, FairCases3, FairCases4
<1> HIDE DEF Names, Rest
<1>4. FairOnBoth(Cases[name])
  BY <1>1, <1>2, <1>3
<1> QED BY <1>4 DEF FairOnBoth, PublicFaces

-----------------------------------------------------------------------------
(* The steps                                                                *)

(* A case that runs asks for what it should, a sample is of the chain as it *)
(* was, and a native answer is the one any view gives that reaches as far.  *)
CoreInv ==
  /\ CompareTypeOK /\ EpochInv
  /\ CaseRuns /\ SubjectFits /\ NativeFits
  /\ AlarmHasReason /\ PassHasCompared

LEMMA SameCase ==
  ASSUME UNCHANGED <<face, cases, index>>
  PROVE  /\ Asks' = Asks /\ Mode' = Mode /\ Known' = Known /\ Needs' = Needs
<1>1. Now' = Now
  BY DEF Now
<1> QED BY <1>1 DEF Asks, Mode, Known, Needs

LEMMA SameAsks ==
  ASSUME Asks' = Asks, face' = face
  PROVE  /\ BlockByNumber' = BlockByNumber /\ ByNumber' = ByNumber
         /\ Anchored' = Anchored /\ Hashed' = Hashed
BY DEF ByNumber, BlockByNumber, Hashed, Anchored

LEMMA SameSettled ==
  ASSUME Asks' = Asks, face' = face, UNCHANGED <<subject, epoch>>
  PROVE  Settled' = Settled /\ NoHistory' = NoHistory
BY SameAsks DEF Settled, NoHistory

LEMMA SameRowsOf ==
  ASSUME Asks' = Asks, face' = face, UNCHANGED <<subject, epoch>>, NEW v, NEW side
  PROVE  Rows(v, side)' = Rows(v, side)
<1>1. BlockByNumber' = BlockByNumber
  BY SameAsks
<1>2. Filtered(History(v, side))' = Filtered(History(v, side))
  BY DEF Filtered, History
<1> QED BY <1>1, <1>2 DEF Rows

Stages == {"start", "fixtures", "case", "tip", "sample", "native", "janus", "judged", "exit"}
Subjects == [no : {-1} \cup Nat, block : Blocks \cup {Garbled}]

LEMMA TypeKept ==
  ASSUME CompareTypeOK, SameRun, stage' \in Stages, subject' \in Subjects,
         {result'.ok, result'.right, failed'} \subseteq BOOLEAN
  PROVE  CompareTypeOK'
BY DEF CompareTypeOK, ChainTypeOK, SameRun, Unmoved, runVars, Stages, Subjects

LEMMA EndTells ==
  ASSUME NEW ok \in BOOLEAN, NEW detail, End(ok, detail), CompareTypeOK
  PROVE  /\ stage' = "judged" /\ result'.detail = detail
         /\ {result'.ok, result'.right, failed'} \subseteq BOOLEAN
BY DEF End, Judge, Result, CompareTypeOK

LEMMA GoesTells ==
  ASSUME NEW to \in Stages, Goes(to), CompareTypeOK
  PROVE  stage' = to /\ {result'.ok, result'.right, failed'} \subseteq BOOLEAN
BY DEF Goes, CompareTypeOK

LEMMA Elsewhere ==
  ASSUME stage' \notin {"tip", "sample", "native", "janus", "judged"}
  PROVE  CaseRuns' /\ SubjectFits' /\ NativeFits' /\ AlarmHasReason' /\ PassHasCompared'
BY DEF CaseRuns, SubjectFits, Fits, NativeFits, AlarmHasReason, PassHasCompared

LEMMA Judged ==
  ASSUME stage' = "judged", SameRun, index <= Len(cases)
  PROVE  CaseRuns' /\ SubjectFits' /\ NativeFits'
BY DEF CaseRuns, SubjectFits, Fits, NativeFits, SameRun, runVars

LEMMA JudgedQuietly ==
  ASSUME result'.detail \notin {"differs", "not found", "compared"}
  PROVE  AlarmHasReason' /\ PassHasCompared'
BY DEF AlarmHasReason, PassHasCompared

LEMMA NotJudged ==
  ASSUME stage' # "judged"
  PROVE  AlarmHasReason' /\ PassHasCompared'
BY DEF AlarmHasReason, PassHasCompared

LEMMA SubjectTypes ==
  /\ NoSubject \in Subjects
  /\ \A n \in Nat : Subject(n, Garbled) \in Subjects
  /\ \A n \in {-1} \cup Nat, b \in Blocks : Subject(n, b) \in Subjects
BY DEF NoSubject, Subject, Subjects

LEMMA SubjectParts ==
  ASSUME NEW n, NEW b
  PROVE  Subject(n, b).no = n /\ Subject(n, b).block = b
BY DEF Subject

LEMMA EpochSubjects ==
  ASSUME NEW n \in Nat
  PROVE  /\ EpochSubject(n) \in Subjects
         /\ EpochSubject(n).no \in Nat /\ EpochSubject(n).block = Garbled
<1> DEFINE no == IF Asks # "epochs after" THEN n
                 ELSE IF n < Count + 2 THEN 0 ELSE n - (Count + 2)
<1>1. no \in Nat
  <2>1. CASE Asks # "epochs after"
    <3>1. no = n
      BY <2>1
    <3> QED BY <3>1
  <2>2. CASE ~(Asks # "epochs after")
    <3>1. PICK c \in Nat : c = Count + 2
      BY Sizes
    <3>2. no = IF n < c THEN 0 ELSE n - c
      BY <2>2, <3>1
    <3> HIDE DEF no
    <3> QED BY <3>2
  <2> QED BY <2>1, <2>2
<1>2. EpochSubject(n) = Subject(no, Garbled)
  BY DEF EpochSubject
<1> HIDE DEF no
<1> QED BY <1>1, <1>2, SubjectTypes, SubjectParts

LEMMA BelowIsPositive ==
  ASSUME NEW h \in Nat
  PROVE  Below(h) \in Nat \ {0}
<1> DEFINE least == IF Asks = "blocks before" THEN Floor ELSE 1
<1>1. least \in Nat \ {0} /\ h - Deep \in Int
  <2>1. Floor \in Nat \ {0} /\ Deep \in Nat
    BY Sizes
  <2>2. least \in {Floor, 1}
    OBVIOUS
  <2> HIDE DEF least
  <2> QED BY <2>1, <2>2
<1>2. Below(h) = IF h - Deep < least THEN least ELSE h - Deep
  BY DEF Below
<1> HIDE DEF least
<1> QED BY <1>1, <1>2

(* What a running case is, by the table.                                    *)
LEMMA CaseFacts ==
  ASSUME CompareTypeOK, Known
  PROVE  /\ Asks \in AskKinds /\ Fair(Asks, Mode) /\ face \in PublicFaces
         /\ Mode \notin {"wrong face", "skip"} => Mode \in Judging
<1>1. Now \in DOMAIN Cases /\ face \in PublicFaces
  BY DEF Known, CompareTypeOK
<1>2. Fair(Asks, Mode)
  BY <1>1, CasesAreFair DEF Asks, Mode
<1> QED BY <1>1, <1>2 DEF Fair

LEMMA AsksApart ==
  /\ OfRecent \cap OfEpoch = {} /\ OfListed \cap OfEpoch = {} /\ OfRecent \cap OfListed = {}
  /\ Asks \in OfRecent \cup OfListed \cup OfEpoch => Asks # "history"
  /\ ByNumber => Asks \in OfRecent
BY DEF OfRecent, OfEpoch, OfListed, ByNumber, BlockByNumber

LEMMA HashedOnes ==
  ASSUME Asks \in AskKinds, Hashed
  PROVE  Asks \in OfRecent \cup OfListed
BY DEF AskKinds, Hashed, Anchored

LEMMA ResolveEpochCore ==
  ASSUME CoreInv, ResolveEpoch
  PROVE  CoreInv'
<1>1. EpochInv'
  BY ResolveStep DEF CoreInv
<1>2. /\ stage' = "fixtures" /\ low' = TipHeight
      /\ UNCHANGED <<chain, forks, caseVars, face, given, cases, index>>
  BY DEF ResolveEpoch
<1>3. CompareTypeOK'
  <2>1. ChainTypeOK' /\ epoch' \in {NoEpoch} \cup Nat
    BY <1>1 DEF EpochInv
  <2>2. low' \in 0 .. MaxHeight
    BY <1>2, TipInRange DEF CoreInv, CompareTypeOK
  <2> QED BY <1>2, <2>1, <2>2 DEF CoreInv, CompareTypeOK, caseVars
<1> QED BY <1>1, <1>2, <1>3, Elsewhere DEF CoreInv

LEMMA ResolveFixturesCore ==
  ASSUME CoreInv, ResolveFixtures
  PROVE  CoreInv'
<1>1. EpochInv'
  BY StillStep DEF CoreInv, ResolveFixtures, Unmoved
<1>2. stage' = "case" /\ UNCHANGED <<chain, forks, low, caseVars, face, cases, index, epoch>>
  BY DEF ResolveFixtures, Unmoved
<1>3. given' \subseteq Fixtures
  BY DEF ResolveFixtures, CoreInv, CompareTypeOK, Fixtures
<1>4. CompareTypeOK'
  BY <1>2, <1>3 DEF CoreInv, CompareTypeOK, ChainTypeOK, caseVars
<1> QED BY <1>1, <1>2, <1>4, Elsewhere DEF CoreInv

LEMMA SameRunEpoch ==
  ASSUME CoreInv, SameRun
  PROVE  EpochInv'
BY StillStep DEF CoreInv, SameRun, Unmoved, runVars

LEMMA NextCaseCore ==
  ASSUME CoreInv, NextCase
  PROVE  CoreInv'
<1>1. EpochInv'
  BY StillStep DEF CoreInv, NextCase, Unmoved
<1>2. /\ stage' = "case" /\ index' = index + 1 /\ result' = NoResult /\ subject' = NoSubject
      /\ UNCHANGED <<chain, forks, low, failed, face, given, cases, epoch>>
  BY DEF NextCase, Unmoved
<1>3. index' \in 1 .. Len(cases') + 1
  <2>1. cases \in Seq(STRING)
    BY CompareAssumption DEF CoreInv, CompareTypeOK
  <2>2. Len(cases) \in Nat /\ index \in 1 .. Len(cases) + 1 /\ index <= Len(cases)
    BY <2>1 DEF CoreInv, CompareTypeOK, CaseRuns, NextCase
  <2> QED BY <1>2, <2>2
<1>4. {NoResult.ok, NoResult.right} \subseteq BOOLEAN
  BY DEF NoResult, Result
<1>5. CompareTypeOK'
  BY <1>2, <1>3, <1>4, SubjectTypes DEF CoreInv, CompareTypeOK, ChainTypeOK, Subjects
<1> QED BY <1>1, <1>2, <1>5, Elsewhere DEF CoreInv

LEMMA ExitCore ==
  ASSUME CoreInv, Exit
  PROVE  CoreInv'
<1>1. EpochInv'
  BY SameRunEpoch DEF Exit
<1>2. Goes("exit") /\ SameRun /\ subject' = subject
  BY DEF Exit
<1>3. stage' = "exit" /\ CompareTypeOK'
  <2>1. subject' \in Subjects
    BY <1>2 DEF CoreInv, CompareTypeOK, Subjects
  <2> QED BY <1>2, <2>1, GoesTells, TypeKept DEF CoreInv, Stages
<1> QED BY <1>1, <1>3, Elsewhere DEF CoreInv

LEMMA SuitsHere ==
  ASSUME CompareTypeOK, CaseRuns, SubjectFits, stage \in {"native", "janus"}
  PROVE  /\ Suits /\ Mode \in Judging /\ Fair(Asks, Mode) /\ index <= Len(cases)
         /\ Hashed \/ Asks = "slot" => Holds(subject.block)
<1>1. Known /\ index <= Len(cases) /\ Mode \notin {"wrong face", "skip"}
  BY DEF CaseRuns
<1>2. Asks \in AskKinds /\ Fair(Asks, Mode) /\ face \in PublicFaces /\ Mode \in Judging
  BY <1>1, CaseFacts
<1>3. /\ Hashed \/ Asks = "slot" => Holds(subject.block)
      /\ Asks \in OfEpoch => subject.no \in Nat /\ subject.block = Garbled
      /\ Asks \in OfRecent => subject.no \in Nat \ {0}
  BY DEF SubjectFits, Fits
<1>4. epoch \in {NoEpoch} \cup Nat
  BY DEF CompareTypeOK
<1>5. Hashed => subject.block \in Blocks
  BY <1>3 DEF Holds
<1>6. Suits
  BY <1>2, <1>3, <1>4, <1>5, AsksApart DEF Suits
<1> QED BY <1>1, <1>2, <1>3, <1>6

LEMMA HoldsStill ==
  ASSUME NEW block, UNCHANGED <<chain, low>>
  PROVE  Holds(block)' = Holds(block)
BY DEF Holds, BlockAt

(* A case that ends without a verdict and not over something missing.       *)
LEMMA EndedQuietly ==
  ASSUME CoreInv, SameRun, index <= Len(cases), subject' \in Subjects,
         NEW ok \in BOOLEAN, NEW detail, detail \notin {"differs", "not found", "compared"},
         End(ok, detail)
  PROVE  CoreInv'
<1>1. /\ stage' = "judged" /\ result'.detail = detail
      /\ {result'.ok, result'.right, failed'} \subseteq BOOLEAN
  BY EndTells DEF CoreInv
<1>2. CompareTypeOK'
  BY <1>1, TypeKept DEF CoreInv, Stages
<1>3. AlarmHasReason' /\ PassHasCompared'
  BY <1>1, JudgedQuietly
<1> QED BY <1>1, <1>2, <1>3, Judged, SameRunEpoch DEF CoreInv

LEMMA CallFailsCore ==
  ASSUME CoreInv, CompareCallFails
  PROVE  CoreInv'
<1>1. SameRun /\ subject' \in Subjects /\ index <= Len(cases)
  BY DEF CompareCallFails, CoreInv, CompareTypeOK, CaseRuns, Subjects
<1>2. PICK ok \in BOOLEAN, detail \in {"call", "timeouts"} : End(ok, detail)
  BY DEF CompareCallFails
<1> QED BY <1>1, <1>2, EndedQuietly

(* A case that goes on to its next call.                                    *)
GoesWell(to) ==
  /\ Known /\ Mode \notin {"wrong face", "skip"} /\ index <= Len(cases)
  /\ to = "tip" => Asks \in OfRecent \cup OfEpoch
  /\ to = "sample" => Asks \in OfRecent \cup OfListed

LEMMA GoesOn ==
  ASSUME CoreInv, SameRun, NEW to \in {"tip", "sample", "native", "janus"}, Goes(to),
         GoesWell(to), NEW asked \in Subjects, subject' = asked, Fits(to, asked)
  PROVE  /\ CompareTypeOK' /\ EpochInv' /\ CaseRuns' /\ SubjectFits'
         /\ AlarmHasReason' /\ PassHasCompared'
<1>1. stage' = to /\ {result'.ok, result'.right, failed'} \subseteq BOOLEAN
  BY GoesTells DEF CoreInv, Stages
<1>2. CompareTypeOK'
  BY <1>1, TypeKept DEF CoreInv, Stages
<1>3. UNCHANGED <<chain, low, face, cases, index>>
  BY DEF SameRun, Unmoved, runVars
<1>4. Asks' = Asks /\ Mode' = Mode /\ Known' = Known /\ Hashed' = Hashed
  BY <1>3, SameCase, SameAsks
<1>5. CaseRuns'
  BY <1>1, <1>3, <1>4 DEF CaseRuns, GoesWell
<1>6. SubjectFits'
  <2>1. PICK block : block = asked.block
    OBVIOUS
  <2>2. Holds(block)' = Holds(block)
    BY <1>3, HoldsStill
  <2>3. Fits(to, asked)' = Fits(to, asked)
    <3>1. Holds(asked.block)' = Holds(block)'
      BY <2>1 DEF Holds, BlockAt
    <3> QED BY <1>4, <2>1, <2>2, <3>1 DEF Fits
  <2>4. Fits(stage, subject)' = Fits(to, asked)'
    BY <1>1 DEF Fits, Holds, BlockAt
  <2> QED BY <2>3, <2>4 DEF SubjectFits
<1>7. AlarmHasReason' /\ PassHasCompared'
  BY <1>1, NotJudged
<1> QED BY <1>2, <1>5, <1>6, <1>7, SameRunEpoch

LEMMA GoesOnCore ==
  ASSUME CoreInv, SameRun, NEW to \in {"tip", "sample", "native"}, Goes(to),
         GoesWell(to), NEW asked \in Subjects, subject' = asked, Fits(to, asked)
  PROVE  CoreInv'
<1>1. stage' = to
  BY DEF Goes
<1>2. NativeFits'
  BY <1>1 DEF NativeFits
<1> QED BY <1>2, GoesOn DEF CoreInv

LEMMA StartCaseCore ==
  ASSUME CoreInv, StartCase
  PROVE  CoreInv'
<1>0. index <= Len(cases) /\ SameRun
  BY DEF StartCase
<1>1. CASE /\ subject' = NoSubject
           /\ \/ \E detail \in {"unknown", "wrong face", "unset"} : End(FALSE, detail)
              \/ End(TRUE, "skipped")
  <2>1. PICK ok \in BOOLEAN, detail \in {"unknown", "wrong face", "unset", "skipped"} :
          End(ok, detail)
    BY <1>1
  <2> QED BY <1>0, <1>1, <2>1, SubjectTypes, EndedQuietly
<1>2. CASE /\ Known /\ Mode \notin {"wrong face", "skip"}
           /\ IF Asks \in OfRecent \/ (Asks \in OfEpoch /\ epoch = NoEpoch)
              THEN Goes("tip") /\ subject' = NoSubject
              ELSE IF Asks \in OfListed THEN Goes("sample") /\ subject' = NoSubject
              ELSE /\ Goes("native")
                   /\ subject' = IF Asks \in OfEpoch THEN EpochSubject(epoch) ELSE NoSubject
  <2>0. Asks \in AskKinds
    BY <1>2, CaseFacts DEF CoreInv
  <2>1. CASE Asks \in OfRecent \/ (Asks \in OfEpoch /\ epoch = NoEpoch)
    <3>1. GoesWell("tip") /\ Fits("tip", NoSubject)
      BY <1>0, <1>2, <2>1 DEF GoesWell, Fits
    <3> QED BY <1>0, <1>2, <2>1, <3>1, SubjectTypes, GoesOnCore
  <2>2. CASE ~(Asks \in OfRecent \/ (Asks \in OfEpoch /\ epoch = NoEpoch)) /\ Asks \in OfListed
    <3>1. GoesWell("sample") /\ Fits("sample", NoSubject)
      BY <1>0, <1>2, <2>2 DEF GoesWell, Fits
    <3> QED BY <1>0, <1>2, <2>2, <3>1, SubjectTypes, GoesOnCore
  <2>3. CASE ~(Asks \in OfRecent \/ (Asks \in OfEpoch /\ epoch = NoEpoch)) /\ Asks \notin OfListed
    <3>1. Goes("native") /\ GoesWell("native") /\ ~Hashed /\ Asks # "slot"
      BY <1>0, <1>2, <2>0, <2>3, HashedOnes DEF GoesWell, OfRecent
    <3>2. CASE Asks \in OfEpoch
      <4>1. epoch \in Nat
        BY <2>3, <3>2 DEF CoreInv, CompareTypeOK
      <4>2. PICK asked \in Subjects : /\ asked = EpochSubject(epoch)
                                      /\ asked.no \in Nat /\ asked.block = Garbled
        BY <4>1, EpochSubjects
      <4>3. Fits("native", asked)
        BY <2>3, <3>1, <4>2 DEF Fits
      <4> QED BY <1>0, <1>2, <2>3, <3>1, <3>2, <4>2, <4>3, GoesOnCore
    <3>3. CASE Asks \notin OfEpoch
      <4>1. Fits("native", NoSubject)
        BY <2>3, <3>1, <3>3 DEF Fits
      <4> QED BY <1>0, <1>2, <2>3, <3>1, <3>3, <4>1, SubjectTypes, GoesOnCore
    <3> QED BY <3>2, <3>3
  <2> QED BY <2>1, <2>2, <2>3
<1> QED BY <1>1, <1>2 DEF StartCase

LEMMA ReadHeightCore ==
  ASSUME CoreInv, ReadHeight
  PROVE  CoreInv'
<1>0. /\ SameRun /\ stage = "tip" /\ Known /\ index <= Len(cases)
      /\ Mode \notin {"wrong face", "skip"} /\ Asks \in OfRecent \cup OfEpoch
  BY DEF ReadHeight, CoreInv, CaseRuns
<1>a. /\ ChainTypeOK /\ TipHeight \in Nat /\ Tip = BlockAt(TipHeight)
      /\ Tip.height = TipHeight /\ Tip \in Blocks
  BY TipInRange, TipOnChain DEF CoreInv, CompareTypeOK
<1>1. CASE Asks \in OfEpoch
  <2>0. PICK n \in Nat : n = EpochToCompare(Tip)
    <3>1. Unit(TipHeight, EpochLength) \in Nat
      BY <1>a, UnitBounds, ChainAssumption
    <3>2. PICK running \in Nat : running = Unit(TipHeight, EpochLength)
      BY <3>1
    <3>3. EpochToCompare(Tip) = IF running < 2 THEN 0 ELSE running - 2
      BY <1>a, <3>2 DEF EpochToCompare
    <3> QED BY <3>2, <3>3
  <2>1. PICK asked \in Subjects : /\ asked = EpochSubject(n)
                                  /\ asked.no \in Nat /\ asked.block = Garbled
    BY EpochSubjects
  <2>2. Goes("native") /\ subject' = asked
    BY <1>1, <2>0, <2>1 DEF ReadHeight
  <2>3. ~Hashed /\ Asks # "slot" /\ Asks \notin OfRecent
    BY <1>1, AsksApart DEF Hashed, OfRecent
  <2>4. GoesWell("native") /\ Fits("native", asked)
    BY <1>0, <2>1, <2>3 DEF GoesWell, Fits
  <2> QED BY <1>0, <2>1, <2>2, <2>4, GoesOnCore
<1>2. CASE Asks \notin OfEpoch
  <2>0. PICK n \in Nat \ {0} : n = Below(TipHeight)
    BY <1>a, BelowIsPositive
  <2>1. CASE ByNumber /\ Asks # "slot"
    <3>1. PICK asked \in Subjects : /\ asked = Subject(n, Garbled)
                                    /\ asked.no = n /\ asked.block = Garbled
      BY SubjectTypes, SubjectParts
    <3>2. Goes("native") /\ subject' = asked
      BY <1>2, <2>0, <2>1, <3>1 DEF ReadHeight
    <3>3. GoesWell("native") /\ Fits("native", asked)
      BY <1>0, <1>2, <2>1, <3>1 DEF GoesWell, Fits, Hashed
    <3> QED BY <1>0, <3>1, <3>2, <3>3, GoesOnCore
  <2>2. CASE ~(ByNumber /\ Asks # "slot")
    <3>1. PICK asked \in Subjects : /\ asked = Subject(n, Tip)
                                    /\ asked.no = n /\ asked.block = Tip
      BY <1>a, SubjectTypes, SubjectParts
    <3>2. Goes("sample") /\ subject' = asked
      BY <1>2, <2>0, <2>2, <3>1 DEF ReadHeight
    <3>3. Holds(Tip)
      BY <1>a DEF Holds
    <3>4. GoesWell("sample") /\ Fits("sample", asked)
      BY <1>0, <1>2, <3>1, <3>3 DEF GoesWell, Fits
    <3> QED BY <1>0, <3>1, <3>2, <3>4, GoesOnCore
  <2> QED BY <2>1, <2>2
<1> QED BY <1>1, <1>2

LEMMA FindSampleCore ==
  ASSUME CoreInv, FindSample
  PROVE  CoreInv'
<1>0. /\ SameRun /\ stage = "sample" /\ Known /\ index <= Len(cases)
      /\ Mode \notin {"wrong face", "skip"} /\ Asks \in OfRecent \cup OfListed
      /\ subject \in Subjects
  BY DEF FindSample, CoreInv, CaseRuns, CompareTypeOK, Subjects
<1>a. ChainTypeOK /\ TipHeight \in Nat /\ Asks \notin OfEpoch
  <2>1. Asks \notin OfEpoch
    BY <1>0, AsksApart
  <2> QED BY <2>1, TipInRange DEF CoreInv, CompareTypeOK
<1>b. Asks \in OfRecent => subject.no \in Nat \ {0} /\ Holds(subject.block)
  BY <1>0 DEF CoreInv, SubjectFits, Fits
<1>c. subject.no \in {-1} \cup Nat
  BY <1>0 DEF Subjects
<1>1. ASSUME NEW b \in IF Asks \in OfListed THEN OnChain ELSE RowsAt(subject.no, 1),
             Goes("native"), subject' = Subject(subject.no, b)
      PROVE  CoreInv'
  <2>1. b \in Blocks /\ Holds(b)
    <3>1. CASE Asks \in OfListed
      <4>1. PICK h \in 0 .. TipHeight : b = BlockAt(h)
        BY <1>1, <3>1 DEF OnChain
      <4>2. b \in Blocks /\ b.height = h
        BY <1>a, <4>1, BlocksOnChain
      <4> QED BY <4>1, <4>2 DEF Holds
    <3>2. CASE Asks \notin OfListed
      <4>1. PICK n \in Int : n = subject.no
        BY <1>c
      <4>2. b \in RowsAt(n, 1)
        BY <1>1, <3>2, <4>1
      <4>3. b \in Blocks /\ b = BlockAt(b.height)
        BY <1>a, <4>2, RowsOfUnit
      <4> QED BY <4>3 DEF Holds
    <3> QED BY <3>1, <3>2
  <2>2. PICK asked \in Subjects : /\ asked = Subject(subject.no, b)
                                  /\ asked.no = subject.no /\ asked.block = b
    BY <1>c, <2>1, SubjectTypes, SubjectParts
  <2>3. GoesWell("native") /\ Fits("native", asked)
    BY <1>0, <1>a, <1>b, <2>1, <2>2 DEF GoesWell, Fits
  <2> QED BY <1>0, <1>1, <2>2, <2>3, GoesOnCore
<1>2. CASE Asks = "block or tip" /\ Goes("native") /\ UNCHANGED subject
  <2>1. Asks \in OfRecent
    BY <1>2 DEF OfRecent
  <2>2. GoesWell("native") /\ Fits("native", subject)
    BY <1>0, <1>a, <1>b, <2>1 DEF GoesWell, Fits
  <2>3. PICK asked \in Subjects : asked = subject
    BY <1>0
  <2>4. Fits("native", asked)
    BY <2>2, <2>3
  <2> QED BY <1>0, <1>2, <2>2, <2>3, <2>4, GoesOnCore
<1>3. CASE /\ IF Asks \in {"asset", "script"} THEN End(TRUE, "skipped")
              ELSE End(FALSE, "unresolved")
           /\ UNCHANGED subject
  <2>1. PICK ok \in BOOLEAN, detail \in {"skipped", "unresolved"} : End(ok, detail)
    BY <1>3
  <2>2. subject' \in Subjects
    BY <1>0, <1>3
  <2> QED BY <1>0, <2>1, <2>2, EndedQuietly
<1> QED BY <1>1, <1>2, <1>3 DEF FindSample

LEMMA ChainMovesCore ==
  ASSUME CoreInv, CompareChainMoves
  PROVE  CoreInv'
<1>0. /\ stage \in {"tip", "sample", "native", "janus"} /\ (Forge \/ Rollback)
      /\ low' = IF Len(chain') - 1 < low THEN Len(chain') - 1 ELSE low
      /\ UNCHANGED <<stage, subject, native, result, failed, face, given, cases, index, epoch>>
  BY DEF CompareChainMoves, caseVars, runVars
<1>1. EpochInv'
  BY MoveStep DEF CoreInv
<1>2. /\ ChainTypeOK'
      /\ \A h \in 0 .. TipHeight' : h <= TipHeight => BlockAt(h)' = BlockAt(h)
  BY <1>0, ChainStep DEF CoreInv, CompareTypeOK
<1>3. /\ low' \in 0 .. MaxHeight /\ low' <= low /\ low' <= TipHeight'
      /\ low \in Nat /\ low <= TipHeight /\ TipHeight \in Nat /\ TipHeight' \in Nat
  <2>1. TipHeight \in 0 .. MaxHeight /\ low \in 0 .. MaxHeight /\ low <= TipHeight
    BY TipInRange DEF CoreInv, CompareTypeOK, EpochInv
  <2>2. TipHeight' \in 0 .. MaxHeight
    BY <1>2, ChainAssumption DEF ChainTypeOK, TipHeight
  <2>3. low' = IF TipHeight' < low THEN TipHeight' ELSE low
    BY <1>0 DEF TipHeight
  <2>4. MaxHeight \in Nat
    BY ChainAssumption
  <2> QED BY <2>1, <2>2, <2>3, <2>4
<1>4. CompareTypeOK'
  BY <1>0, <1>2, <1>3 DEF CoreInv, CompareTypeOK
<1>5. /\ Asks' = Asks /\ Mode' = Mode /\ Known' = Known /\ Hashed' = Hashed
      /\ Settled' = Settled /\ NoHistory' = NoHistory
  BY <1>0, SameCase, SameAsks, SameSettled
<1>6. CaseRuns'
  BY <1>0, <1>5 DEF CoreInv, CaseRuns
<1>7. ASSUME NEW block, Holds(block)
      PROVE  Holds(block)'
  <2>1. ASSUME block \in Blocks, block.height <= low'
        PROVE  block = BlockAt(block.height)'
    <3>1. PICK h \in Nat : h = block.height
      BY <2>1, ChainAssumption DEF Blocks
    <3>2. h <= low /\ h \in 0 .. TipHeight' /\ h <= TipHeight
      BY <1>3, <2>1, <3>1
    <3>3. block = BlockAt(h)
      BY <1>7, <3>1, <3>2 DEF Holds
    <3>4. BlockAt(h)' = BlockAt(h)
      BY <1>2, <3>2
    <3> QED BY <3>1, <3>3, <3>4 DEF BlockAt
  <2> QED BY <1>7, <2>1 DEF Holds
<1>8. SubjectFits'
  <2>1. PICK block : block = subject.block
    OBVIOUS
  <2>2. Holds(subject.block) => Holds(subject.block)'
    <3>1. Holds(subject.block)' = Holds(block)'
      BY <1>0, <2>1 DEF Holds, BlockAt
    <3> QED BY <1>7, <2>1, <3>1
  <2>3. Fits(stage, subject)
    BY DEF CoreInv, SubjectFits
  <2> QED BY <1>0, <1>5, <2>2, <2>3 DEF SubjectFits, Fits
<1>9. NativeFits'
  <2> SUFFICES ASSUME stage' = "janus" PROVE NativeFits'
    BY DEF NativeFits
  <2>1. stage = "janus" /\ GoodRows(native')
    BY <1>0 DEF CoreInv, NativeFits
  <2>2. ASSUME Settled' <= low', ~NoHistory', NEW v \in Seq(Forks), Settled' < Len(v),
               \A h \in 0 .. Settled' : v[h + 1] = chain'[h + 1]
        PROVE  native' = Rows(v, "native")'
    <3>1. PICK s \in Nat : s = Settled
      BY <1>5, <2>1, <2>2, SuitsHere, SettledIsNat DEF CoreInv
    <3>2. s <= low /\ s <= low'
      BY <1>3, <1>5, <2>2, <3>1
    <3>3. ASSUME NEW h \in 0 .. s
          PROVE  v[h + 1] = chain[h + 1]
      <4>1. h \in 0 .. TipHeight' /\ h <= TipHeight
        BY <1>3, <3>2
      <4>2. BlockAt(h)' = BlockAt(h)
        BY <1>2, <4>1
      <4>3. chain'[h + 1] = chain[h + 1]
        BY <4>2 DEF BlockAt
      <4> QED BY <1>5, <2>2, <3>1, <4>3
    <3>4. native = Rows(v, "native")
      BY <1>5, <2>1, <2>2, <3>1, <3>2, <3>3 DEF CoreInv, NativeFits
    <3>5. Rows(v, "native")' = Rows(v, "native")
      BY <1>0, <1>5, SameRowsOf
    <3> QED BY <1>0, <3>4, <3>5
  <2> QED BY <2>1, <2>2 DEF NativeFits, GoodRows
<1>10. AlarmHasReason' /\ PassHasCompared'
  BY <1>0, NotJudged
<1> QED BY <1>1, <1>4, <1>6, <1>8, <1>9, <1>10 DEF CoreInv

(* Where the answer is settled, a sample is in place.                       *)
LEMMA SampleInPlace ==
  ASSUME NEW v, Suits, Hashed => Holds(subject.block), Settled <= low,
         \A h \in 0 .. Settled : v[h + 1] = chain[h + 1]
  PROVE  InPlace(v)
<1> SUFFICES ASSUME Hashed PROVE subject.block.fork = v[subject.block.height + 1]
  BY DEF InPlace
<1>1. Settled = subject.block.height
  BY HashedAsks, SettledHeights DEF Suits
<1>2. PICK h \in Nat : h = Settled
  BY <1>1, ChainAssumption DEF Suits, Blocks
<1>3. subject.block = BlockAt(h)
  BY <1>1, <1>2 DEF Holds
<1>4. v[h + 1] = chain[h + 1]
  BY <1>2
<1> QED BY <1>1, <1>2, <1>3, <1>4 DEF BlockAt

LEMMA Standing ==
  ASSUME CoreInv
  PROVE  /\ ChainTypeOK /\ chain \in Seq(Forks) /\ Len(chain) \in Nat \ {0}
         /\ low \in Nat /\ low < Len(chain)
BY TipInRange, ChainAssumption DEF CoreInv, CompareTypeOK, EpochInv, ChainTypeOK, TipHeight

LEMMA Reasons ==
  ASSUME SameRun, subject' = subject, Asks' = Asks
  PROVE  /\ Unsettled' = Unsettled /\ Outgrown' = Outgrown
         /\ Mode' = Mode /\ FromFirst' = FromFirst
<1>1. UNCHANGED <<chain, low, face, cases, index, epoch>>
  BY DEF SameRun, Unmoved, runVars
<1>2. Settled' = Settled /\ Mode' = Mode
  BY <1>1, SameCase, SameSettled
<1> QED BY <1>1, <1>2 DEF Unsettled, Outgrown, FromFirst, TipHeight

LEMMA AskNativeCore ==
  ASSUME CoreInv, AskNative
  PROVE  CoreInv'
<1>0. SameRun /\ subject' = subject /\ stage = "native" /\ subject \in Subjects
  BY DEF AskNative, CoreInv, CompareTypeOK, Subjects
<1>1. /\ Suits /\ Mode \in Judging /\ Fair(Asks, Mode) /\ index <= Len(cases)
      /\ Hashed \/ Asks = "slot" => Holds(subject.block)
  BY <1>0, SuitsHere DEF CoreInv
<1>2. /\ UNCHANGED <<chain, low, face, cases, index, epoch>>
      /\ Asks' = Asks /\ Settled' = Settled /\ NoHistory' = NoHistory
  <2>1. UNCHANGED <<chain, low, face, cases, index, epoch>>
    BY <1>0 DEF SameRun, Unmoved, runVars
  <2> QED BY <1>0, <2>1, SameCase, SameSettled
<1>3. ASSUME Settled <= low, ~NoHistory
      PROVE  Settled \in Nat /\ Settled < Len(chain) /\ InPlace(chain)
  <2>1. Settled \in Nat
    BY <1>1, <1>3, SettledIsNat
  <2>2. InPlace(chain)
    BY <1>1, <1>3, SampleInPlace
  <2> QED BY <1>3, <2>1, <2>2, Standing
<1>4. CASE NotThere(chain)
  <2>1. End(FALSE, "not found")
    BY <1>4 DEF AskNative
  <2>2. /\ stage' = "judged" /\ result'.detail = "not found"
        /\ {result'.ok, result'.right, failed'} \subseteq BOOLEAN
    BY <2>1, EndTells DEF CoreInv
  <2>3. CompareTypeOK'
    BY <1>0, <2>2, TypeKept DEF CoreInv, Stages
  <2>4. Unsettled
    <3>1. SUFFICES ASSUME ~Unsettled PROVE FALSE
      OBVIOUS
    <3>2. ~NoHistory /\ ~(low - MaxLag < Settled)
      BY <3>1 DEF Unsettled, NoHistory
    <3>3. Settled \in Nat
      BY <1>1, <3>2, SettledIsNat
    <3>4. Settled <= low
      BY <3>2, <3>3, Standing, Sizes
    <3> QED BY <1>1, <1>3, <1>4, <3>2, <3>4, Standing, NotThereUnsettled
  <2>5. AlarmHasReason'
    BY <1>0, <1>2, <2>4, Reasons DEF AlarmHasReason
  <2>6. PassHasCompared'
    BY <2>2 DEF PassHasCompared
  <2> QED BY <1>0, <1>1, <2>2, <2>3, <2>5, <2>6, Judged, SameRunEpoch DEF CoreInv
<1>5. CASE ~NotThere(chain)
  <2> DEFINE Found == Rows(chain, "native")
  <2>1. /\ Goes("janus")
        /\ native' = IF Asks = "slot" /\ Found = <<>>
                     THEN <<Row(subject.block, subject.block)>> ELSE Found
    BY <1>5 DEF AskNative
  <2>2. stage' = "janus"
    BY <2>1 DEF Goes
  <2>3. GoesWell("janus") /\ Fits("janus", subject)
    BY <1>0 DEF CoreInv, CaseRuns, GoesWell, SubjectFits, Fits
  <2>4. PICK asked \in Subjects : asked = subject
    BY <1>0
  <2>5. /\ CompareTypeOK' /\ EpochInv' /\ CaseRuns' /\ SubjectFits'
        /\ AlarmHasReason' /\ PassHasCompared'
    <3>1. Fits("janus", asked) /\ subject' = asked
      BY <1>0, <2>3, <2>4
    <3> QED BY <1>0, <2>1, <2>3, <3>1, GoesOn
  <2>6. GoodRows(Found)
    BY <1>1, Standing, RowsGood
  <2>7. GoodRows(native')
    <3>1. CASE Asks = "slot" /\ Found = <<>>
      <4>1. PICK b \in Blocks : b = subject.block
        BY <1>1, <3>1 DEF Holds
      <4>2. b \in [height : Nat, fork : Forks]
        BY ChainAssumption DEF Blocks
      <4> QED BY <2>1, <3>1, <4>1, <4>2, OneRowGood
    <3>2. CASE ~(Asks = "slot" /\ Found = <<>>)
      BY <2>1, <2>6, <3>2
    <3> QED BY <3>1, <3>2
  <2>8. ASSUME Settled <= low, ~NoHistory, NEW v \in Seq(Forks), Settled < Len(v),
               \A h \in 0 .. Settled : v[h + 1] = chain[h + 1]
        PROVE  native' = Rows(v, "native")
    <3>1. Settled < Len(chain) /\ InPlace(chain)
      BY <1>3, <2>8
    <3>2. Agree(chain, v, Settled)
      BY <2>8 DEF Agree
    <3>3. Found = Rows(v, "native")
      BY <1>1, <2>8, <3>1, <3>2, Standing, NativeSame
    <3>4. ~(Asks = "slot" /\ Found = <<>>)
      <4>1. SUFFICES ASSUME Asks = "slot" PROVE Found # <<>>
        OBVIOUS
      <4>2. Asks \notin {"list", "history"} /\ ~FromFirst
        BY <4>1 DEF FromFirst
      <4> QED BY <1>1, <2>8, <3>1, <4>2, Standing, RowsThere
    <3> QED BY <2>1, <3>3, <3>4
  <2>9. NativeFits'
    <3> HIDE DEF Found
    <3>1. ASSUME Settled' <= low', ~NoHistory', NEW v \in Seq(Forks), Settled' < Len(v),
                 \A h \in 0 .. Settled' : v[h + 1] = chain'[h + 1]
          PROVE  native' = Rows(v, "native")'
      <4>1. native' = Rows(v, "native")
        BY <1>2, <2>8, <3>1
      <4>2. Rows(v, "native")' = Rows(v, "native")
        BY <1>0, <1>2, SameRowsOf
      <4> QED BY <4>1, <4>2
    <3> QED BY <2>7, <3>1 DEF NativeFits, GoodRows
  <2> QED BY <2>5, <2>9 DEF CoreInv
<1> QED BY <1>4, <1>5

(* What the backend behind Janus shows: the chain up to MaxLag blocks ago.  *)
LEMMA Views ==
  ASSUME CoreInv, NEW lag \in 0 .. MaxLag, NEW v, v = Lagging(lag)
  PROVE  /\ v \in Seq(Forks) /\ Len(v) \in Nat \ {0} /\ Len(v) <= Len(chain)
         /\ \A s \in Nat : ~(low - MaxLag < s) =>
              /\ s <= low /\ s < Len(v)
              /\ \A h \in 0 .. s : v[h + 1] = chain[h + 1]
<1> DEFINE n == IF lag < Len(chain) THEN Len(chain) - lag ELSE 1
<1>1. PICK m : m = n
  OBVIOUS
<1>2. /\ m \in Nat \ {0} /\ m <= Len(chain)
      /\ \A s \in Nat : ~(low - MaxLag < s) => s <= low /\ s < m
  BY <1>1, Standing, Sizes
<1>3. \A i \in 1 .. m : chain[i] \in Forks
  BY <1>2, Standing, ElementOfSeq
<1>4. v = SubSeq(chain, 1, m)
  BY <1>1 DEF Lagging
<1>5. v \in Seq(Forks) /\ Len(v) = m /\ \A i \in 1 .. m : v[i] = chain[i]
  <2>1. \A i \in 1 .. m : i \in Nat
    BY <1>2
  <2> QED BY <1>2, <1>3, <1>4, SubSeqProperties
<1>6. ASSUME NEW s \in Nat, s < m
      PROVE  \A h \in 0 .. s : v[h + 1] = chain[h + 1]
  BY <1>2, <1>5, <1>6
<1> QED BY <1>2, <1>5, <1>6

LEMMA TellsNone ==
  ASSUME NEW r, GoodRows(r), NEW right \in BOOLEAN
  PROVE  Told(r, right) = <<>> <=> r = <<>>
<1>1. CASE right
  BY <1>1 DEF Told
<1>2. CASE ~right
  <2>1. PICK k \in Nat : k = Len(r)
    BY LenProperties DEF GoodRows
  <2>2. PICK t : t = [i \in 1 .. k |-> Row(r[i].id, Garbled)]
    OBVIOUS
  <2>3. Told(r, right) = t
    BY <1>2, <2>1, <2>2 DEF Told
  <2>4. t \in Seq({Row(r[i].id, Garbled) : i \in 1 .. k}) /\ Len(t) = k
    BY <2>2
  <2>5. t = <<>> <=> k = 0
    BY <2>4, EmptySeq
  <2>6. r = <<>> <=> k = 0
    BY <2>1, EmptySeq DEF GoodRows
  <2> QED BY <2>3, <2>5, <2>6
<1> QED BY <1>1, <1>2

LEMMA UnitsMonotone ==
  ASSUME NEW a \in Nat, NEW b \in Nat, a <= b, NEW s \in Nat \ {0}
  PROVE  Unit(a, s) \in Nat /\ Unit(b, s) \in Nat /\ Unit(a, s) <= Unit(b, s)
<1>1. PICK u \in Nat : u = Unit(a, s) /\ u * s <= a
  BY UnitBounds
<1>2. PICK p \in Int : p = u * s
  OBVIOUS
<1>3. u * s <= b
  BY <1>1, <1>2
<1>4. u <= Unit(b, s) /\ Unit(b, s) \in Nat
  <2>1. u \in Int
    OBVIOUS
  <2> QED BY <2>1, <1>3, UnitReaches
<1> QED BY <1>1, <1>4

(* Both sides answer alike where the answer is settled.                     *)
LEMMA SidesAgree ==
  ASSUME NEW v \in Seq(Forks), Len(v) \in Nat \ {0}, Len(v) <= Len(chain), Suits, ~NoHistory,
         Settled < Len(v), chain \in Seq(Forks), ~Outgrown
  PROVE  Rows(v, "janus") = Rows(v, "native")
<1>1. CASE Asks # "history"
  <2>1. Agree(v, v, Settled)
    BY DEF Agree
  <2> QED BY <1>1, <2>1, RowsSame
<1>2. CASE Asks = "history"
  <2>1. epoch \in Nat /\ face \in PublicFaces
    BY <1>2 DEF Suits, NoHistory
  <2>2. LastHeight(epoch, EpochLength) + 1 < Len(v)
    BY <1>2, SettledHeights
  <2>3. PICK n \in Nat : n = Len(v) - 1
    OBVIOUS
  <2>4. PICK t \in Nat : t = TipHeight /\ n <= t
    BY <2>3 DEF TipHeight
  <2>5. /\ Unit(n, EpochLength) \in Nat /\ Unit(t, EpochLength) \in Nat
        /\ Unit(n, EpochLength) <= Unit(t, EpochLength)
    BY <2>3, <2>4, UnitsMonotone, Sizes
  <2>6. ~(face = "koios" /\ epoch < Unit(Len(v) - 1, EpochLength) - HistoryPage)
    <3>1. PICK a \in Nat, b \in Nat : /\ a = Unit(n, EpochLength) /\ b = Unit(t, EpochLength)
                                     /\ a <= b
      BY <2>5
    <3>2. ~(face = "koios" /\ epoch < b - HistoryPage)
      BY <1>2, <2>4, <3>1 DEF Outgrown
    <3>3. epoch < a - HistoryPage => epoch < b - HistoryPage
      <4>1. PICK e \in Nat, p \in Nat : e = epoch /\ p = HistoryPage
        BY <2>1, Sizes
      <4> QED BY <3>1, <4>1
    <3> QED BY <2>3, <3>1, <3>2, <3>3
  <2>7. /\ Filtered(History(v, "native")) =
             IF face = "blockfrost" /\ epoch >= HistoryPage THEN <<>> ELSE <<EpochRow(v)>>
        /\ Filtered(History(v, "janus")) =
             IF face = "blockfrost" /\ epoch >= HistoryPage THEN <<>> ELSE <<EpochRow(v)>>
    BY <2>1, <2>2, <2>6, HistoryTells
  <2> QED BY <1>2, <2>7, RowsOfEpochs
<1> QED BY <1>1, <1>2

(* An answer that is settled has rows, or is of a list that may have none.  *)
LEMMA EnoughIsThere ==
  ASSUME NEW v \in Seq(Forks), NEW side, Suits, ~NoHistory, Settled < Len(v), InPlace(v),
         Fair(Asks, Mode), Mode \in Judging
  PROVE  Enough(Mode, Rows(v, side))
<1>1. CASE Asks \in {"list", "history"} \/ FromFirst
  <2>1. Mode \in {"by epoch", "lengths", "set in order"}
    BY <1>1 DEF Fair, Judging, FromFirst
  <2> QED BY <2>1 DEF Enough
<1>2. CASE Asks \notin {"list", "history"} /\ ~FromFirst
  BY <1>2, RowsThere DEF Enough
<1> QED BY <1>1, <1>2

LEMMA AskJanusCore ==
  ASSUME CoreInv, AskJanus
  PROVE  CoreInv'
<1>0. SameRun /\ subject' = subject /\ native' = native /\ stage = "janus" /\ subject' \in Subjects
  BY DEF AskJanus, CoreInv, CompareTypeOK, Subjects
<1>1. /\ Suits /\ Mode \in Judging /\ Fair(Asks, Mode) /\ index <= Len(cases)
      /\ Hashed \/ Asks = "slot" => Holds(subject.block)
  BY <1>0, SuitsHere DEF CoreInv
<1>2. UNCHANGED <<face, cases, index, epoch>> /\ Asks' = Asks
  <2>1. UNCHANGED <<face, cases, index, epoch>>
    BY <1>0 DEF SameRun, runVars
  <2> QED BY <2>1, SameCase
<1>3. /\ Unsettled' = Unsettled /\ Outgrown' = Outgrown
      /\ Mode' = Mode /\ FromFirst' = FromFirst
  BY <1>0, <1>2, Reasons
<1>4. PICK lag \in 0 .. MaxLag, right \in BOOLEAN :
        LET view == Lagging(lag)
            janus == Told(Rows(view, "janus"), right)
            ok == Verdict(Mode, native, janus)
        IN IF NotThere(view) THEN End(FALSE, "not found")
           ELSE Judge(Result(ok, IF ok THEN "compared" ELSE "differs", janus, right))
  BY DEF AskJanus
<1>5. PICK view : view = Lagging(lag)
  OBVIOUS
<1>6. PICK r : r = Rows(view, "janus")
  OBVIOUS
<1>7. PICK ok : ok = Verdict(Mode, native, Told(r, right))
  OBVIOUS
<1>8. ok \in BOOLEAN
  BY <1>1, <1>7, VerdictIsBoolean
<1>9. view \in Seq(Forks) /\ Len(view) \in Nat \ {0} /\ Len(view) <= Len(chain)
  BY <1>5, Views
<1>10. GoodRows(r) /\ GoodRows(native)
  BY <1>0, <1>1, <1>6, <1>9, RowsGood DEF CoreInv, NativeFits
<1>11. ASSUME ~Unsettled
       PROVE  /\ ~NoHistory /\ Settled \in Nat /\ Settled < Len(view) /\ InPlace(view)
              /\ native = Rows(view, "native")
  <2>1. ~NoHistory /\ ~(low - MaxLag < Settled)
    BY <1>11 DEF Unsettled, NoHistory
  <2>2. PICK s \in Nat : s = Settled
    BY <1>1, <2>1, SettledIsNat
  <2>3. /\ s <= low /\ s < Len(view)
        /\ \A h \in 0 .. s : view[h + 1] = chain[h + 1]
    BY <1>5, <2>1, <2>2, Views
  <2>4. InPlace(view)
    BY <1>1, <2>2, <2>3, SampleInPlace
  <2>5. native = Rows(view, "native")
    BY <1>0, <1>9, <2>1, <2>2, <2>3 DEF CoreInv, NativeFits
  <2> QED BY <2>1, <2>2, <2>3, <2>4, <2>5
<1>12. CASE NotThere(view)
  <2>1. End(FALSE, "not found")
    BY <1>4, <1>5, <1>12
  <2>2. /\ stage' = "judged" /\ result'.detail = "not found"
        /\ {result'.ok, result'.right, failed'} \subseteq BOOLEAN
    BY <2>1, EndTells DEF CoreInv
  <2>3. CompareTypeOK'
    BY <1>0, <2>2, TypeKept DEF CoreInv, Stages
  <2>4. Unsettled
    BY <1>1, <1>9, <1>11, <1>12, NotThereUnsettled
  <2>5. AlarmHasReason'
    BY <1>3, <2>4 DEF AlarmHasReason
  <2>6. PassHasCompared'
    BY <2>2 DEF PassHasCompared
  <2> QED BY <1>0, <1>1, <2>2, <2>3, <2>5, <2>6, Judged, SameRunEpoch DEF CoreInv
<1>13. CASE ~NotThere(view)
  <2>1. Judge(Result(ok, IF ok THEN "compared" ELSE "differs", Told(r, right), right))
    BY <1>4, <1>5, <1>6, <1>7, <1>13
  <2>2. /\ stage' = "judged" /\ result'.ok = ok /\ result'.right = right
        /\ result'.detail = IF ok THEN "compared" ELSE "differs"
        /\ result'.janus = Told(r, right)
        /\ {result'.ok, result'.right, failed'} \subseteq BOOLEAN
    BY <1>8, <2>1 DEF Judge, Result, CoreInv, CompareTypeOK
  <2>3. CompareTypeOK'
    BY <1>0, <2>2, TypeKept DEF CoreInv, Stages
  <2>4. right /\ ~ok => Unsettled \/ Outgrown
    <3>1. SUFFICES ASSUME right, ~Unsettled, ~Outgrown PROVE ok
      BY <1>8
    <3>2. r = native
      BY <1>1, <1>6, <1>9, <1>11, <3>1, Standing, SidesAgree
    <3>3. Enough(Mode, native)
      BY <1>1, <1>9, <1>11, <3>1, EnoughIsThere
    <3>4. Verdict(Mode, native, native)
      BY <1>1, <1>10, <3>3, VerdictOfSame
    <3>5. Told(r, right) = native
      BY <3>1, <3>2 DEF Told
    <3> QED BY <1>7, <3>4, <3>5
  <2>5. AlarmHasReason'
    BY <1>3, <2>2, <2>4 DEF AlarmHasReason
  <2>6. ASSUME ok, Mode \in Comparing, r # <<>>
        PROVE  right
    <3>1. SUFFICES ASSUME ~right PROVE FALSE
      OBVIOUS
    <3>2. Mode = "aligned" => Len(native) = Len(r)
      <4>1. SUFFICES ASSUME Mode = "aligned" PROVE Len(native) = Len(r)
        OBVIOUS
      <4>2. Asks = "constant"
        BY <1>1, <4>1 DEF Fair
      <4>3. Settled = 0 /\ ~NoHistory
        BY <4>2, SettledHeights DEF NoHistory
      <4>4. native = Rows(chain, "native")
        BY <1>0, <4>3, Standing DEF CoreInv, NativeFits
      <4> QED BY <1>6, <4>2, <4>4, RowsByAsks
    <3>3. ~Verdict(Mode, native, Told(r, FALSE))
      BY <1>10, <2>6, <3>2, GarbledFails
    <3>4. Told(r, right) = Told(r, FALSE)
      BY <3>1 DEF Told
    <3> QED BY <1>7, <2>6, <3>3, <3>4
  <2>7. ASSUME ok, Mode \in Comparing, r = <<>>
        PROVE  \/ Unsettled \/ FromFirst
               \/ Asks = "history" /\ face = "blockfrost" /\ epoch >= HistoryPage
    <3>1. SUFFICES ASSUME ~Unsettled, ~FromFirst
                   PROVE  Asks = "history" /\ face = "blockfrost" /\ epoch >= HistoryPage
      OBVIOUS
    <3>2. Asks \in {"list", "history"}
      BY <1>1, <1>6, <1>9, <1>11, <2>7, <3>1, RowsThere
    <3>3. Asks = "history"
      BY <1>1, <2>7, <3>2 DEF Fair, Comparing
    <3>4. epoch \in Nat /\ face \in PublicFaces
      BY <1>1, <1>11, <3>1, <3>3 DEF Suits, NoHistory
    <3>5. LastHeight(epoch, EpochLength) + 1 < Len(view)
      BY <1>11, <3>1, <3>3, SettledHeights
    <3>6. Filtered(History(view, "native")) =
            IF face = "blockfrost" /\ epoch >= HistoryPage THEN <<>> ELSE <<EpochRow(view)>>
      BY <1>9, <3>4, <3>5, HistoryTells
    <3>7. native = Filtered(History(view, "native"))
      BY <1>11, <3>1, <3>3, RowsOfEpochs
    <3>8. SUFFICES ASSUME native = <<EpochRow(view)>> PROVE FALSE
      BY <3>3, <3>6, <3>7
    <3>9. Mode = "by epoch"
      BY <1>1, <3>3 DEF Fair, Judging
    <3>10. Told(r, right) = <<>>
      BY <1>10, <2>7, TellsNone
    <3>11. NoDiffByEpoch(native, <<>>)
      BY <1>7, <2>7, <3>9, <3>10 DEF Verdict
    <3>12. EpochRow(view) \in RowSet(native)
      <4>1. 1 \in 1 .. Len(native) /\ native[1] = EpochRow(view)
        BY <3>8
      <4> QED BY <4>1 DEF RowSet
    <3>13. RowSet(<<>>) = {}
      BY DEF RowSet
    <3> QED BY <3>11, <3>12, <3>13 DEF NoDiffByEpoch
  <2>8. PassHasCompared'
    <3>1. SUFFICES ASSUME ok, Mode \in Comparing
                   PROVE  IF Told(r, right) # <<>> THEN right
                          ELSE \/ Unsettled \/ FromFirst
                               \/ Asks = "history" /\ face = "blockfrost" /\ epoch >= HistoryPage
      BY <1>0, <1>2, <1>3, <2>2 DEF PassHasCompared, Comparing, FromFirst
    <3>2. Told(r, right) = <<>> <=> r = <<>>
      BY <1>10, TellsNone
    <3> QED BY <2>6, <2>7, <3>1, <3>2
  <2> QED BY <1>0, <1>1, <2>2, <2>3, <2>5, <2>8, Judged, SameRunEpoch DEF CoreInv
<1> QED BY <1>12, <1>13

LEMMA CoreInit == CompareInit => CoreInv
<1> SUFFICES ASSUME CompareInit PROVE CoreInv
  OBVIOUS
<1>1. EpochInv
  BY EpochInit
<1>2. /\ stage = "start" /\ face \in PublicFaces /\ given \in Environments
      /\ cases \in CaseLists /\ index = 1 /\ epoch = NoEpoch
      /\ subject = NoSubject /\ result = NoResult /\ failed = FALSE /\ low = TipHeight
  BY DEF CompareInit
<1>3. ChainTypeOK /\ low \in 0 .. MaxHeight
  BY <1>1, <1>2, TipInRange DEF EpochInv
<1>4. given \subseteq Fixtures
  BY <1>2, CompareAssumption
<1>5. index \in 1 .. Len(cases) + 1
  <2>1. cases \in Seq(STRING)
    BY <1>2, CompareAssumption
  <2>2. Len(cases) \in Nat
    BY <2>1
  <2> QED BY <1>2, <2>2
<1>6. {result.ok, result.right, failed} \subseteq BOOLEAN
  BY <1>2 DEF NoResult, Result
<1>7. CompareTypeOK
  BY <1>2, <1>3, <1>4, <1>5, <1>6, SubjectTypes DEF CompareTypeOK, Subjects
<1> QED BY <1>1, <1>2, <1>7
        DEF CoreInv, CaseRuns, SubjectFits, Fits, NativeFits, AlarmHasReason, PassHasCompared

LEMMA CoreStill ==
  ASSUME CoreInv, UNCHANGED <<chain, forks, compareVars>>
  PROVE  CoreInv'
<1>1. UNCHANGED <<chain, forks, stage, subject, native, result, failed,
                  face, given, cases, index, epoch, low>>
  BY DEF compareVars, caseVars, runVars
<1>2. SameRun /\ subject' = subject
  BY <1>1 DEF SameRun, runVars, Unmoved
<1>3. CompareTypeOK' /\ EpochInv'
  BY <1>1, StillStep DEF CoreInv, CompareTypeOK, ChainTypeOK
<1>4. /\ Asks' = Asks /\ Mode' = Mode /\ Known' = Known /\ Hashed' = Hashed
      /\ Settled' = Settled /\ NoHistory' = NoHistory
  BY <1>1, SameCase, SameAsks, SameSettled
<1>5. CaseRuns'
  BY <1>1, <1>4 DEF CoreInv, CaseRuns
<1>6. SubjectFits'
  BY <1>1, <1>4 DEF CoreInv, SubjectFits, Fits, Holds, BlockAt
<1>7. NativeFits'
  <2>1. ASSUME NEW v PROVE Rows(v, "native")' = Rows(v, "native")
    BY <1>1, <1>4, SameRowsOf
  <2> QED BY <1>1, <1>4, <2>1 DEF CoreInv, NativeFits, GoodRows
<1>8. /\ Unsettled' = Unsettled /\ Outgrown' = Outgrown
  BY <1>2, <1>4, Reasons
<1>9. AlarmHasReason' /\ PassHasCompared'
  BY <1>1, <1>4, <1>8 DEF CoreInv, AlarmHasReason, PassHasCompared
<1> QED BY <1>3, <1>5, <1>6, <1>7, <1>9 DEF CoreInv

LEMMA CoreNext == CoreInv /\ [CompareNext]_<<chain, forks, compareVars>> => CoreInv'
BY ResolveEpochCore, ResolveFixturesCore, StartCaseCore, ReadHeightCore, FindSampleCore,
   AskNativeCore, AskJanusCore, CallFailsCore, NextCaseCore, ExitCore, ChainMovesCore,
   CoreStill DEF CompareNext

(* The comparison's variables keep their types: the epoch and the subject   *)
(* it asks both sides for are numbers that a chain may have, whatever is    *)
(* rolled back while the calls are under way (run_case, the cases).         *)
THEOREM ComparisonsTypeOK == CompareSpec => []CompareTypeOK
<1>1. CoreInv => CompareTypeOK
  BY DEF CoreInv
<1> QED BY <1>1, CoreInit, CoreNext, PTL DEF CompareSpec

(* The comparison raises no false alarm: where Janus tells the truth, a     *)
(* case that differs or finds nothing asks for something that grows, that   *)
(* the backend lacks, that was rolled back, or that has left Koios's page,  *)
(* for every case of the table, every chain, lag and length of a page.      *)
THEOREM AlarmsHaveReasons == CompareSpec => []AlarmHasReason
<1>1. CoreInv => AlarmHasReason
  BY DEF CoreInv
<1> QED BY <1>1, CoreInit, CoreNext, PTL DEF CompareSpec

(* A case that compares contents passes no answer whose contents are wrong, *)
(* and passes an empty one only where the property says.                    *)
THEOREM PassesHaveCompared == CompareSpec => []PassHasCompared
<1>1. CoreInv => PassHasCompared
  BY DEF CoreInv
<1> QED BY <1>1, CoreInit, CoreNext, PTL DEF CompareSpec
=============================================================================
