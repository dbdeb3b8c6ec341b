------------------------------- MODULE Compare -------------------------------
(***************************************************************************)
(* The live comparison (scripts/compare_face.py): case by case it asks the  *)
(* face's native API, then a deployed Janus, and judges the two answers.    *)
(* The chain moves between the calls, and the backend behind Janus may know *)
(* less of it than the native API does.  An answer is the sequence of its   *)
(* rows; of a row, what identifies it and the block its contents are of.    *)
(***************************************************************************)
EXTENDS Chain, FiniteSets

CONSTANTS
  CaseLists,    \* the lists of cases that --cases may give: sequences of names
  Deep,         \* how far below the tip a sample is taken, 20 to 2000 in the code
  Count,        \* neighbours asked for, 3 in the code
  Floor,        \* where the walk back starts at least, 10 in the code
  PageSize,     \* rows of a page, 5 in the code
  HistoryPage,  \* epochs of a page of a pool's history, 100 in the code
  Updates,      \* the heights at which registered data changes
  MaxLag,       \* bound: the blocks Janus's backend may lack
  Environments  \* the fixtures the environment may set: sets of them

PublicFaces == {"koios", "blockfrost"}
Fixtures == {"pool", "address", "stake"}

ASSUME CompareAssumption ==
  /\ {Deep, MaxLag} \subseteq Nat
  /\ {Count, Floor, PageSize, HistoryPage} \subseteq Nat \ {0}
  /\ CaseLists \subseteq Seq(STRING)
  /\ Updates \subseteq Nat /\ IsFiniteSet(Updates)
  /\ Environments \subseteq SUBSET Fixtures

(* The contents of a row that Janus gets wrong: they are of no block.       *)
Garbled == [height |-> -1, fork |-> -1]
NoEpoch == -1

Row(id, block) == [id |-> id, of |-> block]

Subject(no, block) == [no |-> no, block |-> block]
NoSubject == Subject(-1, Garbled)

Result(ok, detail, janus, right) ==
  [ok |-> ok, detail |-> detail, janus |-> janus, right |-> right]
NoResult == Result(TRUE, "none", <<>>, TRUE)

VARIABLES
  stage,    \* "start", "fixtures", "case", "tip", "sample", "native", "janus",
            \* "judged", "exit"
  face,     \* JANUS_PUBLIC_FACE
  given,    \* the fixtures there are: from the environment, or resolved
  cases,    \* the cases to run
  index,    \* the one that runs
  epoch,    \* compare_epoch, NoEpoch while it is not resolved
  subject,  \* what both are asked for: an epoch or a height, or a block's hash
  native,   \* the native API's answer
  result,   \* the last case's result, with the answer of Janus it judged and
            \* (history) whether Janus told the contents of its rows right
  failed,   \* a case has failed: the exit code
  low       \* history: the lowest tip since the epoch was resolved

caseVars == <<subject, native, result, failed>>
runVars == <<face, given, cases, index, epoch>>
compareVars == <<stage, caseVars, runVars, low>>

(* Types: of the epoch and what is asked for, that they are numbers a chain *)
(* may have, or the mark of none.                                           *)
CompareTypeOK ==
  /\ ChainTypeOK
  /\ stage \in {"start", "fixtures", "case", "tip", "sample", "native", "janus",
               "judged", "exit"}
  /\ face \in PublicFaces /\ given \subseteq Fixtures
  /\ cases \in CaseLists /\ index \in 1 .. Len(cases) + 1
  /\ epoch \in {NoEpoch} \cup Nat
  /\ subject \in [no : {-1} \cup Nat, block : Blocks \cup {Garbled}]
  /\ {result.ok, result.right, failed} \subseteq BOOLEAN
  /\ low \in 0 .. MaxHeight

CompareInit ==
  /\ ChainInit
  /\ stage = "start" /\ face \in PublicFaces /\ given \in Environments
  /\ cases \in CaseLists /\ index = 1 /\ epoch = NoEpoch
  /\ subject = NoSubject /\ native = <<>>
  /\ result = NoResult /\ failed = FALSE /\ low = TipHeight

-----------------------------------------------------------------------------
(* Verdicts, by the rows of the two answers.                                *)
Ids(rows) == {rows[i].id : i \in 1 .. Len(rows)}
IdsInOrder(rows) == [i \in 1 .. Len(rows) |-> rows[i].id]
RowSet(rows) == {rows[i] : i \in 1 .. Len(rows)}

(* Mutant: any two epochs are held against each other.                      *)
NoDiffByEpochOfBoth(n, j) ==
  \A a \in RowSet(n), b \in RowSet(j) : a.id = b.id => a = b

(* _diff_by_epoch: the same epochs, in any order, with the same contents.   *)
NoDiffByEpoch(n, j) == RowSet(n) = RowSet(j)

(* Only what identifies the rows counts, as far as both lists go.           *)
SameIdentity(n, j) ==
  \A i \in (1 .. Len(n)) \cap (1 .. Len(j)) : n[i].id = j[i].id

EpochOf(row) == Unit(row.of.height, EpochLength)

Verdict(mode, n, j) ==
  CASE mode = "always"     -> TRUE
    [] mode = "no diff"    -> n = j
    [] mode = "by epoch"   -> NoDiffByEpoch(n, j)
    [] mode = "identity"   -> SameIdentity(n, j)
    [] mode = "row"        -> n # <<>> /\ j # <<>> /\ SameIdentity(n, j)
    [] mode = "epochs"     -> Len(n) = Len(j) /\ \A i \in 1 .. Len(n) : EpochOf(n[i]) = EpochOf(j[i])
    [] mode = "lengths"    -> Len(n) = Len(j)
    [] mode = "some"       -> Len(n) = Len(j) /\ n # <<>>
    [] mode = "same set"   -> n # <<>> /\ Ids(n) = Ids(j)
    [] mode = "same order" -> n # <<>> /\ IdsInOrder(n) = IdsInOrder(j)
    [] mode = "set in order" -> Ids(n) = Ids(j) => IdsInOrder(n) = IdsInOrder(j)
    [] mode = "contents"   -> n # <<>> /\ n = j
    [] mode = "aligned"    -> n # <<>> /\ j # <<>> /\ (Len(n) = Len(j) => n = j)
    [] mode = "overlap"    -> Ids(n) \cap Ids(j) # {}
    [] mode = "both"       -> n # <<>> /\ j # <<>>
    [] mode = "alike"      -> (n = <<>>) = (j = <<>>)

-----------------------------------------------------------------------------
(* The cases: the fixture one needs, what it asks for, and how each face's  *)
(* answers are judged; "wrong face" fails, "skip" passes unasked.           *)
Case(needs, asks, koios, blockfrost) ==
  [needs |-> needs, asks |-> asks, judge |-> [koios |-> koios, blockfrost |-> blockfrost]]

TipSoftly == Case("none", "tip", "always", "always")
Genesis == Case("none", "constant", "no diff", "no diff")
EpochInfo == Case("none", "epoch", "no diff", "no diff")
PoolList == Case("none", "page", "lengths", "lengths")
PoolHistory == Case("pool", "history", "by epoch", "by epoch")
EpochParams == Case("none", "epoch", "no diff", "no diff")
EpochsNext == Case("none", "epochs after", "wrong face", "no diff")
PoolInfo == Case("pool", "registered", "no diff", "no diff")
PoolMetadata == Case("pool", "registered", "no diff", "no diff")
PoolRelays == Case("pool", "list", "lengths", "lengths")
PoolDelegators == Case("pool", "page", "lengths", "lengths")
PoolBlocks == Case("pool", "page", "lengths", "lengths")
PoolUpdates == Case("pool", "page", "lengths", "lengths")
PoolVotes == Case("pool", "page", "always", "always")
BlockInfo == Case("none", "block or tip", "epochs", "always")
AddressInfo == Case("address", "registered", "identity", "identity")
AddressExtended == Case("address", "registered", "skip", "identity")
AddressAssets == Case("address", "list", "set in order", "skip")
AccountInfo == Case("stake", "registered", "identity", "identity")
EpochsPrevious == Case("none", "epochs before", "wrong face", "by epoch")
EpochBlocks == Case("none", "epoch's blocks", "same set", "same set")
BlockTxs == Case("none", "block", "same set", "some")
TxInfo == Case("none", "transaction", "identity", "always")
TxUtxos == Case("none", "transaction", "row", "contents")
TxMetadata == Case("none", "transaction", "row", "lengths")
TxCbor == Case("none", "transaction", "contents", "contents")
AddressUtxos == Case("address", "page", "lengths", "lengths")
AddressTxs == Case("address", "page", "lengths", "lengths")
AccountRewards == Case("stake", "page", "overlap", "lengths")
AccountHistory == Case("stake", "page", "both", "lengths")
AccountAddresses == Case("stake", "page", "overlap", "alike")
PoolsExtended == Case("none", "page", "wrong face", "some")
GovernanceCommittee == Case("none", "registered", "always", "always")
AccountDelegations == Case("stake", "page", "wrong face", "alike")
AccountTxs == Case("stake", "page", "lengths", "lengths")
MetadataLabels == Case("none", "page", "some", "some")
GovernanceDreps == Case("none", "page", "both", "both")
GovernanceProposals == Case("none", "page", "both", "both")
AssetInfo == Case("none", "asset", "row", "row")
DrepInfo == Case("none", "registration", "row", "row")
MetadataByLabel == Case("none", "label", "both", "both")
ScriptInfo == Case("none", "script", "row", "row")
DatumInfo == Case("none", "script", "both", "both")
EraSummaries == Case("none", "constant", "both", "aligned")
BlocksNext == Case("none", "blocks after", "wrong face", "same order")
BlocksPrevious == Case("none", "blocks before", "wrong face", "same set")
BlockBySlot == Case("none", "slot", "same order", "same order")

(* run_case: an unknown name fails.                                         *)
Cases ==
  [tip |-> TipSoftly, genesis |-> Genesis, epoch_info |-> EpochInfo,
   pool_list |-> PoolList, pool_history |-> PoolHistory,
   epoch_params |-> EpochParams, epochs_next |-> EpochsNext,
   pool_info |-> PoolInfo, pool_metadata |-> PoolMetadata,
   pool_relays |-> PoolRelays, pool_delegators |-> PoolDelegators,
   pool_blocks |-> PoolBlocks, pool_updates |-> PoolUpdates,
   pool_votes |-> PoolVotes, block_info |-> BlockInfo,
   address_info |-> AddressInfo, address_extended |-> AddressExtended,
   address_assets |-> AddressAssets, account_info |-> AccountInfo,
   epochs_previous |-> EpochsPrevious, epoch_blocks |-> EpochBlocks,
   block_txs |-> BlockTxs, tx_info |-> TxInfo, tx_utxos |-> TxUtxos,
   tx_metadata |-> TxMetadata, tx_cbor |-> TxCbor,
   address_utxos |-> AddressUtxos, address_txs |-> AddressTxs,
   account_rewards |-> AccountRewards, account_history |-> AccountHistory,
   account_addresses |-> AccountAddresses, pools_extended |-> PoolsExtended,
   governance_committee |-> GovernanceCommittee,
   account_delegations |-> AccountDelegations, account_txs |-> AccountTxs,
   metadata_labels |-> MetadataLabels, governance_dreps |-> GovernanceDreps,
   governance_proposals |-> GovernanceProposals, asset_info |-> AssetInfo,
   drep_info |-> DrepInfo, metadata_by_label |-> MetadataByLabel,
   script_info |-> ScriptInfo, datum_info |-> DatumInfo,
   era_summaries |-> EraSummaries, blocks_next |-> BlocksNext,
   blocks_previous |-> BlocksPrevious, block_by_slot |-> BlockBySlot]

Now == cases[index]
Known == Now \in DOMAIN Cases
Needs == Cases[Now].needs
Asks == Cases[Now].asks
Mode == Cases[Now].judge[face]

-----------------------------------------------------------------------------
(* What is answered, by how much of the chain the answering side knows.     *)
KnownBlock(view, h) == [height |-> h, fork |-> view[h + 1]]
Within(view, heights) == heights \cap (0 .. Len(view) - 1)

(* A row for each of the numbers from first to last, if it is there.        *)
BlockRows(view, first, last) ==
  LET from == IF first < 0 THEN 0 ELSE first
      to == IF last < Len(view) THEN last ELSE Len(view) - 1
  IN [i \in 1 .. to - from + 1 |->
        LET b == KnownBlock(view, from + i - 1) IN Row(b, b)]

EpochRows(view, first, last) ==
  LET from == IF first < 0 THEN 0 ELSE first
      running == Unit(Len(view) - 1, EpochLength)
      to == IF last < running THEN last ELSE running
      end(n) == LastHeight(n, EpochLength)
  IN [i \in 1 .. to - from + 1 |->
        LET n == from + i - 1
        IN Row(n, KnownBlock(view, IF end(n) < Len(view) THEN end(n) ELSE Len(view) - 1))]

(* A block by its hash.                                                     *)
HashRows(view, block) ==
  IF block.height \in Within(view, {block.height}) /\ KnownBlock(view, block.height) = block
  THEN <<Row(block, block)>> ELSE <<>>

(* Registered data: one row, as of its last update; or a row per update.    *)
Registered(view) ==
  LET past == {0} \cup Within(view, Updates)
  IN KnownBlock(view, CHOOSE h \in past : \A u \in past : u <= h)

(* A pool's finished epochs: Blockfrost lists the oldest first; Koios the   *)
(* newest, and the native one is asked for the epoch alone.                 *)
History(view, side) ==
  LET last == Unit(Len(view) - 1, EpochLength) - 1
  IN IF face = "blockfrost" THEN EpochRows(view, 0, IF last < HistoryPage THEN last ELSE HistoryPage - 1)
     ELSE IF side = "native" /\ epoch # NoEpoch
     THEN EpochRows(view, epoch, IF epoch <= last THEN epoch ELSE last)
     ELSE EpochRows(view, last - HistoryPage + 1, last)

(* Mutant: the page is compared as it comes.                                *)
Unfiltered(rows) == rows

(* _filter_pool_history_epochs: a page tells of an epoch once.              *)
Filtered(rows) ==
  LET at == {i \in 1 .. Len(rows) : rows[i].id = epoch}
  IN IF epoch = NoEpoch THEN rows
     ELSE IF at = {} THEN <<>> ELSE <<rows[CHOOSE i \in at : TRUE]>>

(* A block is asked for by its number at its slot, and on the Blockfrost    *)
(* face; so are the neighbours of one.                                      *)
BlockByNumber ==
  Asks = "slot" \/ (face = "blockfrost" /\ Asks \in {"block", "block or tip"})

ByNumber == BlockByNumber \/ Asks \in {"blocks after", "blocks before"}

Rows(view, side) ==
  LET no == subject.no
      length == Cardinality({0} \cup Within(view, Updates))
  IN CASE Asks \in {"tip", "page"} -> BlockRows(view, 0, PageSize - 1)
       [] Asks = "constant"      -> <<Row("it", KnownBlock(view, 0))>>
       [] Asks = "registered"    -> <<Row("it", Registered(view))>>
       [] Asks = "list"          -> [i \in 1 .. length |-> Row(i, KnownBlock(view, 0))]
       [] Asks = "epoch"         -> EpochRows(view, no, no)
       [] Asks = "epochs after"  -> EpochRows(view, no + 1, no + Count)
       [] Asks = "epochs before" -> EpochRows(view, no - Count, no - 1)
       [] Asks = "history"       -> Filtered(History(view, side))
       [] Asks = "epoch's blocks" ->
            LET first == no * EpochLength
                page == first + PageSize - 1
                end == LastHeight(no, EpochLength)
            IN BlockRows(view, first, IF page < end THEN page ELSE end)
       [] Asks = "blocks after"  -> BlockRows(view, no + 1, no + Count)
       [] Asks = "blocks before" -> BlockRows(view, no - Count, no - 1)
       [] BlockByNumber         -> BlockRows(view, no, no)
       [] OTHER                  -> HashRows(view, subject.block)

(* What is not there is a 404 of the Blockfrost face, and so is the anchor  *)
(* of a walk; lists, and all of the Koios face's answers, may be empty.     *)
Anchor ==
  IF Asks \in {"epoch", "epochs after", "epochs before", "epoch's blocks"}
  THEN subject.no * EpochLength
  ELSE IF ByNumber THEN subject.no ELSE subject.block.height

Anchored == Asks \notin {"tip", "page", "constant", "registered", "list", "history"}

NotThere(view) ==
  /\ face = "blockfrost" /\ Anchored
  /\ \/ Anchor \notin Within(view, {Anchor})
     \/ ~ByNumber /\ subject.block # Garbled /\ HashRows(view, subject.block) = <<>>

-----------------------------------------------------------------------------
Judge(r) ==
  /\ stage' = "judged"
  /\ result' = r
  /\ failed' = (failed \/ ~r.ok)

(* A case that ends without an answer of Janus.                             *)
End(ok, detail) == Judge(Result(ok, detail, <<>>, TRUE))

Goes(to) == stage' = to /\ UNCHANGED <<result, failed>>

Unmoved == UNCHANGED <<chain, forks, low>>
SameRun == UNCHANGED runVars /\ Unmoved

(* Mutant: the epoch before the running one.                                *)
EpochBefore(tip) ==
  LET running == Unit(tip.height, EpochLength) IN IF running < 1 THEN 0 ELSE running - 1

(* Mutant: without max(0, ...).                                             *)
EpochUnclamped(tip) == Unit(tip.height, EpochLength) - 2

(* _resolve_compare_epoch: a finished epoch whose rewards are paid.         *)
EpochToCompare(tip) ==
  LET running == Unit(tip.height, EpochLength) IN IF running < 2 THEN 0 ELSE running - 2

(* main(): the epoch is resolved once, a failure is a warning.  (An epoch   *)
(* the operator pins, or COMPARE_EPOCHS, needs no resolving.)               *)
ResolveEpoch ==
  /\ stage = "start" /\ stage' = "fixtures"
  /\ epoch' \in {EpochToCompare(Tip), NoEpoch}
  /\ low' = TipHeight
  /\ UNCHANGED <<chain, forks, caseVars, face, given, cases, index>>

NeedFixtures ==
  \E i \in 1 .. Len(cases) : cases[i] \in DOMAIN Cases /\
    (cases[i] = "asset_info" \/ Cases[cases[i]].needs \in {"address", "stake"})

(* _resolve_pool_fixtures: the pool's reward account, then its address; an  *)
(* exception leaves what was found so far.                                  *)
ResolveFixtures ==
  /\ stage = "fixtures" /\ stage' = "case"
  /\ IF "pool" \in given /\ NeedFixtures /\ ~({"address", "stake"} \subseteq given)
     THEN given' \in {given, given \cup {"stake"}, given \cup {"stake", "address"}}
     ELSE UNCHANGED given
  /\ UNCHANGED <<caseVars, face, cases, index, epoch>> /\ Unmoved

OfEpoch == {"epoch", "epochs after", "epochs before", "epoch's blocks"}
OfRecent == {"block", "block or tip", "transaction", "script", "slot", "blocks after",
             "blocks before"}
OfListed == {"asset", "registration", "label"}

(* max(0, epoch - 5) is where the epochs after are counted from.            *)
EpochSubject(n) ==
  Subject(IF Asks # "epochs after" THEN n
          ELSE IF n < Count + 2 THEN 0 ELSE n - (Count + 2), Garbled)

StartCase ==
  /\ stage = "case" /\ index <= Len(cases)
  /\ native' = <<>>
  /\ \/ ~Known /\ End(FALSE, "unknown") /\ subject' = NoSubject
     \/ /\ Known /\ Mode = "wrong face"
        /\ End(FALSE, "wrong face") /\ subject' = NoSubject
     \/ /\ Known /\ Mode # "wrong face" /\ Needs \notin given \cup {"none"}
        /\ End(FALSE, "unset") /\ subject' = NoSubject
     \/ /\ Known /\ Mode # "wrong face" /\ Needs \in given \cup {"none"}
        /\ IF Mode = "skip" THEN End(TRUE, "skipped") /\ subject' = NoSubject
           ELSE IF Asks \in OfRecent \/ (Asks \in OfEpoch /\ epoch = NoEpoch)
           THEN Goes("tip") /\ subject' = NoSubject
           ELSE IF Asks \in OfListed THEN Goes("sample") /\ subject' = NoSubject
           ELSE /\ Goes("native")
                /\ subject' = IF Asks \in OfEpoch THEN EpochSubject(epoch) ELSE NoSubject
  /\ SameRun

(* max(1, height - 50) and the like, max(10, height - 20) of the walk back. *)
Below(height) ==
  LET least == IF Asks = "blocks before" THEN Floor ELSE 1
  IN IF height - Deep < least THEN least ELSE height - Deep

ReadHeight ==
  /\ stage = "tip"
  /\ IF Asks \in OfEpoch
     THEN Goes("native") /\ subject' = EpochSubject(EpochToCompare(Tip))
     ELSE IF ByNumber /\ Asks # "slot"
     THEN Goes("native") /\ subject' = Subject(Below(TipHeight), Garbled)
     ELSE Goes("sample") /\ subject' = Subject(Below(TipHeight), Tip)
  /\ UNCHANGED native /\ SameRun

(* The block below the tip, one of its transactions or their scripts; of    *)
(* several depths the first that has any.  Without the block block_info     *)
(* takes the tip itself.  Or the first of a list's assets, dreps or labels. *)
FindSample ==
  /\ stage = "sample"
  /\ \/ \E b \in IF Asks \in OfListed THEN OnChain ELSE RowsAt(subject.no, 1) :
          Goes("native") /\ subject' = Subject(subject.no, b)
     \/ /\ Asks = "block or tip" /\ RowsAt(subject.no, 1) = {}
        /\ Goes("native") /\ UNCHANGED subject
     \/ /\ Asks \in {"slot"} => RowsAt(subject.no, 1) = {}
        /\ Asks # "block or tip"
        /\ IF Asks \in {"asset", "script"} THEN End(TRUE, "skipped")
           ELSE End(FALSE, "unresolved")
        /\ UNCHANGED subject
  /\ UNCHANGED native /\ SameRun

(* A block that is gone from its slot is the sample's all the same (Koios). *)
AskNative ==
  /\ stage = "native"
  /\ IF NotThere(chain) THEN End(FALSE, "not found") /\ UNCHANGED native
     ELSE /\ Goes("janus")
          /\ native' = IF Asks = "slot" /\ Rows(chain, "native") = <<>>
                       THEN <<Row(subject.block, subject.block)>> ELSE Rows(chain, "native")
  /\ UNCHANGED subject /\ SameRun

Told(rows, right) == IF right THEN rows ELSE [i \in 1 .. Len(rows) |-> Row(rows[i].id, Garbled)]

Lagging(lag) == SubSeq(chain, 1, IF lag < Len(chain) THEN Len(chain) - lag ELSE 1)

AskJanus ==
  /\ stage = "janus"
  /\ \E lag \in 0 .. MaxLag, right \in BOOLEAN :
       LET view == Lagging(lag)
           janus == Told(Rows(view, "janus"), right)
           ok == Verdict(Mode, native, janus)
       IN IF NotThere(view) THEN End(FALSE, "not found")
          ELSE Judge(Result(ok, IF ok THEN "compared" ELSE "differs", janus, right))
  /\ UNCHANGED <<subject, native>> /\ SameRun

(* An HTTP error or any other exception fails the case; timeouts of every   *)
(* label tried pass it.                                                     *)
CompareCallFails ==
  /\ stage \in {"tip", "sample", "native", "janus"}
  /\ \/ End(FALSE, "call")
     \/ Asks = "label" /\ stage \in {"native", "janus"} /\ End(TRUE, "timeouts")
  /\ UNCHANGED <<subject, native>> /\ SameRun

(* A case leaves nothing to the next but the exit code.                     *)
NextCase ==
  /\ stage = "judged" /\ stage' = "case" /\ index' = index + 1
  /\ result' = NoResult /\ native' = <<>> /\ subject' = NoSubject
  /\ UNCHANGED <<failed, face, given, cases, epoch>> /\ Unmoved

Exit ==
  /\ stage = "case" /\ index > Len(cases) /\ Goes("exit")
  /\ UNCHANGED <<subject, native>> /\ SameRun

(* While a call is under way; it makes no difference elsewhere.             *)
CompareChainMoves ==
  /\ stage \in {"tip", "sample", "native", "janus"}
  /\ Forge \/ Rollback
  /\ low' = IF Len(chain') - 1 < low THEN Len(chain') - 1 ELSE low
  /\ UNCHANGED <<stage, caseVars, runVars>>

CompareNext ==
  \/ ResolveEpoch \/ ResolveFixtures \/ StartCase \/ ReadHeight \/ FindSample
  \/ AskNative \/ AskJanus \/ CompareCallFails \/ NextCase \/ Exit
  \/ CompareChainMoves

CompareSpec == CompareInit /\ [][CompareNext]_<<chain, forks, compareVars>>

-----------------------------------------------------------------------------
(* Properties                                                               *)

(* The height from which on growing does not change what is asked for.      *)
Settled ==
  CASE Asks \in {"tip", "page"}  -> PageSize - 1
    [] Asks = "constant"         -> 0
    [] Asks \in {"registered", "list"} ->
         CHOOSE h \in {0} \cup Updates : \A u \in Updates : u <= h
    [] Asks = "epoch"            -> LastHeight(subject.no, EpochLength)
    [] Asks = "epochs after"     -> LastHeight(subject.no + Count, EpochLength)
    [] Asks = "epochs before"    -> subject.no * EpochLength
    [] Asks = "epoch's blocks"   -> LastHeight(subject.no, EpochLength)
    [] Asks = "history"          -> LastHeight(epoch, EpochLength) + 1
    [] Asks = "blocks after"     -> subject.no + Count
    [] Asks = "blocks before"    -> subject.no
    [] BlockByNumber             -> subject.no
    [] OTHER                     -> subject.block.height

(* Some side may have answered before that, or after a rollback below it.   *)
Unsettled ==
  \/ low - MaxLag < Settled
  \/ Asks = "history" /\ epoch = NoEpoch

(* Koios's native history has the epoch, Janus's page of it no longer.      *)
Outgrown ==
  Asks = "history" /\ face = "koios" /\ epoch < Unit(TipHeight, EpochLength) - HistoryPage

(* A Janus that tells the truth raises an alarm only over data that are not *)
(* settled: that grow, lag behind or were rolled back, or an epoch that has *)
(* left the page; a chain that goes on between the two calls, and a backend *)
(* behind the native one's, are no alarm over a sample or a finished epoch. *)
AlarmHasReason ==
  stage = "judged" /\ result.right /\ result.detail \in {"differs", "not found"} =>
    Unsettled \/ Outgrown

(* The epoch compared by default is over, as the native API and as Janus    *)
(* see it, unless rollbacks and lag together take more than an epoch.       *)
ComparedEpochIsOver ==
  epoch > 0 /\ forks * MaxDepth + MaxLag <= EpochLength =>
    LastHeight(epoch, EpochLength) <= low - MaxLag

(* A case that compares contents and passes has compared them: a Janus that *)
(* gets them wrong passes only where both answers were empty - no epochs    *)
(* before the first, nothing settled yet, or a pool's history on the        *)
(* Blockfrost face, whose page of the oldest epochs lacks the one compared. *)
PassHasCompared ==
  /\ stage = "judged" /\ result.detail = "compared" /\ result.ok
  /\ Mode \in {"no diff", "by epoch", "epochs", "contents", "aligned"}
  => IF result.janus # <<>> THEN result.right
     ELSE \/ Unsettled
          \/ Asks = "epochs before" /\ subject.no = 0
          \/ Asks = "history" /\ face = "blockfrost" /\ epoch >= HistoryPage
=============================================================================
