------------------------------- MODULE Chain --------------------------------
(***************************************************************************)
(* The chain as the backends' databases show it: blocks are forged at its   *)
(* tip, and a rollback takes the last ones away before others are forged in *)
(* their place.  Koios and db-sync delete rolled-back blocks.  External to  *)
(* the repository; modelled from what the providers ask of it.              *)
(***************************************************************************)
EXTENDS Integers, Sequences

CONSTANTS
  MaxHeight,   \* bound: the last height that is forged
  MaxDepth,    \* bound: blocks one rollback takes away; 0 for a chain that only grows
  MaxForks,    \* bound: rollbacks in a behaviour
  EpochLength  \* blocks of an epoch (every slot of the model has a block)

ASSUME ChainAssumption ==
  /\ MaxHeight \in Nat /\ MaxDepth \in Nat /\ MaxForks \in Nat
  /\ EpochLength \in Nat \ {0}

VARIABLES
  chain,  \* chain[h + 1] is the fork that forged the block at height h
  forks   \* the rollbacks so far: what is forged next belongs to this fork

chainVars == <<chain, forks>>

Forks == 0 .. MaxForks
Blocks == [height : 0 .. MaxHeight, fork : Forks]

ChainTypeOK ==
  /\ chain \in Seq(Forks)
  /\ Len(chain) \in 1 .. MaxHeight + 1
  /\ forks \in Forks

ChainInit ==
  /\ forks = 0
  /\ \E n \in 1 .. MaxHeight + 1 : chain = [i \in 1 .. n |-> 0]

TipHeight == Len(chain) - 1
BlockAt(h) == [height |-> h, fork |-> chain[h + 1]]
Tip == BlockAt(TipHeight)
OnChain == {BlockAt(h) : h \in 0 .. TipHeight}

(* Heights come in units of a given span: blocks, or epochs of blocks.  A   *)
(* unit's row tells the state of its last block: an epoch's counts grow     *)
(* until it is over.                                                        *)
Unit(h, span) == h \div span
LastHeight(n, span) == (n + 1) * span - 1

RowAt(n, span) ==
  BlockAt(IF LastHeight(n, span) <= TipHeight THEN LastHeight(n, span) ELSE TipHeight)

(* The rows a query finds: none or one.                                     *)
RowsAt(n, span) ==
  {RowAt(m, span) : m \in {n} \cap (0 .. Unit(TipHeight, span))}

RowsWith(block) == OnChain \cap {block}

Forge ==
  /\ TipHeight < MaxHeight
  /\ chain' = Append(chain, forks)
  /\ UNCHANGED forks

Rollback ==
  /\ forks < MaxForks
  /\ \E d \in 1 .. MaxDepth :
       /\ d < Len(chain)
       /\ chain' = SubSeq(chain, 1, Len(chain) - d)
  /\ forks' = forks + 1
=============================================================================
