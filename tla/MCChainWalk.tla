---------------------------- MODULE MCChainWalk -----------------------------
(* Instances of ChainWalk for TLC.                                          *)
EXTENDS ChainWalk

(* Anchors before, at and beyond the chain's ends, by number and by hash.   *)
MCAsks ==
  LET anchors(what) ==
        IF what = "epochs" THEN {Number(n) : n \in {-1, 0, 2, 4}}
        ELSE {Number(n) : n \in {0, 2, MaxHeight + 1}}
             \cup {Hash([height |-> 2, fork |-> f]) : f \in {0, 1}}
  IN UNION {[what : {w}, anchor : anchors(w), dir : {1, -1},
             count : {1, 2}, page : {1, 2}] : w \in {"blocks", "epochs"}}
=============================================================================
