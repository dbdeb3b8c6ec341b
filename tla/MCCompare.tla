------------------------------ MODULE MCCompare ------------------------------
(* Compare with each of its cases by itself, and three in a row.            *)
EXTENDS Compare

MCCaseLists ==
  {<<name>> : name \in DOMAIN Cases}
  \cup {<<"no_such_case">>, <<>>, <<"epoch_info", "pool_history", "tx_info">>}
=============================================================================
