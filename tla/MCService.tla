------------------------------ MODULE MCService ------------------------------
(* Every configuration; one with a tunnel that the file gives and the       *)
(* environment completes is served, with more requests than connections.    *)
EXTENDS MCConfig, Service

ServedInputs ==
  {TunnelInput("dbsync", Section(Unset, [NoText EXCEPT !["host"] = Filled]), Unset,
     [NoText EXCEPT !["user"] = Filled, !["password"] = Filled])}
=============================================================================
