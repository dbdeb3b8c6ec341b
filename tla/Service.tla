------------------------------- MODULE Service -------------------------------
(***************************************************************************)
(* The service from its configuration to its end: create_app() loads the    *)
(* configuration and makes the backend of it, and only then the server      *)
(* enters the lifespan, which connects the backend before it lets requests  *)
(* in and closes it after the last.  The backend here is db-sync, the one   *)
(* that has something to connect to.                                        *)
(***************************************************************************)
EXTENDS Config, DbSyncProvider

CONSTANT Served  \* bound: the inputs whose service is followed into its lifespan

ASSUME ServiceAssumption == Served \subseteq Inputs

serviceVars == <<configVars, vars>>

ServiceInit == ConfigInit /\ Init

(* The provider opens a tunnel if its settings have one that is enabled.    *)
Serves ==
  /\ stage = "ready" /\ backend.source = "dbsync" /\ given \in Served
  /\ Tunnelled = TunnelOn(data.tunnel)

Serving(step) == Serves /\ step /\ UNCHANGED configVars

ServiceNext ==
  \/ ConfigNext /\ UNCHANGED vars
  \/ Serving(Next)

(* As DbSyncProvider's fairness; loading the configuration waits for nobody. *)
ServiceSpec ==
  /\ ServiceInit /\ [][ServiceNext]_serviceVars
  /\ WF_serviceVars(Serving(Server))
  /\ \A r \in Requests : WF_serviceVars(Serving(Serve(r)))
=============================================================================
