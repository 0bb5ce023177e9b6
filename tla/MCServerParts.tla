--------------------------- MODULE MCServerParts ---------------------------
(***************************************************************************)
(* Parts of the control plane that share no state, side by side for TLC:   *)
(* `focus` chooses the one that runs, and the others stay as they are.     *)
(***************************************************************************)
EXTENDS GlobMatch, TemplateCatalog, KnowledgeBase, FleetRegistry, LiveFeed, McpBridge, TLC

VARIABLE focus
Parts == {"glob", "catalog", "knowledge", "fleet", "feed", "gate", "bridge"}
partVars == <<focus, globVars, tcVars, kbVars, flVars, lfVars, hgVars, mcpVars>>

\* A part that does not run is in one initial state.
PartsInit ==
  /\ focus \in Parts
  /\ TcInit /\ (focus # "catalog" => /\ directory = CHOOSE d \in Directories : TRUE
                                     /\ catalog = CHOOSE c \in LoadDir(directory) : TRUE)
  /\ KbInit
  /\ FlInit
  /\ LfInit
  /\ HgInit /\ (focus \notin {"gate", "bridge"} => config = CHOOSE c \in Configs : TRUE)
  /\ McpInit /\ (focus # "bridge" => ~bridge.mutations /\ bridge.token = NoBearer)
             /\ (focus = "bridge" => /\ config.viewerToken = config.adminToken
                                     /\ config.adminGroup # "none" /\ config.viewerGroup # "none")
  /\ GlobInit /\ (focus # "glob" => p = <<>> /\ t = <<>>)

PartsNext ==
  /\ \/ focus = "glob" /\ GlobNext /\ UNCHANGED <<tcVars, kbVars, flVars, lfVars, hgVars, mcpVars>>
     \/ focus = "catalog" /\ TcNext /\ UNCHANGED <<globVars, kbVars, flVars, lfVars, hgVars, mcpVars>>
     \/ focus = "knowledge" /\ KbNext /\ UNCHANGED <<globVars, tcVars, flVars, lfVars, hgVars, mcpVars>>
     \/ focus = "fleet" /\ FlNext /\ UNCHANGED <<globVars, tcVars, kbVars, lfVars, hgVars, mcpVars>>
     \/ focus = "feed" /\ LfNext /\ UNCHANGED <<globVars, tcVars, kbVars, flVars, hgVars, mcpVars>>
     \/ focus = "gate" /\ HgNext /\ UNCHANGED <<globVars, tcVars, kbVars, flVars, lfVars, mcpVars>>
     \/ focus = "bridge" /\ McpNext /\ UNCHANGED <<globVars, tcVars, kbVars, flVars, lfVars, hgVars>>
  /\ UNCHANGED focus

\* While that part runs, the loop of glob_match is not interrupted.
PartsSpec == PartsInit /\ [][PartsNext]_partVars /\ WF_globVars(focus = "glob" /\ GlobNext)

\* glob_match returns, for every pattern and host: its loop ends.
GlobReturns == focus = "glob" => GlobEnds

-----------------------------------------------------------------------------
(* The instance *)

Unit(n) == [unit |-> <<[hole |-> n]>>]
Pod(n, tail) == [namespace |-> <<[hole |-> "namespace"]>>, pod |-> <<[hole |-> n], [text |-> tail]>>]
Cap(name, args) == [name |-> name, args |-> args]
NoFields == [x \in {} |-> <<>>]

\* The catch-all of the repository for failed units, its next version with another
\* parameter, a Kubernetes template whose pod parameter has an unusual name and a
\* literal after it, and a broken one whose check uses an undeclared parameter.
RestartUnit1 ==
  [id |-> "restart", version |-> 1, source |-> "failed_unit", conditions |-> NoFields,
   parameters |-> [unit |-> "payload.unit"],
   preconditions |-> <<Cap("unit_state", Unit("unit"))>>,
   steps |-> <<Cap("reset_failed", Unit("unit")), Cap("restart_unit", Unit("unit"))>>,
   verify |-> <<Cap("unit_state", Unit("unit"))>>]
RestartUnit2 ==
  [RestartUnit1 EXCEPT !.version = 2, !.parameters = [service |-> "payload.unit"],
     !.conditions = [x \in {"payload.result"} |-> <<"a">>],
     !.preconditions = <<>>, !.steps = <<Cap("restart_unit", Unit("service"))>>, !.verify = <<>>]
DeletePod ==
  [id |-> "pod", version |-> 1, source |-> "kube_workload", conditions |-> NoFields,
   parameters |-> [namespace |-> "payload.namespace", target |-> "payload.name"],
   preconditions |-> <<>>, steps |-> <<Cap("delete_pod", Pod("target", <<"-", "a">>))>>, verify |-> <<>>]
Broken == [RestartUnit1 EXCEPT !.id = "broken", !.verify = <<Cap("unit_state", Unit("service"))>>]

Base == [x \in Always |-> <<"a">>]
FailedUnit(result) ==
  [kind |-> "failed_unit", fields |-> Base @@ [x \in {"payload.unit"} |-> <<"a", ".">>] @@ [x \in {"payload.result"} |-> result]]
Workload(name) ==
  [kind |-> "kube_workload",
   fields |-> Base @@ [x \in Required["kube_workload"] |-> IF x = "payload.name" THEN name ELSE <<"a">>]]
MCEvents == {FailedUnit(<<"a">>), FailedUnit(<<".">>), Workload(<<"a">>), Workload(<<"a", "-", "a">>),
             Workload(<<".">>), [kind |-> "kube_node", fields |-> Base @@ [x \in Required["kube_node"] |-> <<"a">>]]}
MCDirectories == {{RestartUnit1, DeletePod}, {RestartUnit2, DeletePod}, {RestartUnit1, RestartUnit2}, {Broken}}
MCSignatures == {<<"a", "-", "a">>, <<"a", ":", "A">>, <<"a", ".">>}
MCPuts == {{}, {<<"env", "prod">>}, {<<"env", "test">>, <<"role", "web">>}}

B(k, g, c, w) == [kind |-> k, goodFor |-> g, claim |-> c, words |-> w]
MCBearers == {B("admin", {}, "none", <<>>), B("viewer", {}, "none", <<>>), B("other", {}, "none", <<>>),
  B("jwt", {"user"}, "text", <<"ops", "admins">>), B("jwt", {"user"}, "list", <<"ops", "admins">>),
  B("jwt", {"user"}, "list", <<"admins">>), B("jwt", {"user"}, "text", <<"users">>),
  B("jwt", {"cluster"}, "none", <<>>), B("jwt", {}, "list", <<"admins">>)}
MCRequests == [path : {"/api/x"}, method : {"GET", "POST"}, header : MCBearers \cup {NoBearer}, query : {NoBearer}]
  \cup [path : {"/api/x"}, method : {"POST"}, header : {B("other", {}, "none", <<>>)}, query : {B("admin", {}, "none", <<>>)}]
  \cup [path : {"/ready"}, method : {"GET"}, header : {NoBearer}, query : {NoBearer}]
MCConfigs == {c \in [adminToken : BOOLEAN, viewerToken : BOOLEAN, oidc : BOOLEAN, jwks : BOOLEAN, review : BOOLEAN, adminGroup : {"none", "admins"}, viewerGroup : {"none", "users"}] : (c.jwks = c.adminToken) /\ (c.review = c.oidc)}
MCIngestBearers == {B("jwt", {"user"}, "text", <<"users">>), B("jwt", {"cluster"}, "none", <<>>)}
MCBridgeTokens == {NoBearer, B("admin", {}, "none", <<>>), B("viewer", {}, "none", <<>>),
  B("jwt", {"user"}, "list", <<"admins">>), B("jwt", {"user"}, "text", <<"users">>)}
=============================================================================
