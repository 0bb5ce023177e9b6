----------------------------- MODULE McpBridge -----------------------------
(***************************************************************************)
(* The MCP server (ravn-mcp server.rs, tools.rs, client.rs): JSON-RPC      *)
(* lines on stdin become requests to the control plane, through the gate   *)
(* of HttpGate, and their answers one line each on stdout. Meanwhile       *)
(* others decide on the same proposal in the portal.                       *)
(*                                                                         *)
(* A line is malformed, a notification, or a request with an id: the ids   *)
(* are numbers, in the order of stdin. One proposal stands for all. What a *)
(* read tool returns is the state it read; texts and schemas are left out. *)
(***************************************************************************)
EXTENDS HttpGate

CONSTANTS
  BridgeTokens,      \* the bearers the server may be started with, or NoBearer
  MaxEventLimit,     \* MAX_EVENT_LIMIT
  DefaultLimit,      \* DEFAULT_EVENT_LIMIT
  LimitWidth,        \* 32: the width the limit is cast to
  Limits,            \* the integers a caller may give
  MaxLines           \* bound on the lines of stdin

ASSUME BridgeAssumption ==
  /\ MaxEventLimit \in Nat \ {0} /\ DefaultLimit \in 1..MaxEventLimit
  /\ LimitWidth \in Nat /\ 2 ^ LimitWidth \in Nat \ {0} /\ Limits \subseteq Nat /\ MaxLines \in Nat

VARIABLES
  bridge,    \* Handler: [mutations, token]
  proposal,  \* the decision of the proposal
  call,      \* the call in hand: [id, tool, limit, stage, ok], or NoCall
  lines,     \* how many lines were read, and how many of them had an id
  stdout,    \* the last reply, [id, tool, outcome], the id 0 for null, and
  replied,   \* how many replies had an id
  byBridge   \* history: the calls, by id, that changed the proposal

mcpVars == <<bridge, proposal, call, lines, stdout, replied, byBridge>>

ReadTools == {"list_agents", "list_recent_events", "get_event", "get_topology",
              "list_remediation_proposals"}
MutatingTools == {"approve_remediation", "reject_remediation"}
NoCall == [stage |-> "none"]

\* tool_catalog
ToolCatalog == ReadTools \cup IF bridge.mutations THEN MutatingTools ELSE {}

McpInit ==
  /\ bridge \in [mutations : BOOLEAN, token : BridgeTokens]
  /\ proposal = "pending" /\ call = NoCall
  /\ lines = [read |-> 0, asked |-> 0]
  /\ stdout = [id |-> 0, tool |-> "none", outcome |-> "none"] /\ replied = 0
  /\ byBridge = {}

Write(id, tool, outcome) ==
  /\ stdout' = [id |-> id, tool |-> tool, outcome |-> outcome]
  /\ replied' = IF id = 0 THEN replied ELSE replied + 1

ReadLine(asks) ==
  /\ call = NoCall /\ lines.read < MaxLines
  /\ lines' = [read |-> lines.read + 1, asked |-> lines.asked + IF asks THEN 1 ELSE 0]

\* serve_stdio: a line that does not parse is answered with a null id, a notification
\* is not answered.
Malformed == ReadLine(FALSE) /\ Write(0, "none", "parse_error") /\ UNCHANGED <<bridge, proposal, call, byBridge>>
Notification == ReadLine(FALSE) /\ UNCHANGED <<bridge, proposal, call, stdout, replied, byBridge>>

\* handle, without a call: initialize, ping, tools/list, an unknown method, parameters
\* that are none of a call.
AnswerHere ==
  /\ ReadLine(TRUE)
  /\ Write(lines'.asked, "none", "answered")
  /\ UNCHANGED <<bridge, proposal, call, byBridge>>

\* list_recent_events: the integer is cast to 32 bits before it is clamped.
ClampLimit(n) ==
  LET cast == n % (2 ^ LimitWidth) IN
  IF cast < 1 THEN 1 ELSE Lesser(cast, MaxEventLimit)
AskedLimit(tool, given) ==
  IF tool = "get_event" THEN MaxEventLimit
  ELSE IF given = {} THEN DefaultLimit ELSE ClampLimit(CHOOSE n \in given : TRUE)

\* dispatch, mutate, get_event, list_recent_events: refused here, without a request.
ChecksArguments == MutatingTools \cup {"get_event", "list_recent_events"}
Refused(tool, wellFormed) ==
  \/ tool \notin ReadTools \cup MutatingTools
  \/ tool \in MutatingTools /\ ~bridge.mutations
  \/ tool \in ChecksArguments /\ ~wellFormed
RefuseCall(tool, wellFormed) ==
  /\ Refused(tool, wellFormed)
  /\ ReadLine(TRUE)
  /\ Write(lines'.asked, tool, "refused")
  /\ UNCHANGED <<bridge, proposal, call, byBridge>>

\* tools_call, up to the request; `given` is the limit in the arguments, if any.
StartCall(tool, given) ==
  /\ ~Refused(tool, TRUE)
  /\ ReadLine(TRUE)
  /\ call' = [stage |-> "sent", id |-> lines'.asked, tool |-> tool, limit |-> AskedLimit(tool, given), ok |-> FALSE]
  /\ UNCHANGED <<bridge, proposal, stdout, replied, byBridge>>

\* ControlPlaneClient: get or post, with the token on every request.
BridgeRequest(tool) ==
  [path |-> "/api/x", method |-> IF tool \in MutatingTools THEN "POST" ELSE "GET",
   header |-> bridge.token, query |-> NoBearer]

\* approve finds only a pending proposal; reject does not look.
Takes(tool) == IF tool = "approve_remediation" THEN proposal = "pending" ELSE TRUE
Decided(tool) == IF tool = "approve_remediation" THEN "approved" ELSE "rejected"

\* The control plane: the middleware, then the handler.
ServeCall ==
  /\ call # NoCall /\ call.stage = "sent"
  /\ LET ok == Passes(BridgeRequest(call.tool)) /\ Takes(call.tool)
         decides == ok /\ call.tool \in MutatingTools IN
     /\ proposal' = IF decides THEN Decided(call.tool) ELSE proposal
     /\ byBridge' = IF decides THEN byBridge \cup {call.id} ELSE byBridge
     /\ call' = [call EXCEPT !.stage = "served", !.ok = ok]
  /\ UNCHANGED <<bridge, lines, stdout, replied>>

\* json_or_error and relay: the answer goes to stdout. get_event may not find its
\* event, which is an error of the call.
ReplyCall ==
  /\ call # NoCall /\ call.stage = "served"
  /\ \/ Write(call.id, call.tool, IF call.ok THEN "done" ELSE "denied")
     \/ call.ok /\ call.tool = "get_event" /\ Write(call.id, call.tool, "denied")
  /\ call' = NoCall
  /\ UNCHANGED <<bridge, proposal, lines, byBridge>>

\* The request or its answer is lost: an error, which says nothing of what was done.
LoseCall ==
  /\ call # NoCall
  /\ Write(call.id, call.tool, "unknown")
  /\ call' = NoCall
  /\ UNCHANGED <<bridge, proposal, lines, byBridge>>

\* Someone else decides.
PortalDecides(tool) ==
  /\ Takes(tool) /\ proposal' = Decided(tool)
  /\ UNCHANGED <<bridge, call, lines, stdout, replied, byBridge>>

McpNext ==
  \/ Malformed \/ Notification \/ AnswerHere
  \/ \E tool \in ReadTools \cup MutatingTools \cup {"other"} :
       \/ \E wellFormed \in BOOLEAN : RefuseCall(tool, wellFormed)
       \/ \E given \in {{}} \cup {{n} : n \in Limits} :
            (tool = "list_recent_events" \/ given = {}) /\ StartCall(tool, given)
  \/ ServeCall \/ ReplyCall \/ LoseCall
  \/ \E tool \in MutatingTools : PortalDecides(tool)

-----------------------------------------------------------------------------
(* Properties *)

\* The bridge decides nothing its own mode and its token do not allow, and what it
\* advertises is what it lets through (tool_catalog, dispatch, auth_mw).
BridgeAddsNoRights ==
  /\ byBridge # {} =>
       bridge.mutations /\ (AuthEnabled => Trusted(BridgeRequest("approve_remediation")))
  /\ \A tool \in ReadTools \cup MutatingTools : tool \in ToolCatalog <=> ~Refused(tool, TRUE)

\* Every request with an id is answered once, in order, and a reply does not misstate
\* what its call did, whoever decides meanwhile: only a lost answer leaves that open.
RepliesAreTrue ==
  /\ stdout.id # 0 => stdout.id = replied
  /\ replied = lines.asked - (IF call = NoCall THEN 0 ELSE 1)
  /\ stdout.tool \in MutatingTools =>
       /\ stdout.outcome = "done" => stdout.id \in byBridge
       /\ stdout.outcome \in {"denied", "refused"} => stdout.id \notin byBridge
  /\ call # NoCall => call.limit \in 1..MaxEventLimit

\* The gate lets nobody do what is not theirs to do, nor too often, directly or through
\* the MCP server (auth_mw, ingest, TokenBucket::consume, dispatch).
GateHolds == AdmittedIsEarned /\ IngestIsBounded /\ BridgeAddsNoRights /\ RepliesAreTrue
=============================================================================
