------------------------ MODULE RemediationLifecycle ------------------------
(***************************************************************************)
(* The life of a remediation, from the fault that prepares it to the       *)
(* result that closes its record: the control plane's prepare tasks and    *)
(* HTTP handlers (ravn-server remediation.rs, api.rs), the Postgres audit  *)
(* table (db.rs), the in-memory dedup cache and command queue              *)
(* (command.rs), and each agent's poll loop (ravn-agent remediation.rs).   *)
(*                                                                         *)
(* Every handler is cut at its await points: what runs between two of them *)
(* is one action, so handlers interleave exactly where tokio lets them.    *)
(* A DB statement is atomic; it may also fail, with or without its effect  *)
(* (DbFaults).                                                             *)
(*                                                                         *)
(* Simplifications: a proposal or a command is its uuid; DedupKey is a     *)
(* fault; the policy decision is an input (module PolicyEngine); signature *)
(* and expiry checks are a choice at the agent (modules CommandLedger and  *)
(* KeyRotation); the actuator's steps are one (module Actuator). Metrics   *)
(* and the knowledge base, which nothing here reads, are left out.         *)
(***************************************************************************)
EXTENDS Naturals, Sequences, FiniteSets

CONSTANTS
  Proposals,  \* proposal uuids; their number bounds the prepares of a run
  Commands,   \* command uuids; their number bounds the signed envelopes
  Faults,     \* the DedupKeys: (template, agent, resolved parameters)
  Agents,
  AgentOf,    \* the agent a fault is on
  Workers,    \* tokio tasks that may be inside a handler at the same time
  DbFaults,   \* subset of {"error", "lost_ack"}
  EnvFaults,  \* subset of {"server_restart", "agent_crash", "message_loss"}
  None

ASSUME LifecycleAssumption ==
  /\ AgentOf \in [Faults -> Agents]
  /\ None \notin Proposals
  /\ None \notin Commands
  /\ None \notin Faults
  /\ None \notin {"succeeded", "failed", "rejected", "precondition_failed", "frozen"}
  /\ DbFaults \subseteq {"error", "lost_ack"}
  /\ EnvFaults \subseteq {"server_restart", "agent_crash", "message_loss"}

VARIABLES
  row,          \* remediation_records: proposal -> audit row (Postgres)
  pendingKeys,  \* RemediationStore.pending_keys (memory)
  queue,        \* CommandQueue.pending: agent -> signed commands, oldest first
  results,      \* CommandQueue.results (memory)
  task,         \* worker -> the handler it is in the middle of
  cmdFor,       \* command -> the proposal its envelope was built from
  inbox,        \* agent -> envelopes of the current poll_once, still to process
  report,       \* agent -> the ActionResult it is about to POST
  executed      \* commands the actuator has acted on

serverVars == <<row, pendingKeys, queue, results, task, cmdFor>>
agentVars  == <<inbox, report, executed>>
vars == <<row, pendingKeys, queue, results, task, cmdFor, inbox, report, executed>>

-----------------------------------------------------------------------------
(* Types *)

ActionStatus == {"succeeded", "failed", "rejected", "precondition_failed", "frozen"}
DecisionState == {"absent", "pending", "approved", "rejected"}
PC == {"idle", "insert", "addKey", "autoInsert", "autoEnqueue", "approveSign",
       "approveKey", "approveUpdate", "rejectUpdate", "evict"}

Row == [state : DecisionState, key : Faults \cup {None},
        cmd : Commands \cup {None}, result : ActionStatus \cup {None}]
Task == [pc : PC, prop : Proposals \cup {None}, key : Faults \cup {None},
         cmd : Commands \cup {None}, evict : Faults \cup {None}]
Report == [cmd : Commands, status : ActionStatus]

NoRow == [state |-> "absent", key |-> None, cmd |-> None, result |-> None]
Idle  == [pc |-> "idle", prop |-> None, key |-> None, cmd |-> None, evict |-> None]

Elems(s) == {s[i] : i \in 1..Len(s)}

\* The variables hold values of their types.
TypeOK ==
  /\ row \in [Proposals -> Row]
  /\ pendingKeys \subseteq Faults
  /\ queue \in [Agents -> Seq(Commands)]
  /\ results \subseteq Commands
  /\ task \in [Workers -> Task]
  /\ cmdFor \in [Commands -> Proposals \cup {None}]
  /\ inbox \in [Agents -> Seq(Commands)]
  /\ report \in [Agents -> Report \cup {None}]
  /\ executed \subseteq Commands

Init ==
  /\ row = [p \in Proposals |-> NoRow]
  /\ pendingKeys = {}
  /\ queue = [a \in Agents |-> << >>]
  /\ results = {}
  /\ task = [w \in Workers |-> Idle]
  /\ cmdFor = [c \in Commands |-> None]
  /\ inbox = [a \in Agents |-> << >>]
  /\ report = [a \in Agents |-> None]
  /\ executed = {}

-----------------------------------------------------------------------------
(* Helpers *)

At(w, pc) == task[w].pc = pc
Goto(w, t) == task' = [task EXCEPT ![w] = t]
Finish(w) == Goto(w, Idle)

\* Uuid::now_v7: no row and no task in flight has the id yet.
FreshProposal(p) == row[p].state = "absent" /\ \A w \in Workers : task[w].prop # p
FreshCommand(c) == cmdFor[c] = None

Pending(p) == row[p].state = "pending"
Enqueue(a, c) == queue' = [queue EXCEPT ![a] = Append(@, c)]

\* A DB statement that takes a row from its old value to `new`, and where the
\* handler goes on success (`ok`). An "error" has no effect, a "lost_ack" has its
\* effect but is reported as an error; either way the handler gives up.
DbWrite(w, new, ok) ==
  \/ row' = new /\ Goto(w, ok)
  \/ "error" \in DbFaults /\ row' = row /\ Finish(w)
  \/ "lost_ack" \in DbFaults /\ row' = new /\ Finish(w)

-----------------------------------------------------------------------------
(* prepare: one spawned task per ingested message *)

\* Policy says `approve`: RemediationStore::insert up to its INSERT. A fault
\* whose key is cached is dropped here, so the action is simply not enabled.
PrepareApprove(w, k, p) ==
  /\ At(w, "idle")
  /\ k \notin pendingKeys
  /\ FreshProposal(p)
  /\ Goto(w, [Idle EXCEPT !.pc = "insert", !.prop = p, !.key = k])
  /\ UNCHANGED <<row, pendingKeys, queue, results, cmdFor, agentVars>>

InsertRow(w) ==
  LET t == task[w] IN
  /\ At(w, "insert")
  /\ DbWrite(w, [row EXCEPT ![t.prop] = [NoRow EXCEPT !.state = "pending", !.key = t.key]],
                [t EXCEPT !.pc = "addKey"])
  /\ UNCHANGED <<pendingKeys, queue, results, cmdFor, agentVars>>

\* The dedup cache is updated after the INSERT was acknowledged.
AddKey(w) ==
  /\ At(w, "addKey")
  /\ pendingKeys' = pendingKeys \cup {task[w].key}
  /\ Finish(w)
  /\ UNCHANGED <<row, queue, results, cmdFor, agentVars>>

\* (mutation of PrepareAuto: the command is enqueued before its row is written)
PrepareAutoEnqueueFirst(w, k, p, c) ==
  /\ At(w, "idle")
  /\ k \notin pendingKeys
  /\ FreshProposal(p) /\ FreshCommand(c)
  /\ cmdFor' = [cmdFor EXCEPT ![c] = p]
  /\ Enqueue(AgentOf[k], c)
  /\ Goto(w, [Idle EXCEPT !.pc = "autoInsert", !.prop = p, !.key = k, !.cmd = c])
  /\ UNCHANGED <<row, pendingKeys, results, agentVars>>

\* Policy says `auto`: auto_execute signs the command, then
\* insert_auto_approved looks at the cache and starts its INSERT. A fault with
\* a cached key stops there: the envelope is dropped.
PrepareAuto(w, k, p, c) ==
  /\ At(w, "idle")
  /\ k \notin pendingKeys
  /\ FreshProposal(p) /\ FreshCommand(c)
  /\ cmdFor' = [cmdFor EXCEPT ![c] = p]
  /\ Goto(w, [Idle EXCEPT !.pc = "autoInsert", !.prop = p, !.key = k, !.cmd = c])
  /\ UNCHANGED <<row, pendingKeys, queue, results, agentVars>>

AutoInsertRow(w) ==
  LET t == task[w] IN
  /\ At(w, "autoInsert")
  /\ DbWrite(w, [row EXCEPT ![t.prop] = [state |-> "approved", key |-> t.key,
                                         cmd |-> t.cmd, result |-> None]],
                [t EXCEPT !.pc = "autoEnqueue"])
  /\ UNCHANGED <<pendingKeys, queue, results, cmdFor, agentVars>>

AutoEnqueue(w) ==
  /\ At(w, "autoEnqueue")
  /\ Enqueue(AgentOf[task[w].key], task[w].cmd)
  /\ Finish(w)
  /\ UNCHANGED <<row, pendingKeys, results, cmdFor, agentVars>>

-----------------------------------------------------------------------------
(* POST /remediations/:id/approve *)

\* pending_proposal found the row; an unknown or decided id answers 404.
ApproveFetch(w, p) ==
  /\ At(w, "idle")
  /\ Pending(p)
  /\ Goto(w, [Idle EXCEPT !.pc = "approveSign", !.prop = p])
  /\ UNCHANGED <<row, pendingKeys, queue, results, cmdFor, agentVars>>

\* (mutation of ApproveIssue: the handler returns without calling store.approve)
ApproveIssueUnrecorded(w, c) ==
  LET p == task[w].prop IN
  /\ At(w, "approveSign")
  /\ FreshCommand(c)
  /\ cmdFor' = [cmdFor EXCEPT ![c] = p]
  /\ Enqueue(AgentOf[row[p].key], c)
  /\ Finish(w)
  /\ UNCHANGED <<row, pendingKeys, results, agentVars>>

\* The command is signed and enqueued before anything is written to Postgres.
ApproveIssue(w, c) ==
  LET p == task[w].prop IN
  /\ At(w, "approveSign")
  /\ FreshCommand(c)
  /\ cmdFor' = [cmdFor EXCEPT ![c] = p]
  /\ Enqueue(AgentOf[row[p].key], c)
  /\ Goto(w, [task[w] EXCEPT !.pc = "approveKey", !.cmd = c])
  /\ UNCHANGED <<row, pendingKeys, results, agentVars>>

\* The template is no longer loaded (409), or the command cannot be built (500).
ApproveRefused(w) ==
  /\ At(w, "approveSign")
  /\ Finish(w)
  /\ UNCHANGED <<row, pendingKeys, queue, results, cmdFor, agentVars>>

\* The key that store.approve and store.reject will evict: `.ok().flatten()`
\* turns a failed read into "nothing to evict".
MaybeKey(p) ==
  {IF Pending(p) THEN row[p].key ELSE None} \cup
  (IF "error" \in DbFaults THEN {None} ELSE {})

ApproveReadKey(w) ==
  /\ At(w, "approveKey")
  /\ \E k \in MaybeKey(task[w].prop) :
       Goto(w, [task[w] EXCEPT !.pc = "approveUpdate", !.evict = k])
  /\ UNCHANGED <<row, pendingKeys, queue, results, cmdFor, agentVars>>

\* (mutation of ApproveUpdate: no AND decision_state = 'pending')
ApproveUpdateUnguarded(w) ==
  LET t == task[w] IN
  /\ At(w, "approveUpdate")
  /\ DbWrite(w, [row EXCEPT ![t.prop].state = "approved", ![t.prop].cmd = t.cmd],
                IF t.evict = None THEN Idle ELSE [t EXCEPT !.pc = "evict"])
  /\ UNCHANGED <<pendingKeys, queue, results, cmdFor, agentVars>>

\* UPDATE ... WHERE decision_state = 'pending': a row decided meanwhile is left
\* alone, and the handler still answers 200.
ApproveUpdate(w) ==
  LET t == task[w] IN
  /\ At(w, "approveUpdate")
  /\ IF Pending(t.prop)
       THEN DbWrite(w, [row EXCEPT ![t.prop].state = "approved", ![t.prop].cmd = t.cmd],
                       IF t.evict = None THEN Idle ELSE [t EXCEPT !.pc = "evict"])
       ELSE Finish(w) /\ row' = row
  /\ UNCHANGED <<pendingKeys, queue, results, cmdFor, agentVars>>

Evict(w) ==
  /\ At(w, "evict")
  /\ pendingKeys' = pendingKeys \ {task[w].evict}
  /\ Finish(w)
  /\ UNCHANGED <<row, queue, results, cmdFor, agentVars>>

(* POST /remediations/:id/reject *)

RejectReadKey(w, p) ==
  /\ At(w, "idle")
  /\ row[p].state # "absent"
  /\ \E k \in MaybeKey(p) :
       Goto(w, [Idle EXCEPT !.pc = "rejectUpdate", !.prop = p, !.evict = k])
  /\ UNCHANGED <<row, pendingKeys, queue, results, cmdFor, agentVars>>

\* UPDATE ... WHERE proposal_id = $1, whatever state the row is in.
RejectUpdate(w) ==
  LET t == task[w] IN
  /\ At(w, "rejectUpdate")
  /\ DbWrite(w, [row EXCEPT ![t.prop].state = "rejected"],
                IF t.evict = None THEN Idle ELSE [t EXCEPT !.pc = "evict"])
  /\ UNCHANGED <<pendingKeys, queue, results, cmdFor, agentVars>>

-----------------------------------------------------------------------------
(* The command channel *)

\* (mutation of Pull: the queue is read but not drained)
PullWithoutDrain(a) ==
  /\ inbox[a] = << >> /\ report[a] = None
  /\ queue[a] # << >>
  /\ inbox' = [inbox EXCEPT ![a] = queue[a]]
  /\ UNCHANGED <<row, pendingKeys, queue, results, task, cmdFor, report, executed>>

\* GET /agents/:id/commands drains the queue before the response is on its way;
\* a response that does not arrive takes its commands with it.
Pull(a) ==
  /\ inbox[a] = << >> /\ report[a] = None
  /\ queue[a] # << >>
  /\ queue' = [queue EXCEPT ![a] = << >>]
  /\ \/ inbox' = [inbox EXCEPT ![a] = queue[a]]
     \/ "message_loss" \in EnvFaults /\ inbox' = inbox
  /\ UNCHANGED <<row, pendingKeys, results, task, cmdFor, report, executed>>

\* process_command on the next envelope of the batch: the actuator acted on it
\* (whatever came of that), or it was refused, did not meet its preconditions or
\* could not be dispatched, or the ledger write failed and it is skipped without
\* a report.
Process(a) ==
  LET c == Head(inbox[a])
      Report1(status) == report' = [report EXCEPT ![a] = [cmd |-> c, status |-> status]]
  IN
  /\ inbox[a] # << >> /\ report[a] = None
  /\ inbox' = [inbox EXCEPT ![a] = Tail(@)]
  /\ \/ /\ executed' = executed \cup {c}
        /\ \E status \in {"succeeded", "failed", "frozen"} : Report1(status)
     \/ /\ \E status \in {"failed", "rejected", "precondition_failed"} : Report1(status)
        /\ UNCHANGED executed
     \/ UNCHANGED <<report, executed>>
  /\ UNCHANGED serverVars

\* post_command_result: UPDATE ... WHERE command_id, then CommandQueue.results.
\* The agent only logs a POST that fails.
Post(a) ==
  LET r == report[a]
      Closed == [p \in Proposals |->
                   IF row[p].cmd = r.cmd THEN [row[p] EXCEPT !.result = r.status] ELSE row[p]]
  IN
  /\ r # None
  /\ report' = [report EXCEPT ![a] = None]
  /\ \/ /\ \/ row' = Closed
           \/ "error" \in DbFaults /\ row' = row
        /\ results' = results \cup {r.cmd}
     \/ /\ "message_loss" \in EnvFaults
        /\ UNCHANGED <<row, results>>
  /\ UNCHANGED <<pendingKeys, queue, task, cmdFor, inbox, executed>>

-----------------------------------------------------------------------------
(* Crashes *)

\* Everything in memory goes; RemediationStore::new rebuilds the dedup cache.
ServerRestart ==
  /\ "server_restart" \in EnvFaults
  /\ task' = [w \in Workers |-> Idle]
  /\ queue' = [a \in Agents |-> << >>]
  /\ results' = {}
  /\ pendingKeys' = {row[p].key : p \in {q \in Proposals : Pending(q)}}
  /\ UNCHANGED <<row, cmdFor, agentVars>>

AgentCrash(a) ==
  /\ "agent_crash" \in EnvFaults
  /\ inbox' = [inbox EXCEPT ![a] = << >>]
  /\ report' = [report EXCEPT ![a] = None]
  /\ UNCHANGED <<serverVars, executed>>

-----------------------------------------------------------------------------
\* The steps a handler takes once it is running.
HandlerStep(w) ==
  \/ InsertRow(w) \/ AddKey(w)
  \/ AutoInsertRow(w) \/ AutoEnqueue(w)
  \/ \E c \in Commands : ApproveIssue(w, c)
  \/ ApproveRefused(w)
  \/ ApproveReadKey(w) \/ ApproveUpdate(w) \/ Evict(w)
  \/ RejectUpdate(w)

\* What makes a worker start a handler: an ingested message or an operator.
HandlerStart(w) ==
  \/ \E k \in Faults, p \in Proposals : PrepareApprove(w, k, p)
  \/ \E k \in Faults, p \in Proposals, c \in Commands : PrepareAuto(w, k, p, c)
  \/ \E p \in Proposals : ApproveFetch(w, p) \/ RejectReadKey(w, p)

AgentStep(a) == Pull(a) \/ Process(a) \/ Post(a)

Next ==
  \/ \E w \in Workers : HandlerStart(w) \/ HandlerStep(w)
  \/ \E a \in Agents : AgentStep(a) \/ AgentCrash(a)
  \/ ServerRestart

Spec == Init /\ [][Next]_vars

\* The tokio runtime keeps polling a ready task, and an agent's poll loop never
\* ends. Nothing forces a fault, an operator or a crash to happen.
FairSpec ==
  /\ Spec
  /\ \A w \in Workers : WF_vars(HandlerStep(w))
  /\ \A a \in Agents : WF_vars(AgentStep(a))

-----------------------------------------------------------------------------
(* Properties *)

\* The commands that are on their way: queued, pulled, or about to be reported.
Queued(c)   == \E a \in Agents : c \in Elems(queue[a])
Held(c)     == \E a \in Agents : c \in Elems(inbox[a])
Reporting(c) == \E a \in Agents : report[a] # None /\ report[a].cmd = c
InFlight(c) == Queued(c) \/ Held(c) \/ Reporting(c)

\* No command is ever queued, pulled, executed or reported unless the proposal it
\* was signed for has its row in the audit table: auto_execute enqueues only after
\* its INSERT, approve_remediation only after it read the row.
IssuedIsAudited ==
  \A c \in Commands :
    (InFlight(c) \/ c \in executed \/ c \in results) =>
      cmdFor[c] # None /\ row[cmdFor[c]].state # "absent"

\* The audit row never overstates: its command is one that was signed for this
\* very proposal, an approved row names its command, and a recorded success or
\* freeze is that of a command the actuator did act on.
AuditIsTruthful ==
  \A p \in Proposals :
    /\ row[p].cmd # None => cmdFor[row[p].cmd] = p
    /\ row[p].state = "approved" => row[p].cmd # None
    /\ row[p].result # None => row[p].cmd # None
    /\ row[p].result \in {"succeeded", "frozen"} => row[p].cmd \in executed

\* The audit table seen alone: what module AuditTrail promises of it.
AuditView ==
  [p \in Proposals |-> [state |-> row[p].state, cmd |-> row[p].cmd, result |-> row[p].result]]

Trail == INSTANCE AuditTrail WITH trail <- AuditView

\* Whatever the handlers, the agents and the faults do to it, the table only goes
\* through the transitions of AuditTrail: rows are never deleted nor made pending
\* again, a command and a result are written once.
AuditTrailSpec == Trail!Spec

\* RemediationStore.pending_keys: once no handler is running, the cache is exactly
\* the keys of the pending rows. A key left behind silences its fault for good.
CacheInSync ==
  (\A w \in Workers : At(w, "idle")) =>
    pendingKeys = {row[p].key : p \in {q \in Proposals : Pending(q)}}

\* Decision::Rejected, "not executed": no command of a rejected proposal has run.
RejectedNotExecuted ==
  \A c \in executed : row[cmdFor[c]].state # "rejected"

\* A proposal is decided once, so at most one command of it ever runs.
OneExecutionPerProposal ==
  \A c, d \in executed : cmdFor[c] = cmdFor[d] => c = d

\* Every command that is on its way is eventually dealt with: the agent pulls,
\* processes and reports it, or it is lost.
CommandsDrain == \A c \in Commands : InFlight(c) ~> ~InFlight(c)

\* A proposal that a command was signed for does not stay undecided.
IssuedIsDecided ==
  \A c \in Commands :
    Queued(c) ~> (cmdFor[c] # None /\ row[cmdFor[c]].state \in {"approved", "rejected"})
=============================================================================
