--------------------- MODULE RemediationLifecycleProofs ---------------------
(***************************************************************************)
(* RemediationLifecycle keeps its types, never lets a command out without  *)
(* an audit row, and never writes a row that overstates what happened: for *)
(* any number of proposals, commands, faults, agents and concurrent        *)
(* handlers, and whatever subset of the faults is enabled. Its audit table *)
(* is the one AuditTrail specifies. The last part says when the claims     *)
(* that the violation runs refute do hold.                                 *)
(***************************************************************************)
EXTENDS RemediationLifecycle, TLAPS

(***************************************************************************)
(* The inductive invariant. The three properties are not inductive alone:  *)
(* they need what a handler remembers across an await to be still true of  *)
(* the rows when it resumes (TaskOK), rows to carry a fault (RowOK), and a *)
(* report of success to be about an executed command (ReportOK).           *)
(***************************************************************************)

\* What a handler t carries from one of its awaits to the next, given the rows rw
\* and the signed commands cf.
Carries(t, rw, cf) ==
  /\ t.pc \in {"insert", "addKey", "autoInsert", "autoEnqueue"} =>
       t.prop \in Proposals /\ t.key \in Faults
  /\ t.pc \in {"autoInsert", "autoEnqueue", "approveKey", "approveUpdate"} =>
       t.cmd \in Commands /\ cf[t.cmd] = t.prop /\ t.prop \in Proposals
  /\ t.pc \in {"autoEnqueue", "approveSign", "approveKey", "approveUpdate", "rejectUpdate"} =>
       t.prop \in Proposals /\ rw[t.prop].state # "absent"

TaskOK == \A w \in Workers : Carries(task[w], row, cmdFor)

RowOK ==
  \A p \in Proposals :
    /\ row[p].state # "absent" => row[p].key \in Faults
    /\ row[p].state \in {"absent", "pending"} => row[p].cmd = None

ReportOK ==
  \A a \in Agents : report[a] # None /\ report[a].status \in {"succeeded", "frozen"} =>
    report[a].cmd \in executed

\* A command that is out has a signed-for proposal with a row.
Audited(c) == cmdFor[c] # None /\ row[cmdFor[c]].state # "absent"

OutOK ==
  /\ \A a \in Agents : \A i \in 1..Len(queue[a]) : Audited(queue[a][i])
  /\ \A a \in Agents : \A i \in 1..Len(inbox[a]) : Audited(inbox[a][i])
  /\ \A a \in Agents : report[a] # None => Audited(report[a].cmd)
  /\ \A c \in executed \cup results : Audited(c)

IInv == TypeOK /\ TaskOK /\ RowOK /\ ReportOK /\ OutOK /\ AuditIsTruthful

-----------------------------------------------------------------------------
USE LifecycleAssumption

\* A record of the right fields is an audit row.
LEMMA RowType ==
  ASSUME NEW s \in DecisionState, NEW k \in Faults \cup {None},
         NEW c \in Commands \cup {None}, NEW r \in ActionStatus \cup {None}
  PROVE  [state |-> s, key |-> k, cmd |-> c, result |-> r] \in Row
BY DEF Row

\* An empty table and a freshly started server satisfy the invariant.
LEMMA InitIInv == Init => IInv
<1> SUFFICES ASSUME Init PROVE IInv
  OBVIOUS
<1>1. TypeOK
  BY DEF Init, TypeOK, NoRow, Idle, Row, Task, DecisionState, PC
<1>2. QED
  BY <1>1 DEF Init, IInv, TaskOK, Carries, RowOK, ReportOK, OutOK, AuditIsTruthful, NoRow, Idle, Audited

\* What is still true of the rows and of the signed commands after a step, and so
\* of what the handlers that did not move carry.
Grows ==
  /\ \A q \in Proposals : row[q].state # "absent" => row'[q].state # "absent"
  /\ \A d \in Commands : cmdFor[d] # None => cmdFor'[d] = cmdFor[d]

\* If one handler moves and the rows and commands only grow, all handlers carry
\* what they should.
LEMMA TaskMoves ==
  ASSUME IInv, NEW w \in Workers, NEW u \in Task, task' = [task EXCEPT ![w] = u],
         Grows, Carries(u, row', cmdFor')
  PROVE  task' \in [Workers -> Task] /\ TaskOK'
<1>1. task' \in [Workers -> Task]
  BY DEF IInv, TypeOK
<1>2. ASSUME NEW v \in Workers PROVE Carries(task'[v], row', cmdFor')
  <2>1. CASE v = w
    BY <2>1 DEF IInv, TypeOK
  <2>2. CASE v # w
    <3>1. task'[v] = task[v] /\ Carries(task[v], row, cmdFor)
      BY <2>2 DEF IInv, TypeOK, TaskOK
    <3>2. QED
      BY <3>1 DEF Grows, Carries
  <2>3. QED
    BY <2>1, <2>2
<1>3. QED
  BY <1>1, <1>2 DEF TaskOK

\* A worker that is in no handler carries nothing.
LEMMA IdleCarries == Idle \in Task /\ \A rw, cf : Carries(Idle, rw, cf)
BY DEF Idle, Task, PC, Carries

\* One step of any handler, agent or fault keeps the invariant: one case per
\* action, and under it the parts of the invariant that the action touches.
LEMMA PrepareApproveStep ==
  ASSUME IInv, NEW w \in Workers, NEW k \in Faults, NEW p \in Proposals, PrepareApprove(w, k, p)
  PROVE  IInv'
<1>1. TypeOK'
  BY DEF IInv, TypeOK, PrepareApprove, Goto, Idle, Task, PC, agentVars
<1>2. TaskOK'
  BY DEF IInv, TypeOK, TaskOK, Carries, PrepareApprove, Goto, Idle, Task, PC, agentVars
<1>3. (RowOK /\ ReportOK /\ OutOK /\ AuditIsTruthful)'
  BY DEF IInv, RowOK, ReportOK, OutOK, AuditIsTruthful, Audited, PrepareApprove, agentVars
<1>4. QED
  BY <1>1, <1>2, <1>3 DEF IInv

\* A statement that writes the row of p, leaves it alone, or fails: all it takes
\* to show that the rest of the invariant survives.
Wrote(p, r) ==
  /\ row' \in [Proposals -> Row]
  /\ \A q \in Proposals : row'[q] = row[q] \/ (q = p /\ row'[q] = r)

\* Either outcome of a statement on row p leaves the other rows alone.
LEMMA WriteRow ==
  ASSUME IInv, NEW p \in Proposals, NEW r \in Row,
         row' = row \/ row' = [row EXCEPT ![p] = r]
  PROVE  Wrote(p, r)
BY DEF IInv, TypeOK, Wrote

\* Writing the row of p keeps what is known of the commands that are out.
LEMMA WroteKeeps ==
  ASSUME IInv, NEW p \in Proposals, NEW r \in Row, Wrote(p, r), r.state # "absent",
         UNCHANGED <<queue, results, cmdFor, inbox, report, executed>>
  PROVE  /\ \A q \in Proposals : row[q].state # "absent" => row'[q].state # "absent"
         /\ (ReportOK /\ OutOK)'
<1>1. \A q \in Proposals : row[q].state # "absent" => row'[q].state # "absent"
  BY DEF Wrote
<1>2. \A c \in Commands : Audited(c) => Audited(c)'
  BY <1>1 DEF IInv, TypeOK, Audited
<1>3. ReportOK'
  BY DEF IInv, ReportOK
<1>4. OutOK'
  BY <1>2 DEF IInv, TypeOK, Report, OutOK
<1>5. QED
  BY <1>1, <1>3, <1>4

\* insert_remediation: the row appears as pending and names no command.
LEMMA InsertRowStep ==
  ASSUME IInv, NEW w \in Workers, InsertRow(w)
  PROVE  IInv'
<1> DEFINE t == task[w]
<1> DEFINE r == [NoRow EXCEPT !.state = "pending", !.key = t.key]
<1>1. /\ t \in Task /\ t.pc = "insert" /\ t.prop \in Proposals /\ t.key \in Faults
      /\ UNCHANGED <<pendingKeys, queue, results, cmdFor, inbox, report, executed>>
  BY DEF IInv, TypeOK, TaskOK, Carries, InsertRow, At, Task, agentVars
<1>2. row' = row \/ row' = [row EXCEPT ![t.prop] = r]
  BY DEF InsertRow, DbWrite
<1>3. task' = [task EXCEPT ![w] = Idle] \/ task' = [task EXCEPT ![w] = [t EXCEPT !.pc = "addKey"]]
  BY DEF InsertRow, DbWrite, Goto, Finish
<1>4. r \in Row /\ r.state = "pending" /\ r.key \in Faults /\ r.cmd = None /\ r.result = None
  BY <1>1 DEF NoRow, Row, DecisionState
<1> HIDE DEF r
<1>5. Wrote(t.prop, r)
  BY <1>1, <1>2, <1>4, WriteRow
<1>6. /\ \A q \in Proposals : row[q].state # "absent" => row'[q].state # "absent"
      /\ (ReportOK /\ OutOK)'
  BY <1>1, <1>4, <1>5, WroteKeeps
<1>7. PICK u \in Task : task' = [task EXCEPT ![w] = u] /\ Carries(u, row', cmdFor')
  <2>1. [t EXCEPT !.pc = "addKey"] \in Task /\ Carries([t EXCEPT !.pc = "addKey"], row', cmdFor')
    BY <1>1 DEF Task, PC, Carries
  <2>2. QED
    BY <1>3, <2>1, IdleCarries
<1>8. task' \in [Workers -> Task] /\ TaskOK' /\ TypeOK'
  <2>1. Grows
    BY <1>1, <1>6 DEF Grows
  <2>2. QED
    BY <1>1, <1>5, <1>7, <2>1, TaskMoves DEF IInv, TypeOK, Wrote
<1>9. (RowOK /\ AuditIsTruthful)'
  BY <1>1, <1>4, <1>5 DEF IInv, RowOK, AuditIsTruthful, Wrote
<1>10. QED
  BY <1>6, <1>8, <1>9 DEF IInv

\* The dedup cache takes the key of the inserted proposal.
LEMMA AddKeyStep ==
  ASSUME IInv, NEW w \in Workers, AddKey(w)
  PROVE  IInv'
<1>1. TypeOK'
  BY DEF IInv, TypeOK, TaskOK, Carries, AddKey, At, Finish, Goto, Idle, Task, PC, agentVars
<1>2. TaskOK'
  BY DEF IInv, TypeOK, TaskOK, Carries, AddKey, Finish, Goto, Idle, agentVars
<1>3. (RowOK /\ ReportOK /\ OutOK /\ AuditIsTruthful)'
  BY DEF IInv, RowOK, ReportOK, OutOK, AuditIsTruthful, Audited, AddKey, agentVars
<1>4. QED
  BY <1>1, <1>2, <1>3 DEF IInv

\* Signing a fresh command changes cmdFor at that command only, which no row, no
\* task and nobody on the way mentions yet.
LEMMA SignKeeps ==
  ASSUME IInv, NEW c \in Commands, NEW p \in Proposals, FreshCommand(c),
         cmdFor' = [cmdFor EXCEPT ![c] = p], row' = row
  PROVE  /\ cmdFor' \in [Commands -> Proposals \cup {None}]
         /\ \A d \in Commands : Audited(d) => Audited(d)'
         /\ \A d \in Commands : cmdFor[d] # None => cmdFor'[d] = cmdFor[d]
         /\ cmdFor'[c] = p
BY DEF IInv, TypeOK, FreshCommand, Audited

\* auto_execute signs its command; nothing is out yet.
LEMMA PrepareAutoStep ==
  ASSUME IInv, NEW w \in Workers, NEW k \in Faults, NEW p \in Proposals, NEW c \in Commands,
         PrepareAuto(w, k, p, c)
  PROVE  IInv'
<1>1. /\ FreshCommand(c) /\ cmdFor' = [cmdFor EXCEPT ![c] = p]
      /\ task' = [task EXCEPT ![w] = [Idle EXCEPT !.pc = "autoInsert", !.prop = p, !.key = k, !.cmd = c]]
      /\ UNCHANGED <<row, pendingKeys, queue, results, inbox, report, executed>>
  BY DEF PrepareAuto, Goto, agentVars
<1>2. /\ cmdFor' \in [Commands -> Proposals \cup {None}]
      /\ \A d \in Commands : Audited(d) => Audited(d)'
      /\ \A d \in Commands : cmdFor[d] # None => cmdFor'[d] = cmdFor[d]
      /\ cmdFor'[c] = p
  BY <1>1, SignKeeps
<1>3. TypeOK'
  BY <1>1, <1>2 DEF IInv, TypeOK, Idle, Task, PC
<1>4. TaskOK'
  BY <1>1, <1>2 DEF IInv, TypeOK, TaskOK, Carries, Idle, Task, PC
<1>5. (RowOK /\ ReportOK)'
  BY <1>1 DEF IInv, RowOK, ReportOK
<1>6. AuditIsTruthful'
  BY <1>1, <1>2 DEF IInv, TypeOK, Row, AuditIsTruthful
<1>7. OutOK'
  BY <1>1, <1>2 DEF IInv, TypeOK, Report, OutOK
<1>8. QED
  BY <1>3, <1>4, <1>5, <1>6, <1>7 DEF IInv

\* insert_auto_approved_remediation: the row appears with its command, before the
\* queue has it.
LEMMA AutoInsertRowStep ==
  ASSUME IInv, NEW w \in Workers, AutoInsertRow(w)
  PROVE  IInv'
<1> DEFINE t == task[w]
<1> DEFINE r == [state |-> "approved", key |-> t.key, cmd |-> t.cmd, result |-> None]
<1>1. /\ t \in Task /\ t.pc = "autoInsert" /\ t.prop \in Proposals /\ t.key \in Faults
      /\ t.cmd \in Commands /\ cmdFor[t.cmd] = t.prop
      /\ UNCHANGED <<pendingKeys, queue, results, cmdFor, inbox, report, executed>>
  BY DEF IInv, TypeOK, TaskOK, Carries, AutoInsertRow, At, Task, agentVars
<1>2. row' = row \/ row' = [row EXCEPT ![t.prop] = r]
  BY DEF AutoInsertRow, DbWrite
<1>3. \/ task' = [task EXCEPT ![w] = Idle]
      \/ /\ row' = [row EXCEPT ![t.prop] = r]
         /\ task' = [task EXCEPT ![w] = [t EXCEPT !.pc = "autoEnqueue"]]
  BY DEF AutoInsertRow, DbWrite, Goto, Finish
<1>4. /\ r \in Row /\ r.state = "approved" /\ r.key \in Faults
      /\ r.cmd = t.cmd /\ r.result = None
  BY <1>1 DEF Row, DecisionState
<1> HIDE DEF r
<1>5. Wrote(t.prop, r)
  BY <1>1, <1>2, <1>4, WriteRow
<1>6. /\ \A q \in Proposals : row[q].state # "absent" => row'[q].state # "absent"
      /\ (ReportOK /\ OutOK)'
  BY <1>1, <1>4, <1>5, WroteKeeps
<1>7. row' = [row EXCEPT ![t.prop] = r] => row'[t.prop].state # "absent"
  BY <1>1, <1>4 DEF IInv, TypeOK
<1>8. PICK u \in Task : task' = [task EXCEPT ![w] = u] /\ Carries(u, row', cmdFor')
  <2> DEFINE u == [t EXCEPT !.pc = "autoEnqueue"]
  <2>1. u \in Task /\ (row'[t.prop].state # "absent" => Carries(u, row', cmdFor'))
    BY <1>1 DEF Task, PC, Carries
  <2>2. QED
    BY <1>3, <1>7, <2>1, IdleCarries
<1>9. TaskOK' /\ TypeOK'
  <2>1. Grows
    BY <1>1, <1>6 DEF Grows
  <2>2. QED
    BY <1>1, <1>5, <1>8, <2>1, TaskMoves DEF IInv, TypeOK, Wrote
<1>10. (RowOK /\ AuditIsTruthful)'
  BY <1>1, <1>4, <1>5 DEF IInv, RowOK, AuditIsTruthful, Wrote
<1>11. QED
  BY <1>6, <1>9, <1>10 DEF IInv

\* CommandQueue::enqueue adds one command to one queue.
LEMMA EnqueueKeeps ==
  ASSUME IInv, NEW a \in Agents, NEW c \in Commands, Enqueue(a, c)
  PROVE  /\ queue' \in [Agents -> Seq(Commands)]
         /\ \A b \in Agents : \A i \in 1..Len(queue'[b]) :
              queue'[b][i] = c \/ (i \in 1..Len(queue[b]) /\ queue'[b][i] = queue[b][i])
BY DEF IInv, TypeOK, Enqueue

\* auto_execute enqueues a command whose row is written.
LEMMA AutoEnqueueStep ==
  ASSUME IInv, NEW w \in Workers, AutoEnqueue(w)
  PROVE  IInv'
<1> DEFINE t == task[w]
<1> DEFINE a == AgentOf[t.key]
<1>1. /\ t.prop \in Proposals /\ t.key \in Faults /\ a \in Agents
      /\ t.cmd \in Commands /\ cmdFor[t.cmd] = t.prop /\ row[t.prop].state # "absent"
      /\ UNCHANGED <<row, pendingKeys, results, cmdFor, agentVars>>
      /\ Enqueue(a, t.cmd) /\ task' = [task EXCEPT ![w] = Idle]
  BY DEF IInv, TypeOK, TaskOK, Carries, AutoEnqueue, At, Task, Finish, Goto
<1>2. /\ queue' \in [Agents -> Seq(Commands)]
      /\ \A b \in Agents : \A i \in 1..Len(queue'[b]) :
           queue'[b][i] = t.cmd \/ (i \in 1..Len(queue[b]) /\ queue'[b][i] = queue[b][i])
  BY <1>1, EnqueueKeeps
<1>3. TypeOK'
  BY <1>1, <1>2 DEF IInv, TypeOK, Idle, Task, PC, agentVars
<1>4. TaskOK'
  BY <1>1 DEF IInv, TypeOK, TaskOK, Carries, Idle
<1>5. (RowOK /\ ReportOK /\ AuditIsTruthful)'
  BY <1>1 DEF IInv, RowOK, ReportOK, AuditIsTruthful, agentVars
<1>6. Audited(t.cmd)
  BY <1>1 DEF Audited
<1>7. \A c : Audited(c) => Audited(c)'
  BY <1>1 DEF Audited
<1>8. OutOK'
  BY <1>1, <1>2, <1>6, <1>7 DEF IInv, OutOK, agentVars
<1>9. QED
  BY <1>3, <1>4, <1>5, <1>8 DEF IInv

\* A step that moves a handler, and at most takes a key from the cache.
LEMMA OnlyTaskMoves ==
  ASSUME IInv, NEW w \in Workers, NEW u \in Task, task' = [task EXCEPT ![w] = u],
         Carries(u, row, cmdFor), pendingKeys' \subseteq pendingKeys,
         UNCHANGED <<row, queue, results, cmdFor, agentVars>>
  PROVE  IInv'
<1>1. Grows /\ Carries(u, row', cmdFor')
  BY DEF Grows
<1>2. TaskOK' /\ TypeOK'
  BY <1>1, TaskMoves DEF IInv, TypeOK, agentVars
<1>3. (RowOK /\ ReportOK /\ OutOK /\ AuditIsTruthful)'
  BY DEF IInv, RowOK, ReportOK, OutOK, AuditIsTruthful, Audited, agentVars
<1>4. QED
  BY <1>2, <1>3 DEF IInv

\* approve_remediation has read a row, so the row exists from now on.
LEMMA ApproveFetchStep ==
  ASSUME IInv, NEW w \in Workers, NEW p \in Proposals, ApproveFetch(w, p)
  PROVE  IInv'
<1> DEFINE u == [Idle EXCEPT !.pc = "approveSign", !.prop = p]
<1>1. row[p].state # "absent"
  BY DEF ApproveFetch, Pending
<1>2. u \in Task /\ Carries(u, row, cmdFor)
  BY <1>1 DEF Idle, Task, PC, Carries
<1>3. QED
  BY <1>2, OnlyTaskMoves DEF ApproveFetch, Goto

\* An approval that is refused leaves everything alone.
LEMMA ApproveRefusedStep ==
  ASSUME IInv, NEW w \in Workers, ApproveRefused(w)
  PROVE  IInv'
BY IdleCarries, OnlyTaskMoves DEF ApproveRefused, Finish, Goto

\* Evicting a key leaves the rows and the commands alone.
LEMMA EvictStep ==
  ASSUME IInv, NEW w \in Workers, Evict(w)
  PROVE  IInv'
<1>1. pendingKeys' \subseteq pendingKeys
  BY DEF Evict
<1>2. QED
  BY <1>1, IdleCarries, OnlyTaskMoves DEF Evict, Finish, Goto

\* The key read for eviction is a fault or nothing.
LEMMA MaybeKeyType ==
  ASSUME IInv, NEW p \in Proposals, NEW k \in MaybeKey(p)
  PROVE  k \in Faults \cup {None}
BY DEF IInv, TypeOK, Row, MaybeKey

\* Reading the key to evict changes only what the handler carries.
LEMMA ApproveReadKeyStep ==
  ASSUME IInv, NEW w \in Workers, ApproveReadKey(w)
  PROVE  IInv'
<1> DEFINE t == task[w]
<1>1. t \in Task /\ t.pc = "approveKey" /\ Carries(t, row, cmdFor) /\ t.prop \in Proposals
  BY DEF IInv, TypeOK, TaskOK, Carries, ApproveReadKey, At
<1>2. PICK k \in MaybeKey(t.prop) : task' = [task EXCEPT ![w] = [t EXCEPT !.pc = "approveUpdate", !.evict = k]]
  BY DEF ApproveReadKey, Goto
<1> DEFINE u == [t EXCEPT !.pc = "approveUpdate", !.evict = k]
<1>3. u \in Task /\ Carries(u, row, cmdFor)
  BY <1>1, MaybeKeyType DEF Task, PC, Carries
<1>4. QED
  BY <1>2, <1>3, OnlyTaskMoves DEF ApproveReadKey

\* reject_remediation has read a row, so the row exists from now on.
LEMMA RejectReadKeyStep ==
  ASSUME IInv, NEW w \in Workers, NEW p \in Proposals, RejectReadKey(w, p)
  PROVE  IInv'
<1>1. PICK k \in MaybeKey(p) :
        task' = [task EXCEPT ![w] = [Idle EXCEPT !.pc = "rejectUpdate", !.prop = p, !.evict = k]]
  BY DEF RejectReadKey, Goto
<1> DEFINE u == [Idle EXCEPT !.pc = "rejectUpdate", !.prop = p, !.evict = k]
<1>2. u \in Task /\ Carries(u, row, cmdFor)
  BY MaybeKeyType DEF RejectReadKey, Idle, Task, PC, Carries
<1>3. QED
  BY <1>1, <1>2, OnlyTaskMoves DEF RejectReadKey

\* approve_remediation enqueues a command for a row that exists, though still
\* pending.
LEMMA ApproveIssueStep ==
  ASSUME IInv, NEW w \in Workers, NEW c \in Commands, ApproveIssue(w, c)
  PROVE  IInv'
<1> DEFINE t == task[w]
<1> DEFINE p == t.prop
<1> DEFINE a == AgentOf[row[p].key]
<1> DEFINE u == [t EXCEPT !.pc = "approveKey", !.cmd = c]
<1>1. /\ t \in Task /\ p \in Proposals /\ row[p].state # "absent" /\ row[p].key \in Faults
      /\ a \in Agents
  BY DEF IInv, TypeOK, TaskOK, RowOK, Carries, ApproveIssue, At
<1>2. /\ FreshCommand(c) /\ cmdFor' = [cmdFor EXCEPT ![c] = p] /\ Enqueue(a, c)
      /\ task' = [task EXCEPT ![w] = u]
      /\ UNCHANGED <<row, pendingKeys, results, inbox, report, executed>>
  BY DEF ApproveIssue, Goto, agentVars
<1>3. /\ cmdFor' \in [Commands -> Proposals \cup {None}]
      /\ \A d \in Commands : Audited(d) => Audited(d)'
      /\ \A d \in Commands : cmdFor[d] # None => cmdFor'[d] = cmdFor[d]
      /\ cmdFor'[c] = p
  BY <1>1, <1>2, SignKeeps
<1>4. /\ queue' \in [Agents -> Seq(Commands)]
      /\ \A b \in Agents : \A i \in 1..Len(queue'[b]) :
           queue'[b][i] = c \/ (i \in 1..Len(queue[b]) /\ queue'[b][i] = queue[b][i])
  BY <1>1, <1>2, EnqueueKeeps
<1>5. u \in Task /\ Carries(u, row', cmdFor')
  BY <1>1, <1>2, <1>3 DEF Task, PC, Carries
<1>6. TaskOK' /\ TypeOK'
  <2>1. Grows
    BY <1>2, <1>3 DEF Grows
  <2> HIDE DEF u, a
  <2>2. QED
    BY <1>2, <1>3, <1>4, <1>5, <2>1, TaskMoves DEF IInv, TypeOK
<1>7. (RowOK /\ ReportOK)'
  BY <1>2 DEF IInv, RowOK, ReportOK
<1>8. AuditIsTruthful'
  BY <1>2, <1>3 DEF IInv, TypeOK, Row, AuditIsTruthful
<1>9. Audited(c)'
  BY <1>1, <1>2, <1>3 DEF Audited
<1>10. OutOK'
  <2>1. \A b \in Agents : \A i \in 1..Len(queue[b]) : queue[b][i] \in Commands
    BY DEF IInv, TypeOK
  <2>2. \A b \in Agents : \A i \in 1..Len(inbox[b]) : inbox[b][i] \in Commands
    BY DEF IInv, TypeOK
  <2>3. \A b \in Agents : report[b] # None => report[b].cmd \in Commands
    BY DEF IInv, TypeOK, Report
  <2>4. executed \cup results \subseteq Commands
    BY DEF IInv, TypeOK
  <2>5. (\A b \in Agents : \A i \in 1..Len(queue[b]) : Audited(queue[b][i]))'
    <3>1. ASSUME NEW b \in Agents, NEW i \in 1..Len(queue'[b])
          PROVE  cmdFor'[queue'[b][i]] # None /\ row'[cmdFor'[queue'[b][i]]].state # "absent"
      <4>1. CASE queue'[b][i] = c
        BY <1>9, <4>1 DEF Audited
      <4>2. CASE i \in 1..Len(queue[b]) /\ queue'[b][i] = queue[b][i]
        BY <1>3, <2>1, <4>2 DEF IInv, OutOK, Audited
      <4>3. QED
        BY <1>4, <4>1, <4>2
    <3>2. QED
      BY <3>1 DEF Audited
  <2>6. QED
    BY <1>2, <1>3, <2>2, <2>3, <2>4, <2>5 DEF IInv, OutOK
<1>11. QED
  BY <1>6, <1>7, <1>8, <1>10 DEF IInv

\* What an UPDATE by proposal id can do to a row that exists, wherever the handler
\* goes next.
LEMMA UpdateRow ==
  ASSUME IInv, NEW w \in Workers, NEW p \in Proposals, NEW r \in Row,
         NEW u \in Task, Carries(u, row', cmdFor), task' = [task EXCEPT ![w] = u],
         row' = row \/ row' = [row EXCEPT ![p] = r],
         r.state \in {"approved", "rejected"}, r.key \in Faults, r.result = row[p].result,
         r.cmd = row[p].cmd \/ (row[p].cmd = None /\ row[p].result = None),
         r.cmd # None => cmdFor[r.cmd] = p, r.state = "approved" => r.cmd # None,
         UNCHANGED <<pendingKeys, queue, results, cmdFor, inbox, report, executed>>
  PROVE  IInv'
<1>1. Wrote(p, r)
  BY WriteRow
<1>2. /\ \A q \in Proposals : row[q].state # "absent" => row'[q].state # "absent"
      /\ (ReportOK /\ OutOK)'
  BY <1>1, WroteKeeps
<1>3. TaskOK' /\ TypeOK'
  <2>1. Grows /\ Carries(u, row', cmdFor')
    BY <1>2 DEF Grows
  <2>2. QED
    BY <1>1, <2>1, TaskMoves DEF IInv, TypeOK, Wrote
<1>4. RowOK'
  BY <1>1 DEF IInv, RowOK, Wrote
<1>5. AuditIsTruthful'
  BY <1>1 DEF IInv, AuditIsTruthful, Wrote
<1>6. QED
  BY <1>2, <1>3, <1>4, <1>5 DEF IInv

\* Where approve and reject go after their UPDATE.
LEMMA AfterUpdate ==
  ASSUME IInv, NEW w \in Workers,
         \/ task' = [task EXCEPT ![w] = Idle]
         \/ task' = [task EXCEPT ![w] = IF task[w].evict = None THEN Idle ELSE [task[w] EXCEPT !.pc = "evict"]]
  PROVE  \E u \in Task : task' = [task EXCEPT ![w] = u] /\ \A rw, cf : Carries(u, rw, cf)
<1>1. task[w] \in Task
  BY DEF IInv, TypeOK
<1>2. [task[w] EXCEPT !.pc = "evict"] \in Task
  BY <1>1 DEF Task, PC
<1>3. \A rw, cf : Carries([task[w] EXCEPT !.pc = "evict"], rw, cf)
  BY <1>1 DEF Task, Carries
<1>4. QED
  BY <1>2, <1>3, IdleCarries

\* The guarded UPDATE gives a pending row the command that was signed for it.
LEMMA ApproveUpdateStep ==
  ASSUME IInv, NEW w \in Workers, ApproveUpdate(w)
  PROVE  IInv'
<1> DEFINE t == task[w]
<1> DEFINE p == t.prop
<1> DEFINE r == [row[p] EXCEPT !.state = "approved", !.cmd = t.cmd]
<1>1. /\ t \in Task /\ p \in Proposals /\ t.cmd \in Commands /\ cmdFor[t.cmd] = p
      /\ row[p].state # "absent" /\ row[p].key \in Faults /\ row[p] \in Row
      /\ UNCHANGED <<pendingKeys, queue, results, cmdFor, inbox, report, executed>>
  BY DEF IInv, TypeOK, TaskOK, RowOK, Carries, ApproveUpdate, At, agentVars
<1>2. PICK u \in Task : task' = [task EXCEPT ![w] = u] /\ \A rw, cf : Carries(u, rw, cf)
  BY AfterUpdate DEF ApproveUpdate, DbWrite, Goto, Finish
<1>3. CASE row' = row
  BY <1>1, <1>2, <1>3, OnlyTaskMoves DEF agentVars
<1>4. CASE row' # row
  <2>1. Pending(p) /\ row' = [row EXCEPT ![p].state = "approved", ![p].cmd = t.cmd]
    BY <1>4 DEF ApproveUpdate, DbWrite
  <2>2. row[p].cmd = None /\ row[p].result = None
    BY <1>1, <2>1 DEF IInv, RowOK, AuditIsTruthful, Pending
  <2>3. /\ r \in Row /\ r.state = "approved" /\ r.key = row[p].key /\ r.cmd = t.cmd
        /\ r.result = row[p].result
    BY <1>1 DEF Row, DecisionState
  <2>4. row' = [row EXCEPT ![p] = r]
    BY <1>1, <2>1 DEF IInv, TypeOK, Row
  <2> HIDE DEF r
  <2>5. QED
    BY <1>1, <1>2, <2>2, <2>3, <2>4, UpdateRow
<1>5. QED
  BY <1>3, <1>4

\* The unguarded UPDATE changes the decision of a row and nothing else.
LEMMA RejectUpdateStep ==
  ASSUME IInv, NEW w \in Workers, RejectUpdate(w)
  PROVE  IInv'
<1> DEFINE t == task[w]
<1> DEFINE p == t.prop
<1> DEFINE r == [row[p] EXCEPT !.state = "rejected"]
<1>1. /\ t \in Task /\ p \in Proposals
      /\ row[p].state # "absent" /\ row[p].key \in Faults /\ row[p] \in Row
      /\ UNCHANGED <<pendingKeys, queue, results, cmdFor, inbox, report, executed>>
  BY DEF IInv, TypeOK, TaskOK, RowOK, Carries, RejectUpdate, At, agentVars
<1>2. PICK u \in Task : task' = [task EXCEPT ![w] = u] /\ \A rw, cf : Carries(u, rw, cf)
  BY AfterUpdate DEF RejectUpdate, DbWrite, Goto, Finish
<1>3. row' = row \/ row' = [row EXCEPT ![p] = r]
  <2>1. row' = row \/ row' = [row EXCEPT ![p].state = "rejected"]
    BY DEF RejectUpdate, DbWrite
  <2>2. [row EXCEPT ![p].state = "rejected"] = [row EXCEPT ![p] = r]
    BY <1>1 DEF IInv, TypeOK, Row
  <2>3. QED
    BY <2>1, <2>2
<1>4. /\ r \in Row /\ r.state = "rejected" /\ r.key = row[p].key /\ r.cmd = row[p].cmd
      /\ r.result = row[p].result
  BY <1>1 DEF Row, DecisionState
<1>5. row[p].cmd # None => cmdFor[row[p].cmd] = p
  BY <1>1 DEF IInv, AuditIsTruthful
<1>6. /\ r.state \in {"approved", "rejected"} /\ r.key \in Faults
      /\ r.state = "approved" => r.cmd # None
      /\ r.cmd # None => cmdFor[r.cmd] = p
  BY <1>1, <1>4, <1>5
<1>7. Carries(u, row', cmdFor)
  BY <1>2
<1> HIDE DEF r, p
<1>8. QED
  BY <1>1, <1>2, <1>3, <1>4, <1>6, <1>7, UpdateRow

\* take_for moves commands from the queue to the agent, or loses them.
LEMMA PullStep ==
  ASSUME IInv, NEW a \in Agents, Pull(a)
  PROVE  IInv'
<1>1. /\ queue' = [queue EXCEPT ![a] = << >>]
      /\ inbox' = [inbox EXCEPT ![a] = queue[a]] \/ inbox' = inbox
      /\ UNCHANGED <<row, pendingKeys, results, task, cmdFor, report, executed>>
  BY DEF Pull
<1>2. TypeOK'
  <2>1. queue \in [Agents -> Seq(Commands)] /\ inbox \in [Agents -> Seq(Commands)]
    BY DEF IInv, TypeOK
  <2>2. << >> \in Seq(Commands)
    OBVIOUS
  <2>3. queue' \in [Agents -> Seq(Commands)]
    BY <1>1, <2>1, <2>2
  <2>4. inbox' \in [Agents -> Seq(Commands)]
    BY <1>1, <2>1
  <2>5. QED
    BY <1>1, <2>3, <2>4 DEF IInv, TypeOK
<1>3. (TaskOK /\ RowOK /\ ReportOK /\ AuditIsTruthful)'
  BY <1>1 DEF IInv, TaskOK, RowOK, ReportOK, AuditIsTruthful
<1>4. ASSUME NEW b \in Agents
      PROVE  /\ queue'[b] = << >> \/ queue'[b] = queue[b]
             /\ inbox'[b] = inbox[b] \/ inbox'[b] = queue[b]
  BY <1>1 DEF IInv, TypeOK
<1>5. OutOK'
  <2>1. \A c : Audited(c) <=> Audited(c)'
    BY <1>1 DEF Audited
  <2>2. (\A b \in Agents : \A i \in 1..Len(queue[b]) : Audited(queue[b][i]))'
    BY <1>1, <1>4 DEF IInv, OutOK, Audited
  <2>3. (\A b \in Agents : \A i \in 1..Len(inbox[b]) : Audited(inbox[b][i]))'
    BY <1>1, <1>4 DEF IInv, OutOK, Audited
  <2>4. QED
    BY <1>1, <2>2, <2>3 DEF IInv, OutOK, Audited
<1>6. QED
  BY <1>2, <1>3, <1>5 DEF IInv

\* A report of success or of a freeze is about a command the actuator acted on.
LEMMA ProcessStep ==
  ASSUME IInv, NEW a \in Agents, Process(a)
  PROVE  IInv'
<1> DEFINE c == Head(inbox[a])
<1>1. /\ inbox[a] # << >> /\ inbox' = [inbox EXCEPT ![a] = Tail(@)]
      /\ UNCHANGED <<row, pendingKeys, queue, results, task, cmdFor>>
  BY DEF Process, serverVars
<1>2. \/ /\ executed' = executed \cup {c}
         /\ \E s \in ActionStatus : report' = [report EXCEPT ![a] = [cmd |-> c, status |-> s]]
      \/ /\ executed' = executed
         /\ \E s \in {"failed", "rejected", "precondition_failed"} :
              report' = [report EXCEPT ![a] = [cmd |-> c, status |-> s]]
      \/ executed' = executed /\ report' = report
  BY DEF Process, ActionStatus
<1>3. inbox[a] \in Seq(Commands) /\ c \in Commands /\ 1 \in 1..Len(inbox[a]) /\ c = inbox[a][1]
  BY <1>1 DEF IInv, TypeOK
<1>4. Audited(c)
  BY <1>3 DEF IInv, OutOK
<1>5. inbox' \in [Agents -> Seq(Commands)]
  BY <1>1, <1>3 DEF IInv, TypeOK
<1>6. /\ executed' = executed \/ executed' = executed \cup {c}
      /\ report' \in [Agents -> Report \cup {None}]
      /\ \A b \in Agents : report'[b] = report[b] \/
           /\ report'[b].cmd = c
           /\ report'[b].status \in {"succeeded", "frozen"} => c \in executed'
  <2>1. \A s \in ActionStatus : [cmd |-> c, status |-> s] \in Report
    BY <1>3 DEF Report
  <2>2. {"failed", "rejected", "precondition_failed"} \subseteq ActionStatus
    BY DEF ActionStatus
  <2>3. CASE executed' = executed /\ report' = report
    BY <2>3 DEF IInv, TypeOK
  <2>4. ASSUME NEW s \in ActionStatus, report' = [report EXCEPT ![a] = [cmd |-> c, status |-> s]]
        PROVE  /\ report' \in [Agents -> Report \cup {None}]
               /\ \A b \in Agents : report'[b] = report[b] \/
                    (report'[b].cmd = c /\ report'[b].status = s)
    BY <2>1, <2>4 DEF IInv, TypeOK
  <2>5. QED
    BY <1>2, <2>2, <2>3, <2>4
<1>7. TypeOK'
  BY <1>1, <1>3, <1>5, <1>6 DEF IInv, TypeOK
<1>8. (TaskOK /\ RowOK)'
  BY <1>1 DEF IInv, TaskOK, RowOK
<1>9. AuditIsTruthful'
  BY <1>1, <1>6 DEF IInv, AuditIsTruthful
<1>10. ReportOK'
  BY <1>6 DEF IInv, ReportOK
<1>11. OutOK'
  <2>1. ASSUME NEW b \in Agents, NEW i \in 1..Len(inbox'[b])
        PROVE  \E j \in 1..Len(inbox[b]) : inbox'[b][i] = inbox[b][j]
    <3>1. CASE b # a
      BY <1>1, <3>1 DEF IInv, TypeOK
    <3>2. CASE b = a
      <4>1. inbox'[a] = Tail(inbox[a])
        BY <1>1 DEF IInv, TypeOK
      <4>2. i + 1 \in 1..Len(inbox[a]) /\ inbox'[b][i] = inbox[a][i + 1]
        <5> DEFINE s == inbox[a]
        <5>1. s \in Seq(Commands) /\ s # << >> /\ i \in 1..Len(Tail(s))
          BY <1>1, <1>3, <3>2, <4>1
        <5>2. Len(s) \in Nat /\ Len(s) > 0 /\ Len(Tail(s)) = Len(s) - 1
          BY <1>3, <5>1
        <5>3. Tail(s)[i] = s[i + 1]
          BY <5>1, <5>2
        <5>4. QED
          BY <3>2, <4>1, <5>1, <5>2, <5>3
      <4>3. QED
        BY <3>2, <4>2
    <3>3. QED
      BY <3>1, <3>2
  <2>2. (\A b \in Agents : \A i \in 1..Len(inbox[b]) : Audited(inbox[b][i]))'
    BY <1>1, <2>1 DEF IInv, OutOK, Audited
  <2>3. QED
    BY <1>1, <1>4, <1>6, <2>2 DEF IInv, OutOK, Audited
<1>12. QED
  BY <1>7, <1>8, <1>9, <1>10, <1>11 DEF IInv

\* post_command_result closes the row of the reported command and no other.
LEMMA PostStep ==
  ASSUME IInv, NEW a \in Agents, Post(a)
  PROVE  IInv'
<1> DEFINE r == report[a]
<1>1. /\ r # None /\ report' = [report EXCEPT ![a] = None]
      /\ results' = results \/ results' = results \cup {r.cmd}
      /\ UNCHANGED <<pendingKeys, queue, task, cmdFor, inbox, executed>>
      /\ \/ row' = row
         \/ row' = [p \in Proposals |->
                      IF row[p].cmd = r.cmd THEN [row[p] EXCEPT !.result = r.status] ELSE row[p]]
  BY DEF Post
<1>2. r \in Report /\ r.cmd \in Commands /\ r.status \in ActionStatus /\ Audited(r.cmd)
  BY <1>1 DEF IInv, TypeOK, Report, OutOK
<1>3. ASSUME NEW p \in Proposals
      PROVE  /\ row'[p] \in Row /\ row'[p].state = row[p].state /\ row'[p].key = row[p].key
             /\ row'[p].cmd = row[p].cmd
             /\ row'[p].result = row[p].result \/ (row[p].cmd = r.cmd /\ row'[p].result = r.status)
  <2>1. row[p] \in Row
    BY DEF IInv, TypeOK
  <2>2. CASE row' = row
    BY <2>1, <2>2
  <2>3. CASE row'[p] = row[p]
    BY <2>1, <2>3
  <2>4. CASE row[p].cmd = r.cmd /\ row'[p] = [row[p] EXCEPT !.result = r.status]
    BY <1>2, <2>1, <2>4 DEF Row
  <2>5. QED
    BY <1>1, <2>2, <2>3, <2>4
<1>4. row' \in [Proposals -> Row]
  <2>1. row \in [Proposals -> Row]
    BY DEF IInv, TypeOK
  <2>2. row' = [p \in Proposals |-> row'[p]]
    BY <1>1, <2>1
  <2>3. QED
    BY <1>3, <2>2
<1>5. TypeOK'
  BY <1>1, <1>2, <1>4 DEF IInv, TypeOK
<1>6. TaskOK'
  BY <1>1, <1>3 DEF IInv, TaskOK, Carries
<1>7. RowOK'
  BY <1>3 DEF IInv, RowOK
<1>8. ASSUME NEW b \in Agents PROVE report'[b] = report[b] \/ report'[b] = None
  BY <1>1 DEF IInv, TypeOK
<1>9. ReportOK'
  BY <1>1, <1>8 DEF IInv, ReportOK
<1>10. \A c \in Commands : Audited(c) => Audited(c)'
  BY <1>1, <1>3 DEF IInv, TypeOK, Audited
<1>11. OutOK'
  <2>1. (\A b \in Agents : report[b] # None => Audited(report[b].cmd))'
    BY <1>8, <1>1, <1>10 DEF IInv, TypeOK, Report, OutOK, Audited
  <2>2. (\A c \in executed \cup results : Audited(c))'
    BY <1>1, <1>2, <1>10 DEF IInv, TypeOK, OutOK
  <2>3. QED
    BY <1>1, <1>10, <2>1, <2>2 DEF IInv, TypeOK, OutOK
<1>12. AuditIsTruthful'
  BY <1>1, <1>2, <1>3 DEF IInv, AuditIsTruthful, ReportOK
<1>13. QED
  BY <1>5, <1>6, <1>7, <1>9, <1>11, <1>12 DEF IInv

\* A restart forgets the handlers and the queue; rows and executions stay.
LEMMA ServerRestartStep == ASSUME IInv, ServerRestart PROVE IInv'
<1>1. /\ task' = [w \in Workers |-> Idle] /\ queue' = [a \in Agents |-> << >>] /\ results' = {}
      /\ pendingKeys' = {row[p].key : p \in {q \in Proposals : Pending(q)}}
      /\ UNCHANGED <<row, cmdFor, inbox, report, executed>>
  BY DEF ServerRestart, agentVars
<1>2. pendingKeys' \subseteq Faults
  BY <1>1 DEF IInv, RowOK, Pending
<1>3. TypeOK'
  BY <1>1, <1>2, IdleCarries DEF IInv, TypeOK
<1>4. TaskOK'
  BY <1>1, IdleCarries DEF TaskOK
<1>5. (RowOK /\ ReportOK /\ OutOK /\ AuditIsTruthful)'
  BY <1>1 DEF IInv, RowOK, ReportOK, OutOK, Audited, AuditIsTruthful
<1>6. QED
  BY <1>3, <1>4, <1>5 DEF IInv

\* A crash of the agent forgets what it had in hand.
LEMMA AgentCrashStep == ASSUME IInv, NEW a \in Agents, AgentCrash(a) PROVE IInv'
<1>1. /\ inbox' = [inbox EXCEPT ![a] = << >>] /\ report' = [report EXCEPT ![a] = None]
      /\ UNCHANGED <<row, pendingKeys, queue, results, task, cmdFor, executed>>
  BY DEF AgentCrash, serverVars
<1>2. TypeOK'
  BY <1>1 DEF IInv, TypeOK
<1>3. (TaskOK /\ RowOK /\ AuditIsTruthful)'
  BY <1>1 DEF IInv, TaskOK, RowOK, AuditIsTruthful
<1>4. ASSUME NEW b \in Agents
      PROVE  /\ inbox'[b] = inbox[b] \/ inbox'[b] = << >>
             /\ report'[b] = report[b] \/ report'[b] = None
  BY <1>1 DEF IInv, TypeOK
<1>5. ReportOK'
  BY <1>1, <1>4 DEF IInv, ReportOK
<1>6. OutOK'
  BY <1>1, <1>4 DEF IInv, OutOK, Audited
<1>7. QED
  BY <1>2, <1>3, <1>5, <1>6 DEF IInv

\* A step of anything else changes nothing.
LEMMA StutterStep == ASSUME IInv, UNCHANGED vars PROVE IInv'
<1>1. (TypeOK /\ TaskOK /\ RowOK)'
  BY DEF IInv, vars, TypeOK, TaskOK, RowOK
<1>2. (ReportOK /\ OutOK /\ AuditIsTruthful)'
  BY DEF IInv, vars, ReportOK, OutOK, Audited, AuditIsTruthful
<1>3. QED
  BY <1>1, <1>2 DEF IInv

\* The invariant is inductive: one lemma per action.
LEMMA NextIInv == IInv /\ [Next]_vars => IInv'
<1> SUFFICES ASSUME IInv, [Next]_vars PROVE IInv'
  OBVIOUS
<1>1. ASSUME NEW w \in Workers, HandlerStart(w) PROVE IInv'
  BY <1>1, PrepareApproveStep, PrepareAutoStep, ApproveFetchStep, RejectReadKeyStep DEF HandlerStart
<1>2. ASSUME NEW w \in Workers, HandlerStep(w) PROVE IInv'
  <2>1. CASE InsertRow(w) \/ AddKey(w) \/ AutoInsertRow(w) \/ AutoEnqueue(w)
    BY <2>1, InsertRowStep, AddKeyStep, AutoInsertRowStep, AutoEnqueueStep
  <2>2. CASE \E c \in Commands : ApproveIssue(w, c)
    BY <2>2, ApproveIssueStep
  <2>3. CASE ApproveRefused(w) \/ ApproveReadKey(w) \/ ApproveUpdate(w) \/ Evict(w) \/ RejectUpdate(w)
    BY <2>3, ApproveRefusedStep, ApproveReadKeyStep, ApproveUpdateStep, EvictStep, RejectUpdateStep
  <2>4. QED
    BY <1>2, <2>1, <2>2, <2>3 DEF HandlerStep
<1>3. ASSUME NEW a \in Agents, AgentStep(a) \/ AgentCrash(a) PROVE IInv'
  BY <1>3, PullStep, ProcessStep, PostStep, AgentCrashStep DEF AgentStep
<1>4. QED
  BY <1>1, <1>2, <1>3, ServerRestartStep, StutterStep DEF Next

\* So it holds in every reachable state.
LEMMA Invariance == Spec => []IInv
BY InitIInv, NextIInv, PTL DEF Spec

-----------------------------------------------------------------------------
(* The results *)

\* Whatever handlers interleave and whatever fails, the state stays well typed.
THEOREM TypeCorrect == Spec => []TypeOK
<1>1. IInv => TypeOK
  BY DEF IInv
<1>2. QED
  BY <1>1, Invariance, PTL

\* auto_execute and approve_remediation never let a command out (into a queue, to
\* an agent, to the actuator, back as a result) whose proposal has no audit row.
THEOREM NoCommandWithoutAudit == Spec => []IssuedIsAudited
<1>1. IInv => IssuedIsAudited
  BY DEF IInv, OutOK, Audited, IssuedIsAudited, InFlight, Queued, Held, Reporting, Elems
<1>2. QED
  BY <1>1, Invariance, PTL

\* The guarded UPDATE of approve, the unguarded one of reject and the result
\* UPDATE by command id together never write a row that overstates what happened.
THEOREM AuditNeverOverstates == Spec => []AuditIsTruthful
<1>1. IInv => AuditIsTruthful
  BY DEF IInv
<1>2. QED
  BY <1>1, Invariance, PTL
-----------------------------------------------------------------------------
(***************************************************************************)
(* RemediationLifecycle implements AuditTrail: whatever faults occur, the  *)
(* remediation_records table only makes the transitions that AuditTrail    *)
(* allows it. What has to be shown is that every statement meets its row in*)
(* the state AuditTrail assumes: an INSERT meets no row, a command is      *)
(* written to one row, a result to a row that has none.                    *)
(***************************************************************************)

(***************************************************************************)
(* The invariant IInv does not say that much. UInv adds that a command is  *)
(* in one place at a time (a queue, an inbox, a report), so that its result*)
(* is recorded at most once, and that a prepare task is alone with its new *)
(* proposal until its INSERT.                                              *)
(***************************************************************************)
Once(s) == \A i, j \in 1..Len(s) : s[i] = s[j] => i = j

\* Where a command can be once it is out, and whether agent a's place l has it.
Places == {"queue", "inbox", "report"}
Holds(l, a, c) ==
  \/ l = "queue" /\ c \in Elems(queue[a])
  \/ l = "inbox" /\ c \in Elems(inbox[a])
  \/ l = "report" /\ report[a] # None /\ report[a].cmd = c
Out(c) == \E l \in Places, a \in Agents : Holds(l, a, c)

\* auto_execute between signing its command and enqueueing it.
Unsent(w, c) == task[w].pc \in {"autoInsert", "autoEnqueue"} /\ task[w].cmd = c

OnePlace ==
  /\ \A a \in Agents : Once(queue[a]) /\ Once(inbox[a])
  /\ \A c \in Commands : \A l, m \in Places : \A a, b \in Agents :
       Holds(l, a, c) /\ Holds(m, b, c) => l = m /\ a = b

NotYetOut ==
  \A w \in Workers, c \in Commands : Unsent(w, c) =>
    /\ ~Out(c)
    /\ \A v \in Workers : Unsent(v, c) => v = w
    /\ \A p \in Proposals : row[p].cmd = c => row[p].result = None

ClosedIsDone ==
  \A p \in Proposals, c \in Commands : row[p].cmd = c /\ row[p].result # None => ~Out(c)

OwnProposal ==
  \A w \in Workers : task[w].pc \in {"insert", "autoInsert"} =>
    /\ row[task[w].prop].state = "absent"
    /\ \A v \in Workers : v # w => task[v].prop # task[w].prop

UInv == OnePlace /\ NotYetOut /\ ClosedIsDone /\ OwnProposal

-----------------------------------------------------------------------------
\* A freshly started server has nothing out and no handler running.
LEMMA InitUInv == Init => UInv
<1> SUFFICES ASSUME Init PROVE UInv
  OBVIOUS
<1>1. \A l, a, c : a \in Agents => ~Holds(l, a, c)
  BY DEF Init, Holds, Elems
<1>2. OnePlace
  BY <1>1 DEF Init, OnePlace, Once
<1>3. NotYetOut /\ OwnProposal
  BY DEF Init, NotYetOut, OwnProposal, Unsent, Idle
<1>4. ClosedIsDone
  BY DEF Init, ClosedIsDone, NoRow
<1>5. QED
  BY <1>2, <1>3, <1>4 DEF UInv

\* The effect of a handler's step on the rows and on its own task, as far as UInv
\* is concerned: the handler w moves to u; it may give a command to a row that
\* has no result; a row other handlers are about to insert is still absent; and
\* if it is about to insert a row itself, it is alone with it.
HandlerMoves(w, u) ==
  /\ task' = [task EXCEPT ![w] = u]
  /\ \A p \in Proposals : /\ row'[p].result = row[p].result
                          /\ row'[p].cmd = row[p].cmd \/ row[p].result = None
  /\ u.pc \in {"insert", "autoInsert"} =>
       /\ row'[u.prop].state = "absent"
       /\ \A v \in Workers : v # w => task[v].prop # u.prop
  /\ \A v \in Workers : v # w /\ task[v].pc \in {"insert", "autoInsert"} =>
       /\ row'[task[v].prop].state = "absent"
       /\ u.prop # task[v].prop

\* What such a step keeps when it is not in the middle of auto_execute afterwards
\* and lets out at most a command that nobody else knows of.
LEMMA HandlerKeeps ==
  ASSUME IInv, UInv, NEW w \in Workers, NEW u \in Task, HandlerMoves(w, u),
         \A v \in Workers, c \in Commands : v # w /\ Unsent(v, c) => ~Out(c)',
         \A p \in Proposals, c \in Commands :
           row[p].cmd = c /\ row[p].result # None => ~Out(c)',
         \A c \in Commands : u.pc \in {"autoInsert", "autoEnqueue"} /\ u.cmd = c =>
           /\ ~Out(c)'
           /\ \A v \in Workers : v # w => ~Unsent(v, c)
           /\ \A p \in Proposals : row'[p].cmd = c => row'[p].result = None
  PROVE  (NotYetOut /\ ClosedIsDone /\ OwnProposal)'
<1>1. ASSUME NEW v \in Workers
      PROVE  task'[v] = IF v = w THEN u ELSE task[v]
  BY DEF IInv, TypeOK, HandlerMoves
<1>2. OwnProposal'
  BY <1>1 DEF UInv, OwnProposal, HandlerMoves
<1>3. ClosedIsDone'
  BY DEF UInv, ClosedIsDone, HandlerMoves
<1>4. ASSUME NEW v \in Workers, NEW c \in Commands
      PROVE  Unsent(v, c)' <=>
               IF v = w THEN u.pc \in {"autoInsert", "autoEnqueue"} /\ u.cmd = c ELSE Unsent(v, c)
  BY <1>1 DEF Unsent
<1>5. NotYetOut'
  <2> SUFFICES ASSUME NEW v \in Workers, NEW c \in Commands, Unsent(v, c)'
               PROVE  /\ ~Out(c)'
                      /\ \A x \in Workers : Unsent(x, c)' => x = v
                      /\ \A p \in Proposals : row'[p].cmd = c => row'[p].result = None
    BY DEF NotYetOut
  <2>1. CASE v = w
    BY <1>4, <2>1
  <2>2. CASE v # w
    <3>1. Unsent(v, c)
      BY <1>4, <2>2
    <3>2. ~Out(c)' /\ \A x \in Workers : Unsent(x, c)' => x = v
      BY <1>4, <2>2, <3>1 DEF UInv, NotYetOut
    <3>3. \A p \in Proposals : row'[p].cmd = c => row'[p].result = None
      BY <3>1 DEF UInv, NotYetOut, HandlerMoves
    <3>4. QED
      BY <3>2, <3>3
  <2>3. QED
    BY <2>1, <2>2
<1>6. QED
  BY <1>2, <1>3, <1>5

\* Nothing is let out or taken in: everything is where it was.
LEMMA SamePlaces ==
  ASSUME UNCHANGED <<queue, inbox, report>>
  PROVE  /\ \A l, a, c : Holds(l, a, c)' <=> Holds(l, a, c)
         /\ \A c : Out(c)' <=> Out(c)
         /\ OnePlace <=> OnePlace'
<1>1. \A l, a, c : Holds(l, a, c)' <=> Holds(l, a, c)
  BY DEF Holds
<1>2. \A c : Out(c)' <=> Out(c)
  BY <1>1 DEF Out
<1>3. OnePlace <=> OnePlace'
  BY <1>1 DEF OnePlace
<1>4. QED
  BY <1>1, <1>2, <1>3

\* A step of a handler that is not auto_execute, and lets nothing out.
LEMMA QuietStep ==
  ASSUME IInv, UInv, NEW w \in Workers, NEW u \in Task, HandlerMoves(w, u),
         u.pc \notin {"autoInsert", "autoEnqueue"},
         UNCHANGED <<queue, inbox, report>>
  PROVE  UInv'
<1>1. (\A c : Out(c)' <=> Out(c)) /\ OnePlace'
  BY SamePlaces DEF UInv
<1>2. (NotYetOut /\ ClosedIsDone /\ OwnProposal)'
  <2>1. /\ \A v \in Workers, c \in Commands : Unsent(v, c) => ~Out(c)'
        /\ \A p \in Proposals, c \in Commands : row[p].cmd = c /\ row[p].result # None => ~Out(c)'
    BY <1>1 DEF UInv, NotYetOut, ClosedIsDone
  <2>2. QED
    BY <2>1, HandlerKeeps
<1>3. QED
  BY <1>1, <1>2 DEF UInv

\* What the other handlers are about to insert is not touched by a step of w on
\* the rows of its own proposal or of one that has a row.
LEMMA OthersStayAlone ==
  ASSUME IInv, UInv, NEW w \in Workers, NEW v \in Workers, v # w,
         task[v].pc \in {"insert", "autoInsert"}
  PROVE  /\ task[v].prop \in Proposals /\ task[v].prop # None
         /\ row[task[v].prop].state = "absent"
         /\ task[w].prop # task[v].prop
BY DEF IInv, TaskOK, Carries, UInv, OwnProposal

\* A handler that leaves the rows alone and keeps or drops its proposal.
LEMMA KeepsItsProposal ==
  ASSUME IInv, UInv, NEW w \in Workers, NEW u \in Task, task' = [task EXCEPT ![w] = u],
         u.prop \in {None, task[w].prop}, row' = row,
         u.pc \notin {"insert", "autoInsert", "autoEnqueue"},
         UNCHANGED <<queue, inbox, report>>
  PROVE  UInv'
<1>1. HandlerMoves(w, u)
  BY OthersStayAlone DEF HandlerMoves
<1>2. QED
  BY <1>1, QuietStep

\* AddKey, ApproveRefused, ApproveReadKey and Evict.
LEMMA QuietHandlers ==
  ASSUME IInv, UInv, NEW w \in Workers,
         AddKey(w) \/ ApproveRefused(w) \/ ApproveReadKey(w) \/ Evict(w)
  PROVE  UInv'
<1>1. Idle \in Task /\ Idle.prop = None /\ Idle.pc = "idle"
  BY DEF Idle, Task, PC
<1>2. CASE AddKey(w) \/ ApproveRefused(w) \/ Evict(w)
  <2>1. task' = [task EXCEPT ![w] = Idle] /\ row' = row /\ UNCHANGED <<queue, inbox, report>>
    BY <1>2 DEF AddKey, ApproveRefused, Evict, Finish, Goto, agentVars
  <2>2. QED
    BY <1>1, <2>1, KeepsItsProposal
<1>3. CASE ApproveReadKey(w)
  <2> DEFINE t == task[w]
  <2>1. t \in Task /\ t.prop \in Proposals /\ row' = row /\ UNCHANGED <<queue, inbox, report>>
    BY <1>3 DEF IInv, TypeOK, TaskOK, Carries, ApproveReadKey, At, agentVars
  <2>2. PICK k \in MaybeKey(t.prop) : task' = [task EXCEPT ![w] = [t EXCEPT !.pc = "approveUpdate", !.evict = k]]
    BY <1>3 DEF ApproveReadKey, Goto
  <2> DEFINE u == [t EXCEPT !.pc = "approveUpdate", !.evict = k]
  <2>3. u \in Task /\ u.prop = t.prop /\ u.pc = "approveUpdate"
    BY <2>1, MaybeKeyType DEF Task, PC
  <2> HIDE DEF u
  <2>4. QED
    BY <2>1, <2>2, <2>3, KeepsItsProposal DEF u
<1>4. QED
  BY <1>2, <1>3

\* A handler that starts with a proposal nobody is about to insert.
LEMMA StartsQuietly ==
  ASSUME IInv, UInv, NEW w \in Workers, NEW u \in Task, task' = [task EXCEPT ![w] = u],
         row' = row, UNCHANGED <<queue, inbox, report>>,
         u.prop \in Proposals, row[u.prop].state # "absent" \/ FreshProposal(u.prop),
         u.pc = "insert" => FreshProposal(u.prop),
         u.pc \notin {"autoInsert", "autoEnqueue"}
  PROVE  UInv'
<1>1. HandlerMoves(w, u)
  BY OthersStayAlone DEF HandlerMoves, FreshProposal
<1>2. QED
  BY <1>1, QuietStep

\* PrepareApprove, ApproveFetch and RejectReadKey.
LEMMA QuietStarts ==
  ASSUME IInv, UInv, NEW w \in Workers, NEW p \in Proposals,
         (\E k \in Faults : PrepareApprove(w, k, p)) \/ ApproveFetch(w, p) \/ RejectReadKey(w, p)
  PROVE  UInv'
<1>1. row' = row /\ UNCHANGED <<queue, inbox, report>>
  BY DEF PrepareApprove, ApproveFetch, RejectReadKey, agentVars
<1>2. CASE \E k \in Faults : PrepareApprove(w, k, p)
  <2>1. PICK k \in Faults : PrepareApprove(w, k, p)
    BY <1>2
  <2> DEFINE u == [Idle EXCEPT !.pc = "insert", !.prop = p, !.key = k]
  <2>2. u \in Task /\ u.prop = p /\ u.pc = "insert"
    BY DEF Idle, Task, PC
  <2>3. task' = [task EXCEPT ![w] = u] /\ FreshProposal(p)
    BY <2>1 DEF PrepareApprove, Goto
  <2> HIDE DEF u
  <2>4. QED
    BY <1>1, <2>2, <2>3, StartsQuietly
<1>3. CASE ApproveFetch(w, p)
  <2> DEFINE u == [Idle EXCEPT !.pc = "approveSign", !.prop = p]
  <2>2. u \in Task /\ u.prop = p /\ u.pc = "approveSign"
    BY DEF Idle, Task, PC
  <2>3. task' = [task EXCEPT ![w] = u] /\ row[p].state # "absent"
    BY <1>3 DEF ApproveFetch, Goto, Pending
  <2> HIDE DEF u
  <2>4. QED
    BY <1>1, <2>2, <2>3, StartsQuietly
<1>4. CASE RejectReadKey(w, p)
  <2>1. PICK k \in MaybeKey(p) :
          task' = [task EXCEPT ![w] = [Idle EXCEPT !.pc = "rejectUpdate", !.prop = p, !.evict = k]]
    BY <1>4 DEF RejectReadKey, Goto
  <2> DEFINE u == [Idle EXCEPT !.pc = "rejectUpdate", !.prop = p, !.evict = k]
  <2>2. u \in Task /\ u.prop = p /\ u.pc = "rejectUpdate"
    BY MaybeKeyType DEF Idle, Task, PC
  <2>3. row[p].state # "absent" /\ task' = [task EXCEPT ![w] = u]
    BY <1>4, <2>1 DEF RejectReadKey
  <2> HIDE DEF u
  <2>4. QED
    BY <1>1, <2>2, <2>3, StartsQuietly
<1>5. QED
  BY <1>2, <1>3, <1>4

-----------------------------------------------------------------------------
(* The statements that write a row: what they keep, and which transition of  *)
(* AuditTrail they are.                                                      *)

\* A step of AuditTrail on the table, or none.
TrailStep == Trail!Next \/ UNCHANGED AuditView

Entry == [state : DecisionState, cmd : Commands \cup {None}, result : ActionStatus \cup {None}]

\* A step that leaves the rows alone leaves the view alone.
LEMMA NoRowNoStep == ASSUME row' = row PROVE TrailStep
BY DEF TrailStep, AuditView

\* One entry of the view is written.
WroteView(p, r) ==
  /\ AuditView \in [Proposals -> Entry] /\ AuditView' \in [Proposals -> Entry]
  /\ AuditView[p] = [state |-> row[p].state, cmd |-> row[p].cmd, result |-> row[p].result]
  /\ AuditView'[p] = [state |-> r.state, cmd |-> r.cmd, result |-> r.result]
  /\ \A q \in Proposals : q # p => AuditView'[q] = AuditView[q]

\* Writing one row writes one entry of the view.
LEMMA ViewOfWrite ==
  ASSUME IInv, NEW p \in Proposals, NEW r \in Row, row' = [row EXCEPT ![p] = r]
  PROVE  WroteView(p, r)
<1>1. \A q \in Proposals : row'[q] = IF q = p THEN r ELSE row[q]
  BY DEF IInv, TypeOK
<1>2. AuditView \in [Proposals -> Entry] /\ AuditView' \in [Proposals -> Entry]
  BY <1>1 DEF IInv, TypeOK, Row, AuditView, Entry
<1>3. QED
  BY <1>1, <1>2 DEF WroteView, AuditView

\* The transitions of AuditTrail, by the row r that a statement writes: a row
\* appears as pending, ...
LEMMA WritesPropose ==
  ASSUME IInv, NEW p \in Proposals, NEW r \in Row, row' = [row EXCEPT ![p] = r],
         row[p].state = "absent", r.state = "pending",
         r.cmd = row[p].cmd, r.result = row[p].result
  PROVE  TrailStep
<1>0. WroteView(p, r)
  BY ViewOfWrite
<1> DEFINE g == [AuditView[p] EXCEPT !.state = "pending"]
<1>1. AuditView'[p] = g
  BY <1>0 DEF WroteView, Entry
<1>2. [AuditView EXCEPT ![p].state = "pending"] = [AuditView EXCEPT ![p] = g]
  OBVIOUS
<1> HIDE DEF g
<1>3. AuditView' = [AuditView EXCEPT ![p] = g]
  BY <1>1, <1>0 DEF WroteView
<1>4. AuditView' = [AuditView EXCEPT ![p].state = "pending"] /\ AuditView[p].state = "absent"
  BY <1>2, <1>3, <1>0 DEF WroteView
<1>5. Trail!Propose(p)
  BY <1>4 DEF Trail!Propose
<1>6. QED
  BY <1>5 DEF TrailStep, Trail!Next

\* ... a row that is absent or pending is given the command signed for it, ...
LEMMA WritesCommand ==
  ASSUME IInv, NEW p \in Proposals, NEW r \in Row, row' = [row EXCEPT ![p] = r],
         NEW c \in Commands, cmdFor[c] = p,
         row[p].state \in {"absent", "pending"}, r.state = "approved",
         r.cmd = c, r.result = row[p].result
  PROVE  TrailStep
<1>1. \A q \in Proposals : row[q].cmd # c
  BY DEF IInv, RowOK, AuditIsTruthful
<1>2. Trail!Unused(c)
  BY <1>1 DEF Trail!Unused, AuditView
<1>0. WroteView(p, r)
  BY ViewOfWrite
<1> DEFINE e == [AuditView[p] EXCEPT !.state = "approved"]
           g == [e EXCEPT !.cmd = c]
<1>3. e = [state |-> "approved", cmd |-> row[p].cmd, result |-> row[p].result]
  BY <1>0 DEF WroteView, Entry
<1>4. AuditView'[p] = g
  <2> HIDE DEF e
  <2>1. QED
    BY <1>3, <1>0 DEF WroteView
<1>5. [AuditView EXCEPT ![p].state = "approved", ![p].cmd = c] = [AuditView EXCEPT ![p] = g]
  BY <1>0 DEF WroteView
<1> HIDE DEF g
<1>6. AuditView' = [AuditView EXCEPT ![p] = g]
  BY <1>4, <1>0 DEF WroteView
<1>7. /\ AuditView' = [AuditView EXCEPT ![p].state = "approved", ![p].cmd = c]
      /\ AuditView[p].state \in {"absent", "pending"}
  BY <1>5, <1>6, <1>0 DEF WroteView
<1>8. Trail!AutoApprove(p, c) \/ Trail!Approve(p, c)
  BY <1>2, <1>7 DEF Trail!AutoApprove, Trail!Approve
<1>9. QED
  BY <1>8 DEF TrailStep, Trail!Next

\* ... a row that exists is rejected, ...
LEMMA WritesReject ==
  ASSUME IInv, NEW p \in Proposals, NEW r \in Row, row' = [row EXCEPT ![p] = r],
         row[p].state # "absent", r.state = "rejected",
         r.cmd = row[p].cmd, r.result = row[p].result
  PROVE  TrailStep
<1>0. WroteView(p, r)
  BY ViewOfWrite
<1> DEFINE g == [AuditView[p] EXCEPT !.state = "rejected"]
<1>1. AuditView'[p] = g
  BY <1>0 DEF WroteView, Entry
<1>2. [AuditView EXCEPT ![p].state = "rejected"] = [AuditView EXCEPT ![p] = g]
  OBVIOUS
<1> HIDE DEF g
<1>3. AuditView' = [AuditView EXCEPT ![p] = g]
  BY <1>1, <1>0 DEF WroteView
<1>4. AuditView' = [AuditView EXCEPT ![p].state = "rejected"] /\ AuditView[p].state # "absent"
  BY <1>2, <1>3, <1>0 DEF WroteView
<1>5. Trail!Reject(p)
  BY <1>4 DEF Trail!Reject
<1>6. QED
  BY <1>5 DEF TrailStep, Trail!Next

\* ... a row that has a command and no result is closed.
LEMMA WritesResult ==
  ASSUME IInv, NEW p \in Proposals, NEW r \in Row, row' = [row EXCEPT ![p] = r],
         NEW s \in ActionStatus, r.result = s, row[p].cmd # None, row[p].result = None,
         r.state = row[p].state, r.cmd = row[p].cmd
  PROVE  TrailStep
<1>0. WroteView(p, r)
  BY ViewOfWrite
<1> DEFINE g == [AuditView[p] EXCEPT !.result = s]
<1>1. AuditView'[p] = g
  BY <1>0 DEF WroteView, Entry
<1>2. [AuditView EXCEPT ![p].result = s] = [AuditView EXCEPT ![p] = g]
  OBVIOUS
<1> HIDE DEF g
<1>3. AuditView' = [AuditView EXCEPT ![p] = g]
  BY <1>1, <1>0 DEF WroteView
<1>4. AuditView' = [AuditView EXCEPT ![p].result = s] /\ AuditView[p].cmd # None /\ AuditView[p].result = None
  BY <1>2, <1>3, <1>0 DEF WroteView
<1>5. Trail!Close(p, s)
  BY <1>4 DEF Trail!Close
<1>6. s \in Trail!Statuses
  BY DEF ActionStatus, Trail!Statuses
<1>7. QED
  BY <1>5, <1>6 DEF TrailStep, Trail!Next

\* INSERT of a pending row, into a place that is empty.
LEMMA InsertIsPropose ==
  ASSUME IInv, UInv, NEW w \in Workers, InsertRow(w)
  PROVE  UInv' /\ TrailStep
<1> DEFINE t == task[w]
           p == t.prop
           r == [NoRow EXCEPT !.state = "pending", !.key = t.key]
           u == [t EXCEPT !.pc = "addKey"]
<1>1. /\ t \in Task /\ t.pc = "insert" /\ p \in Proposals /\ t.key \in Faults
      /\ UNCHANGED <<queue, inbox, report>>
  BY DEF IInv, TypeOK, TaskOK, Carries, InsertRow, At, Task, agentVars
<1>2. row[p].state = "absent" /\ row[p].cmd = None /\ row[p].result = None
  BY <1>1 DEF IInv, UInv, OwnProposal, RowOK, AuditIsTruthful
<1>3. row' = row \/ row' = [row EXCEPT ![p] = r]
  BY DEF InsertRow, DbWrite
<1>4. task' = [task EXCEPT ![w] = Idle] \/ task' = [task EXCEPT ![w] = u]
  BY DEF InsertRow, DbWrite, Goto, Finish
<1>5. r \in Row /\ r.state = "pending" /\ r.cmd = None /\ r.result = None
  BY <1>1 DEF NoRow, Row, DecisionState
<1>6. /\ u \in Task /\ u.prop = p /\ u.pc = "addKey"
      /\ Idle \in Task /\ Idle.prop = None /\ Idle.pc = "idle"
  BY <1>1 DEF Idle, Task, PC
<1> HIDE DEF r, u
<1>7. \A q \in Proposals : row'[q] = row[q] \/ (q = p /\ row'[q] = r)
  BY <1>3 DEF IInv, TypeOK
<1>8. UInv'
  <2>1. ASSUME NEW x \in {Idle, u}, task' = [task EXCEPT ![w] = x] PROVE HandlerMoves(w, x)
    BY <1>1, <1>2, <1>5, <1>6, <1>7, <2>1, OthersStayAlone DEF HandlerMoves
  <2>2. QED
    BY <1>1, <1>4, <1>6, <2>1, QuietStep
<1>9. row' = [row EXCEPT ![p] = r] => TrailStep
  BY <1>1, <1>2, <1>5, WritesPropose
<1>10. QED
  BY <1>3, <1>8, <1>9, NoRowNoStep

\* INSERT of an auto-approved row with its command.
LEMMA AutoInsertIsAutoApprove ==
  ASSUME IInv, UInv, NEW w \in Workers, AutoInsertRow(w)
  PROVE  UInv' /\ TrailStep
<1> DEFINE t == task[w]
           p == t.prop
           r == [state |-> "approved", key |-> t.key, cmd |-> t.cmd, result |-> None]
           u == [t EXCEPT !.pc = "autoEnqueue"]
<1>1. /\ t \in Task /\ t.pc = "autoInsert" /\ p \in Proposals /\ t.key \in Faults
      /\ t.cmd \in Commands /\ cmdFor[t.cmd] = p
      /\ UNCHANGED <<queue, inbox, report>>
  BY DEF IInv, TypeOK, TaskOK, Carries, AutoInsertRow, At, Task, agentVars
<1>2. row[p].state = "absent" /\ row[p].cmd = None /\ row[p].result = None
  BY <1>1 DEF IInv, UInv, OwnProposal, RowOK, AuditIsTruthful
<1>3. row' = row \/ row' = [row EXCEPT ![p] = r]
  BY DEF AutoInsertRow, DbWrite
<1>4. task' = [task EXCEPT ![w] = Idle] \/ task' = [task EXCEPT ![w] = u]
  BY DEF AutoInsertRow, DbWrite, Goto, Finish
<1>5. r \in Row /\ r.state = "approved" /\ r.cmd = t.cmd /\ r.result = None
  BY <1>1 DEF Row, DecisionState
<1>6. /\ u \in Task /\ u.prop = p /\ u.pc = "autoEnqueue" /\ u.cmd = t.cmd
      /\ Idle \in Task /\ Idle.prop = None /\ Idle.pc = "idle"
  BY <1>1 DEF Idle, Task, PC
<1> HIDE DEF r, u
<1>7. \A q \in Proposals : row'[q] = row[q] \/ (q = p /\ row'[q] = r)
  BY <1>3 DEF IInv, TypeOK
<1>8. UInv'
  <2>1. ASSUME NEW x \in {Idle, u}, task' = [task EXCEPT ![w] = x] PROVE HandlerMoves(w, x)
    BY <1>1, <1>2, <1>5, <1>6, <1>7, <2>1, OthersStayAlone DEF HandlerMoves
  <2>2. CASE task' = [task EXCEPT ![w] = Idle]
    BY <1>1, <1>6, <2>1, <2>2, QuietStep
  <2>3. CASE task' = [task EXCEPT ![w] = u]
    <3>1. (\A c : Out(c)' <=> Out(c)) /\ OnePlace'
      BY <1>1, SamePlaces DEF UInv
    <3>2. Unsent(w, t.cmd)
      BY <1>1 DEF Unsent
    <3>3. \A q \in Proposals : row'[q].cmd = t.cmd => row'[q].result = None
      BY <1>1, <1>5, <1>7, <3>2 DEF UInv, NotYetOut
    <3>4. /\ \A v \in Workers, c \in Commands : v # w /\ Unsent(v, c) => ~Out(c)'
          /\ \A q \in Proposals, c \in Commands : row[q].cmd = c /\ row[q].result # None => ~Out(c)'
          /\ \A c \in Commands : u.cmd = c => ~Out(c)' /\ \A v \in Workers : v # w => ~Unsent(v, c)
      BY <1>1, <1>6, <3>1, <3>2 DEF UInv, NotYetOut, ClosedIsDone
    <3>5. (NotYetOut /\ ClosedIsDone /\ OwnProposal)'
      BY <1>6, <2>1, <2>3, <3>3, <3>4, HandlerKeeps
    <3>6. QED
      BY <3>1, <3>5 DEF UInv
  <2>4. QED
    BY <1>4, <2>2, <2>3
<1>9. ASSUME row' = [row EXCEPT ![p] = r] PROVE TrailStep
  <2>1. PICK c \in Commands : c = t.cmd
    BY <1>1
  <2> HIDE DEF p
  <2>2. QED
    BY <1>1, <1>2, <1>5, <1>9, <2>1, WritesCommand
<1>10. QED
  BY <1>3, <1>8, <1>9, NoRowNoStep

\* Approve and reject keep their proposal or end after their UPDATE.
LEMMA AfterUpdatePlace ==
  ASSUME IInv, NEW w \in Workers,
         \/ task' = [task EXCEPT ![w] = Idle]
         \/ task' = [task EXCEPT ![w] = IF task[w].evict = None THEN Idle ELSE [task[w] EXCEPT !.pc = "evict"]]
  PROVE  \E u \in Task : /\ task' = [task EXCEPT ![w] = u]
                         /\ u.prop \in {None, task[w].prop} /\ u.pc \in {"idle", "evict"}
<1> DEFINE x == [task[w] EXCEPT !.pc = "evict"]
<1>1. task[w] \in Task
  BY DEF IInv, TypeOK
<1>2. x \in Task /\ x.prop = task[w].prop /\ x.pc = "evict"
  BY <1>1 DEF Task, PC
<1>3. Idle \in Task /\ Idle.prop = None /\ Idle.pc = "idle"
  BY DEF Idle, Task, PC
<1> HIDE DEF x
<1>4. task' = [task EXCEPT ![w] = Idle] \/ task' = [task EXCEPT ![w] = x]
  BY DEF x
<1>5. QED
  BY <1>2, <1>3, <1>4

\* Whether the guarded UPDATE of approve_remediation finds its row pending, it
\* gives the command to that row or does nothing.
LEMMA UpdateIsApprove ==
  ASSUME IInv, UInv, NEW w \in Workers, ApproveUpdate(w)
  PROVE  UInv' /\ TrailStep
<1> DEFINE t == task[w]
           p == t.prop
           r == [row[p] EXCEPT !.state = "approved", !.cmd = t.cmd]
<1>1. /\ t \in Task /\ p \in Proposals /\ t.cmd \in Commands /\ cmdFor[t.cmd] = p
      /\ row[p] \in Row
      /\ UNCHANGED <<queue, inbox, report>>
  BY DEF IInv, TypeOK, TaskOK, Carries, ApproveUpdate, At, agentVars
<1>2. PICK u \in Task : /\ task' = [task EXCEPT ![w] = u]
                        /\ u.prop \in {None, p} /\ u.pc \in {"idle", "evict"}
  BY <1>1, AfterUpdatePlace DEF ApproveUpdate, DbWrite, Goto, Finish
<1>3. CASE row' = row
  BY <1>1, <1>2, <1>3, KeepsItsProposal, NoRowNoStep
<1>4. CASE row' # row
  <2>1. Pending(p) /\ row' = [row EXCEPT ![p].state = "approved", ![p].cmd = t.cmd]
    BY <1>4 DEF ApproveUpdate, DbWrite
  <2>2. row[p].state = "pending" /\ row[p].cmd = None /\ row[p].result = None
    BY <1>1, <2>1 DEF IInv, RowOK, AuditIsTruthful, Pending
  <2>3. r \in Row /\ r.state = "approved" /\ r.cmd = t.cmd /\ r.result = row[p].result
    BY <1>1 DEF Row, DecisionState
  <2>4. row' = [row EXCEPT ![p] = r]
    BY <1>1, <2>1 DEF IInv, TypeOK, Row
  <2>5. PICK c \in Commands : c = t.cmd
    BY <1>1
  <2> HIDE DEF r, p
  <2>6. \A q \in Proposals : row'[q] = IF q = p THEN r ELSE row[q]
    BY <2>4 DEF IInv, TypeOK
  <2>7. HandlerMoves(w, u)
    BY <1>1, <1>2, <2>2, <2>3, <2>6, OthersStayAlone DEF HandlerMoves, p
  <2>8. UInv'
    BY <1>1, <1>2, <2>7, QuietStep
  <2>9. TrailStep
    BY <1>1, <2>2, <2>3, <2>4, <2>5, WritesCommand
  <2>10. QED
    BY <2>8, <2>9
<1>5. QED
  BY <1>3, <1>4

\* The unguarded UPDATE of reject_remediation.
LEMMA UpdateIsReject ==
  ASSUME IInv, UInv, NEW w \in Workers, RejectUpdate(w)
  PROVE  UInv' /\ TrailStep
<1> DEFINE t == task[w]
           p == t.prop
           r == [row[p] EXCEPT !.state = "rejected"]
<1>1. /\ t \in Task /\ p \in Proposals /\ row[p].state # "absent" /\ row[p] \in Row
      /\ UNCHANGED <<queue, inbox, report>>
  BY DEF IInv, TypeOK, TaskOK, Carries, RejectUpdate, At, agentVars
<1>2. PICK u \in Task : /\ task' = [task EXCEPT ![w] = u]
                        /\ u.prop \in {None, p} /\ u.pc \in {"idle", "evict"}
  BY <1>1, AfterUpdatePlace DEF RejectUpdate, DbWrite, Goto, Finish
<1>3. CASE row' = row
  BY <1>1, <1>2, <1>3, KeepsItsProposal, NoRowNoStep
<1>4. CASE row' # row
  <2>1. row' = [row EXCEPT ![p].state = "rejected"]
    BY <1>4 DEF RejectUpdate, DbWrite
  <2>2. r \in Row /\ r.state = "rejected" /\ r.cmd = row[p].cmd /\ r.result = row[p].result
    BY <1>1 DEF Row, DecisionState
  <2>3. row' = [row EXCEPT ![p] = r]
    BY <1>1, <2>1 DEF IInv, TypeOK, Row
  <2> HIDE DEF r, p
  <2>4. \A q \in Proposals : row'[q] = IF q = p THEN r ELSE row[q]
    BY <2>3 DEF IInv, TypeOK
  <2>5. HandlerMoves(w, u)
    BY <1>1, <1>2, <2>2, <2>4, OthersStayAlone DEF HandlerMoves, p
  <2>6. UInv'
    BY <1>1, <1>2, <2>5, QuietStep
  <2>7. TrailStep
    BY <1>1, <2>2, <2>3, WritesReject
  <2>8. QED
    BY <2>6, <2>7
<1>5. QED
  BY <1>3, <1>4

-----------------------------------------------------------------------------
(* The steps that move a command from place to place. *)

\* Appending an element that is not there yet.
LEMMA OnceAppend ==
  ASSUME NEW s \in Seq(Commands), NEW c \in Commands
  PROVE  /\ Elems(Append(s, c)) = Elems(s) \cup {c}
         /\ Once(s) /\ c \notin Elems(s) => Once(Append(s, c))
<1>1. /\ Len(Append(s, c)) = Len(s) + 1 /\ Len(s) \in Nat
      /\ Append(s, c)[Len(s) + 1] = c
      /\ \A i \in 1..Len(s) : Append(s, c)[i] = s[i]
  OBVIOUS
<1> DEFINE t == Append(s, c)
<1> HIDE DEF t
<1>2. 1..Len(t) = (1..Len(s)) \cup {Len(s) + 1}
  BY <1>1 DEF t
<1>3. Elems(t) = Elems(s) \cup {c}
  BY <1>1, <1>2 DEF Elems, t
<1>4. Once(s) /\ c \notin Elems(s) => Once(t)
  BY <1>1, <1>2 DEF Elems, Once, t
<1>5. QED
  BY <1>3, <1>4 DEF t

\* Taking the head off leaves the others, and the head is not among them.
LEMMA OnceTail ==
  ASSUME NEW s \in Seq(Commands), s # << >>
  PROVE  /\ Elems(s) = {Head(s)} \cup Elems(Tail(s)) /\ Head(s) \in Commands
         /\ Once(s) => Once(Tail(s)) /\ Head(s) \notin Elems(Tail(s))
<1> DEFINE t == Tail(s)
<1>1. /\ Len(s) \in Nat /\ Len(s) > 0 /\ Len(t) = Len(s) - 1 /\ Head(s) = s[1]
      /\ \A i \in 1..Len(t) : t[i] = s[i + 1]
      /\ Head(s) \in Commands
  OBVIOUS
<1> HIDE DEF t
<1>2. Elems(s) \subseteq {Head(s)} \cup Elems(t)
  <2>1. ASSUME NEW i \in 1..Len(s), i # 1 PROVE i - 1 \in 1..Len(t) /\ s[i] = t[i - 1]
    BY <1>1, <2>1
  <2>2. QED
    BY <1>1, <2>1 DEF Elems
<1>3. {Head(s)} \cup Elems(t) \subseteq Elems(s)
  <2>1. ASSUME NEW i \in 1..Len(t) PROVE i + 1 \in 1..Len(s) /\ t[i] = s[i + 1]
    BY <1>1
  <2>2. 1 \in 1..Len(s)
    BY <1>1
  <2>3. QED
    BY <1>1, <2>1, <2>2 DEF Elems
<1>4. ASSUME Once(s) PROVE Once(t) /\ Head(s) \notin Elems(t)
  <2>1. ASSUME NEW i \in 1..Len(t) PROVE i + 1 \in 1..Len(s) /\ t[i] = s[i + 1] /\ i + 1 # 1
    BY <1>1
  <2>2. 1 \in 1..Len(s)
    BY <1>1
  <2>3. Head(s) \notin Elems(t)
    BY <1>1, <1>4, <2>1, <2>2 DEF Elems, Once
  <2>4. ASSUME NEW i \in 1..Len(t), NEW j \in 1..Len(t), t[i] = t[j] PROVE i = j
    <3>1. i + 1 = j + 1
      BY <1>4, <2>1, <2>4 DEF Once
    <3>2. QED
      BY <1>1, <3>1
  <2>5. QED
    BY <2>3, <2>4 DEF Once
<1>5. QED
  BY <1>1, <1>2, <1>3, <1>4 DEF t

\* CommandQueue::enqueue of a command that is nowhere.
LEMMA EnqueuePlaces ==
  ASSUME IInv, UInv, NEW a \in Agents, NEW c \in Commands, Enqueue(a, c), ~Out(c),
         UNCHANGED <<inbox, report>>
  PROVE  OnePlace' /\ \A d \in Commands : Out(d)' => Out(d) \/ d = c
<1>1. /\ queue \in [Agents -> Seq(Commands)]
      /\ \A b \in Agents : queue'[b] = IF b = a THEN Append(queue[a], c) ELSE queue[b]
  BY DEF IInv, TypeOK, Enqueue
<1>2. c \notin Elems(queue[a])
  BY DEF Out, Holds, Places
<1>3. /\ Elems(queue'[a]) = Elems(queue[a]) \cup {c}
      /\ Once(queue'[a])
  BY <1>1, <1>2, OnceAppend DEF UInv, OnePlace
<1>4. \A b \in Agents : Once(queue'[b]) /\ Once(inbox'[b])
  BY <1>1, <1>3 DEF UInv, OnePlace
<1>5. ASSUME NEW l \in Places, NEW b \in Agents, NEW d \in Commands
      PROVE  Holds(l, b, d)' => Holds(l, b, d) \/ (l = "queue" /\ b = a /\ d = c)
  BY <1>1, <1>3 DEF Holds
<1>6. \A l \in Places, b \in Agents : ~Holds(l, b, c)
  BY DEF Out
<1>7. (\A d \in Commands : \A l, m \in Places : \A b, e \in Agents :
         Holds(l, b, d) /\ Holds(m, e, d) => l = m /\ b = e)'
  BY <1>5, <1>6 DEF UInv, OnePlace
<1>8. QED
  BY <1>4, <1>5, <1>7 DEF OnePlace, Out

\* What is out has an audit row, so a command that is not signed yet is nowhere.
LEMMA FreshIsNowhere ==
  ASSUME IInv, NEW c \in Commands, FreshCommand(c)
  PROVE  /\ ~Out(c)
         /\ \A v \in Workers : ~Unsent(v, c)
         /\ \A p \in Proposals : row[p].cmd # c
<1>1. ~Out(c)
  BY DEF IInv, OutOK, Audited, FreshCommand, Out, Holds, Elems
<1>2. \A v \in Workers : ~Unsent(v, c)
  BY DEF IInv, TaskOK, Carries, FreshCommand, Unsent
<1>3. \A p \in Proposals : row[p].cmd # c
  BY DEF IInv, AuditIsTruthful, FreshCommand
<1>4. QED
  BY <1>1, <1>2, <1>3

\* auto_execute has signed a command that nobody knows of.
LEMMA PrepareAutoUnique ==
  ASSUME IInv, UInv, NEW w \in Workers, NEW k \in Faults, NEW p \in Proposals, NEW c \in Commands,
         PrepareAuto(w, k, p, c)
  PROVE  UInv'
<1> DEFINE u == [Idle EXCEPT !.pc = "autoInsert", !.prop = p, !.key = k, !.cmd = c]
<1>1. /\ FreshCommand(c) /\ FreshProposal(p) /\ task' = [task EXCEPT ![w] = u]
      /\ UNCHANGED <<row, queue, inbox, report>>
  BY DEF PrepareAuto, Goto, agentVars
<1>2. u \in Task /\ u.pc = "autoInsert" /\ u.prop = p /\ u.cmd = c
  BY DEF Idle, Task, PC
<1> HIDE DEF u
<1>3. HandlerMoves(w, u)
  BY <1>1, <1>2, OthersStayAlone DEF HandlerMoves, FreshProposal
<1>4. (\A d : Out(d)' <=> Out(d)) /\ OnePlace'
  BY <1>1, SamePlaces DEF UInv
<1>5. /\ \A v \in Workers, d \in Commands : Unsent(v, d) => ~Out(d)'
      /\ \A q \in Proposals, d \in Commands : row[q].cmd = d /\ row[q].result # None => ~Out(d)'
  BY <1>4 DEF UInv, NotYetOut, ClosedIsDone
<1>6. ~Out(c)' /\ (\A v \in Workers : ~Unsent(v, c)) /\ (\A q \in Proposals : row'[q].cmd # c)
  BY <1>1, <1>4, FreshIsNowhere
<1>7. (NotYetOut /\ ClosedIsDone /\ OwnProposal)'
  BY <1>2, <1>3, <1>5, <1>6, HandlerKeeps
<1>8. QED
  BY <1>4, <1>7 DEF UInv

\* A handler enqueues a command c that only it knows of, and is done with it.
LEMMA IssueUnique ==
  ASSUME IInv, UInv, NEW w \in Workers, NEW a \in Agents, NEW c \in Commands, NEW u \in Task,
         Enqueue(a, c), UNCHANGED <<row, inbox, report>>, task' = [task EXCEPT ![w] = u],
         ~Out(c), \A v \in Workers : v # w => ~Unsent(v, c),
         \A p \in Proposals : row[p].cmd = c => row[p].result = None,
         u.pc \notin {"insert", "autoInsert", "autoEnqueue"}, u.prop \in {None, task[w].prop}
  PROVE  UInv'
<1>1. HandlerMoves(w, u)
  BY OthersStayAlone DEF HandlerMoves
<1>2. OnePlace' /\ \A d \in Commands : Out(d)' => Out(d) \/ d = c
  BY EnqueuePlaces
<1>3. \A v \in Workers, d \in Commands : v # w /\ Unsent(v, d) => ~Out(d)'
  BY <1>2 DEF UInv, NotYetOut
<1>4. \A q \in Proposals, d \in Commands : row[q].cmd = d /\ row[q].result # None => ~Out(d)'
  BY <1>2 DEF UInv, ClosedIsDone
<1>5. (NotYetOut /\ ClosedIsDone /\ OwnProposal)'
  BY <1>1, <1>3, <1>4, HandlerKeeps
<1>6. QED
  BY <1>2, <1>5 DEF UInv

\* auto_execute enqueues the command of the row it has written.
LEMMA AutoEnqueueUnique ==
  ASSUME IInv, UInv, NEW w \in Workers, AutoEnqueue(w)
  PROVE  UInv'
<1> DEFINE t == task[w]
<1>1. /\ t.key \in Faults /\ t.cmd \in Commands /\ Unsent(w, t.cmd)
      /\ Enqueue(AgentOf[t.key], t.cmd) /\ task' = [task EXCEPT ![w] = Idle]
      /\ UNCHANGED <<row, inbox, report>>
  BY DEF IInv, TaskOK, Carries, AutoEnqueue, At, Finish, Goto, agentVars, Unsent
<1>2. Idle \in Task /\ Idle.prop = None /\ Idle.pc = "idle"
  BY DEF Idle, Task, PC
<1>3. PICK c \in Commands, a \in Agents : c = t.cmd /\ a = AgentOf[t.key]
  BY <1>1
<1>4. /\ ~Out(c) /\ \A v \in Workers : v # w => ~Unsent(v, c)
      /\ \A p \in Proposals : row[p].cmd = c => row[p].result = None
  BY <1>1, <1>3 DEF UInv, NotYetOut
<1>5. Enqueue(a, c)
  BY <1>1, <1>3 DEF Enqueue
<1>6. QED
  BY <1>1, <1>2, <1>4, <1>5, IssueUnique

\* approve_remediation enqueues a command it has just signed.
LEMMA ApproveIssueUnique ==
  ASSUME IInv, UInv, NEW w \in Workers, NEW c \in Commands, ApproveIssue(w, c)
  PROVE  UInv'
<1> DEFINE t == task[w]
           p == t.prop
           u == [t EXCEPT !.pc = "approveKey", !.cmd = c]
<1>1. /\ t \in Task /\ p \in Proposals /\ row[p].key \in Faults /\ FreshCommand(c)
      /\ Enqueue(AgentOf[row[p].key], c) /\ task' = [task EXCEPT ![w] = u]
      /\ UNCHANGED <<row, inbox, report>>
  BY DEF IInv, TypeOK, TaskOK, RowOK, Carries, ApproveIssue, At, Goto, agentVars
<1>2. u \in Task /\ u.prop = p /\ u.pc = "approveKey"
  BY <1>1 DEF Task, PC
<1>3. PICK a \in Agents : a = AgentOf[row[p].key]
  BY <1>1
<1>4. Enqueue(a, c)
  BY <1>1, <1>3 DEF Enqueue
<1> HIDE DEF u
<1>5. QED
  BY <1>1, <1>2, <1>4, FreshIsNowhere, IssueUnique

\* A step of an agent or of the network that lets nothing new out.
LEMMA FewerOut ==
  ASSUME IInv, UInv, OnePlace', UNCHANGED <<row, task>>,
         \A c \in Commands : Out(c)' => Out(c)
  PROVE  UInv'
<1>1. NotYetOut'
  BY DEF UInv, NotYetOut, Unsent
<1>2. ClosedIsDone'
  BY DEF UInv, ClosedIsDone
<1>3. OwnProposal'
  BY DEF UInv, OwnProposal
<1>4. QED
  BY <1>1, <1>2, <1>3 DEF UInv

\* take_for empties the queue into the inbox.
LEMMA PullUnique ==
  ASSUME IInv, UInv, NEW a \in Agents, Pull(a)
  PROVE  UInv'
<1>1. /\ inbox[a] = << >> /\ queue' = [queue EXCEPT ![a] = << >>]
      /\ inbox' = [inbox EXCEPT ![a] = queue[a]] \/ inbox' = inbox
      /\ UNCHANGED <<row, task, report>>
  BY DEF Pull
<1>2. ASSUME NEW b \in Agents
      PROVE  /\ queue'[b] = IF b = a THEN << >> ELSE queue[b]
             /\ inbox'[b] = inbox[b] \/ (b = a /\ inbox'[b] = queue[a])
  BY <1>1 DEF IInv, TypeOK
<1>3. Elems(<< >>) = {} /\ Once(<< >>)
  BY DEF Elems, Once
<1>4. \A b \in Agents : Once(queue'[b]) /\ Once(inbox'[b])
  BY <1>2, <1>3 DEF UInv, OnePlace
<1>5. ASSUME NEW l \in Places, NEW b \in Agents, NEW c \in Commands, Holds(l, b, c)'
      PROVE  \/ Holds(l, b, c) /\ ~(l = "queue" /\ b = a)
             \/ l = "inbox" /\ b = a /\ Holds("queue", a, c)
  BY <1>1, <1>2, <1>3, <1>5 DEF Holds
<1>6. (\A c \in Commands : \A l, m \in Places : \A b, e \in Agents :
         Holds(l, b, c) /\ Holds(m, e, c) => l = m /\ b = e)'
  <2> SUFFICES ASSUME NEW c \in Commands, NEW l \in Places, NEW m \in Places, NEW b \in Agents,
                      NEW e \in Agents, Holds(l, b, c)', Holds(m, e, c)'
               PROVE  l = m /\ b = e
    OBVIOUS
  <2>1. "queue" \in Places
    BY DEF Places
  <2>2. \A x, y \in Places : \A f, g \in Agents : Holds(x, f, c) /\ Holds(y, g, c) => x = y /\ f = g
    BY DEF UInv, OnePlace
  <2>3. \/ Holds(l, b, c) /\ ~(l = "queue" /\ b = a)
        \/ l = "inbox" /\ b = a /\ Holds("queue", a, c)
    BY <1>5
  <2>4. \/ Holds(m, e, c) /\ ~(m = "queue" /\ e = a)
        \/ m = "inbox" /\ e = a /\ Holds("queue", a, c)
    BY <1>5
  <2>5. QED
    BY <2>1, <2>2, <2>3, <2>4
<1>7. OnePlace' /\ \A c \in Commands : Out(c)' => Out(c)
  BY <1>4, <1>5, <1>6 DEF OnePlace, Out, Places
<1>8. QED
  BY <1>1, <1>7, FewerOut

\* process_command takes the next envelope, and may report on it.
LEMMA ProcessUnique ==
  ASSUME IInv, UInv, NEW a \in Agents, Process(a)
  PROVE  UInv'
<1> DEFINE c == Head(inbox[a])
<1>1. /\ inbox[a] # << >> /\ report[a] = None /\ inbox' = [inbox EXCEPT ![a] = Tail(@)]
      /\ UNCHANGED <<row, queue, task>>
      /\ report' = report \/ \E s \in ActionStatus : report' = [report EXCEPT ![a] = [cmd |-> c, status |-> s]]
  BY DEF Process, serverVars, ActionStatus
<1>2. inbox[a] \in Seq(Commands) /\ Once(inbox[a])
  BY DEF IInv, TypeOK, UInv, OnePlace
<1>3. /\ c \in Commands /\ Elems(inbox[a]) = {c} \cup Elems(Tail(inbox[a]))
      /\ Once(Tail(inbox[a])) /\ c \notin Elems(Tail(inbox[a]))
  BY <1>1, <1>2, OnceTail
<1>4. ASSUME NEW b \in Agents
      PROVE  /\ inbox'[b] = IF b = a THEN Tail(inbox[a]) ELSE inbox[b]
             /\ report'[b] = report[b] \/ (b = a /\ report'[b].cmd = c)
  BY <1>1 DEF IInv, TypeOK
<1>5. \A b \in Agents : Once(queue'[b]) /\ Once(inbox'[b])
  BY <1>1, <1>3, <1>4 DEF UInv, OnePlace
<1> HIDE DEF c
<1>6. ASSUME NEW l \in Places, NEW b \in Agents, NEW d \in Commands, Holds(l, b, d)'
      PROVE  \/ Holds(l, b, d) /\ ~(l = "inbox" /\ b = a /\ d = c)
             \/ l = "report" /\ b = a /\ d = c /\ Holds("inbox", a, c)
  BY <1>1, <1>3, <1>4, <1>6 DEF Holds
<1>7. (\A d \in Commands : \A l, m \in Places : \A b, e \in Agents :
         Holds(l, b, d) /\ Holds(m, e, d) => l = m /\ b = e)'
  <2> SUFFICES ASSUME NEW d \in Commands, NEW l \in Places, NEW m \in Places, NEW b \in Agents,
                      NEW e \in Agents, Holds(l, b, d)', Holds(m, e, d)'
               PROVE  l = m /\ b = e
    OBVIOUS
  <2>1. "inbox" \in Places
    BY DEF Places
  <2>2. \A x, y \in Places : \A f, g \in Agents : Holds(x, f, d) /\ Holds(y, g, d) => x = y /\ f = g
    BY DEF UInv, OnePlace
  <2>3. d = c => Holds("inbox", a, d)
    BY <1>3 DEF Holds
  <2>4. \/ Holds(l, b, d) /\ ~(l = "inbox" /\ b = a /\ d = c)
        \/ l = "report" /\ b = a /\ d = c
    BY <1>6
  <2>5. \/ Holds(m, e, d) /\ ~(m = "inbox" /\ e = a /\ d = c)
        \/ m = "report" /\ e = a /\ d = c
    BY <1>6
  <2>6. QED
    BY <2>1, <2>2, <2>3, <2>4, <2>5
<1>8. \A d \in Commands : Out(d)' => Out(d)
  <2>1. Out(c)
    BY <1>3 DEF Out, Holds, Places
  <2>2. QED
    BY <1>6, <2>1 DEF Out
<1>9. OnePlace'
  BY <1>5, <1>7 DEF OnePlace
<1>10. QED
  BY <1>1, <1>8, <1>9, FewerOut

\* post_command_result: the report is gone, and the row of its command, which has
\* no result because the command was still out, is closed.
LEMMA PostIsClose ==
  ASSUME IInv, UInv, NEW a \in Agents, Post(a)
  PROVE  UInv' /\ TrailStep
<1>1. PICK c \in Commands, s \in ActionStatus : report[a] # None /\ report[a].cmd = c /\ report[a].status = s
  BY DEF Post, IInv, TypeOK, Report
<1>2. /\ report' = [report EXCEPT ![a] = None]
      /\ UNCHANGED <<queue, task, inbox>>
      /\ \/ row' = row
         \/ row' = [p \in Proposals |-> IF row[p].cmd = c THEN [row[p] EXCEPT !.result = s] ELSE row[p]]
  BY <1>1 DEF Post
<1>3. \A b \in Agents : report'[b] = IF b = a THEN None ELSE report[b]
  BY <1>2 DEF IInv, TypeOK
<1>4. \A l \in Places, b \in Agents, d \in Commands :
        Holds(l, b, d)' => Holds(l, b, d) /\ ~(l = "report" /\ b = a)
  BY <1>2, <1>3 DEF Holds
<1>5. "report" \in Places /\ Holds("report", a, c) /\ Out(c)
  BY <1>1 DEF Places, Holds, Out
<1>6. OnePlace'
  BY <1>2, <1>4 DEF UInv, OnePlace
<1>7. ~Out(c)' /\ \A d \in Commands : Out(d)' => Out(d)
  BY <1>4, <1>5 DEF UInv, OnePlace, Out
<1>8. ASSUME NEW p \in Proposals
      PROVE  /\ row'[p].state = row[p].state /\ row'[p].cmd = row[p].cmd
             /\ row'[p].result = row[p].result \/ row[p].cmd = c
  <2>1. row[p] \in Row
    BY DEF IInv, TypeOK
  <2>2. row'[p] = row[p] \/ (row[p].cmd = c /\ row'[p] = [row[p] EXCEPT !.result = s])
    BY <1>2
  <2>3. QED
    BY <2>1, <2>2 DEF Row
<1>9. NotYetOut'
  <2>1. \A w \in Workers, d \in Commands : Unsent(w, d)' <=> Unsent(w, d)
    BY <1>2 DEF Unsent
  <2>2. QED
    BY <1>5, <1>7, <1>8, <2>1 DEF UInv, NotYetOut
<1>10. ClosedIsDone'
  BY <1>7, <1>8 DEF UInv, ClosedIsDone
<1>11. OwnProposal'
  BY <1>2, <1>8 DEF IInv, TaskOK, Carries, UInv, OwnProposal
<1>12. ASSUME row' # row PROVE TrailStep
  <2>1. row' = [p \in Proposals |-> IF row[p].cmd = c THEN [row[p] EXCEPT !.result = s] ELSE row[p]]
    BY <1>2, <1>12
  <2>2. PICK p \in Proposals : row[p].cmd = c
    <3>1. row = [p \in Proposals |-> row[p]]
      BY DEF IInv, TypeOK
    <3>2. QED
      BY <1>12, <2>1, <3>1
  <2> DEFINE r == [row[p] EXCEPT !.result = s]
  <2>3. \A q \in Proposals : row[q].cmd = c => q = p
    BY <2>2 DEF IInv, AuditIsTruthful
  <2>4. row' = [row EXCEPT ![p] = r]
    BY <2>1, <2>2, <2>3 DEF IInv, TypeOK
  <2>5. r \in Row /\ r.state = row[p].state /\ r.cmd = row[p].cmd /\ r.result = s
    <3>1. row[p] \in Row
      BY DEF IInv, TypeOK
    <3>2. QED
      BY <3>1 DEF Row
  <2>6. row[p].cmd # None /\ row[p].result = None
    BY <1>5, <2>2 DEF UInv, ClosedIsDone
  <2> HIDE DEF r
  <2>7. QED
    BY <2>4, <2>5, <2>6, WritesResult
<1>13. QED
  BY <1>6, <1>9, <1>10, <1>11, <1>12, NoRowNoStep DEF UInv

\* Restarts and crashes only take commands out of sight.
LEMMA CrashUnique ==
  ASSUME IInv, UInv, ServerRestart \/ \E a \in Agents : AgentCrash(a)
  PROVE  UInv' /\ row' = row
<1>1. Elems(<< >>) = {} /\ Once(<< >>)
  BY DEF Elems, Once
<1>2. CASE ServerRestart
  <2>1. /\ task' = [w \in Workers |-> Idle] /\ queue' = [a \in Agents |-> << >>]
        /\ UNCHANGED <<row, inbox, report>>
    BY <1>2 DEF ServerRestart, agentVars
  <2>2. \A l \in Places, a \in Agents, c \in Commands : Holds(l, a, c)' => Holds(l, a, c)
    BY <1>1, <2>1 DEF Holds
  <2>3. OnePlace' /\ \A c \in Commands : Out(c)' => Out(c)
    BY <1>1, <2>1, <2>2 DEF UInv, OnePlace, Out
  <2>4. (NotYetOut /\ OwnProposal)'
    BY <2>1 DEF NotYetOut, OwnProposal, Unsent, Idle
  <2>5. ClosedIsDone'
    BY <2>1, <2>3 DEF UInv, ClosedIsDone
  <2>6. QED
    BY <2>1, <2>3, <2>4, <2>5 DEF UInv
<1>3. ASSUME NEW a \in Agents, AgentCrash(a) PROVE UInv' /\ row' = row
  <2>1. /\ inbox' = [inbox EXCEPT ![a] = << >>] /\ report' = [report EXCEPT ![a] = None]
        /\ UNCHANGED <<row, task, queue>>
    BY <1>3 DEF AgentCrash, serverVars
  <2>2. \A b \in Agents : /\ inbox'[b] = inbox[b] \/ inbox'[b] = << >>
                          /\ report'[b] = report[b] \/ report'[b] = None
    BY <2>1 DEF IInv, TypeOK
  <2>3. \A l \in Places, b \in Agents, c \in Commands : Holds(l, b, c)' => Holds(l, b, c)
    BY <1>1, <2>1, <2>2 DEF Holds
  <2>4. OnePlace' /\ \A c \in Commands : Out(c)' => Out(c)
    BY <1>1, <2>1, <2>2, <2>3 DEF UInv, OnePlace, Out
  <2>5. QED
    BY <2>1, <2>4, FewerOut
<1>4. QED
  BY <1>2, <1>3

-----------------------------------------------------------------------------
(* The result *)

\* Every step keeps the invariant and is a step of AuditTrail, or leaves the table
\* alone: one lemma per action.
LEMMA NextIsTrailStep == IInv /\ UInv /\ [Next]_vars => UInv' /\ TrailStep
<1> SUFFICES ASSUME IInv, UInv, [Next]_vars PROVE UInv' /\ TrailStep
  OBVIOUS
<1>1. ASSUME NEW w \in Workers, HandlerStart(w) PROVE UInv' /\ TrailStep
  <2>1. row' = row
    BY <1>1 DEF HandlerStart, PrepareApprove, PrepareAuto, ApproveFetch, RejectReadKey
  <2>2. QED
    BY <1>1, <2>1, QuietStarts, PrepareAutoUnique, NoRowNoStep DEF HandlerStart
<1>2. ASSUME NEW w \in Workers, HandlerStep(w) PROVE UInv' /\ TrailStep
  <2>1. CASE InsertRow(w) \/ AutoInsertRow(w) \/ ApproveUpdate(w) \/ RejectUpdate(w)
    BY <2>1, InsertIsPropose, AutoInsertIsAutoApprove, UpdateIsApprove, UpdateIsReject
  <2>2. CASE AddKey(w) \/ ApproveRefused(w) \/ ApproveReadKey(w) \/ Evict(w)
    <3>1. row' = row
      BY <2>2 DEF AddKey, ApproveRefused, ApproveReadKey, Evict
    <3>2. QED
      BY <2>2, <3>1, QuietHandlers, NoRowNoStep
  <2>3. CASE AutoEnqueue(w) \/ \E c \in Commands : ApproveIssue(w, c)
    <3>1. row' = row
      BY <2>3 DEF AutoEnqueue, ApproveIssue
    <3>2. QED
      BY <2>3, <3>1, AutoEnqueueUnique, ApproveIssueUnique, NoRowNoStep
  <2>4. QED
    BY <1>2, <2>1, <2>2, <2>3 DEF HandlerStep
<1>3. ASSUME NEW a \in Agents, AgentStep(a) PROVE UInv' /\ TrailStep
  <2>1. Pull(a) \/ Process(a) => row' = row
    BY DEF Pull, Process, serverVars
  <2>2. QED
    BY <1>3, <2>1, PullUnique, ProcessUnique, PostIsClose, NoRowNoStep DEF AgentStep
<1>4. CASE UNCHANGED vars
  <2>1. UNCHANGED <<row, task, queue, inbox, report>>
    BY <1>4 DEF vars
  <2>2. OnePlace' /\ \A c \in Commands : Out(c)' => Out(c)
    BY <2>1, SamePlaces DEF UInv
  <2>3. QED
    BY <2>1, <2>2, FewerOut, NoRowNoStep
<1>5. QED
  BY <1>1, <1>2, <1>3, <1>4, CrashUnique, NoRowNoStep DEF Next

\* The server, its concurrent handlers, the agents and every fault together
\* implement the audit table that AuditTrail specifies: rows are never deleted nor
\* made pending again, a command is written to one row and once, and a row is
\* closed once, with the result of its own command.
THEOREM LifecycleImplementsAuditTrail == Spec => AuditTrailSpec
<1>1. Init => Trail!Init
  BY DEF Init, Trail!Init, AuditView, NoRow
<1>2. IInv /\ UInv /\ [Next]_vars => UInv' /\ [Trail!Next]_AuditView
  BY NextIsTrailStep DEF TrailStep
<1>3. QED
  BY <1>1, <1>2, InitUInv, Invariance, PTL DEF Spec, AuditTrailSpec, Trail!Spec

-----------------------------------------------------------------------------
(***************************************************************************)
(* When the refuted claims do hold. The runs lifecycle_double_approval,    *)
(* lifecycle_reject_after_run and lifecycle_stale_cache refute three       *)
(* claims of the repository. What follows delimits them: each claim holds  *)
(* in every behaviour in which the operators and the tokio tasks do not    *)
(* overtake each other on one proposal, and none of the faults that lose   *)
(* the server's memory or a statement happens.                             *)
(***************************************************************************)

\* Worker w is in approve_remediation of proposal p, or has signed for p in
\* auto_execute, or has enqueued a command of p and not yet recorded it.
Approving(w, p) ==
  task[w].pc \in {"approveSign", "approveKey", "approveUpdate"} /\ task[w].prop = p
Signing(w, p) == At(w, "autoInsert") /\ task[w].prop = p
Recording(w, p) == task[w].pc \in {"approveKey", "approveUpdate"} /\ task[w].prop = p

\* No two approvals of one proposal run at the same time.
ApprovalsApart ==
  \A v, w \in Workers, p \in Proposals : Approving(v, p) /\ Approving(w, p) => v = w

\* A reject reaches its UPDATE while the row is pending and nobody is approving it.
RejectsTimely ==
  \A w \in Workers : At(w, "rejectUpdate") =>
    Pending(task[w].prop) /\ \A v \in Workers : ~Approving(v, task[w].prop)

\* The server has one handler running at a time.
OneAtATime == \A v, w \in Workers : At(v, "idle") \/ At(w, "idle") \/ v = w

\* A command is signed for a proposal without a row, or with an undecided one,
\* only by a handler that is about to write that row.
SignedIsCarried ==
  \A c \in Commands, p \in Proposals : cmdFor[c] = p =>
    /\ row[p].state = "absent" => \E w \in Workers : Signing(w, p)
    /\ Pending(p) => \E w \in Workers : Recording(w, p)

\* One command per proposal, and none before its approval signs it.
SignedOnce ==
  /\ \A c, d \in Commands : cmdFor[c] # None /\ cmdFor[c] = cmdFor[d] => c = d
  /\ \A w \in Workers, c \in Commands : At(w, "approveSign") => cmdFor[c] # task[w].prop

\* Nothing was signed for a rejected proposal, nor is about to be.
RejectedUnsigned ==
  \A p \in Proposals : row[p].state = "rejected" =>
    /\ \A c \in Commands : cmdFor[c] # p
    /\ \A w \in Workers : ~Approving(w, p)

\* The handlers, the cache and the decisions are as they were.
ServerStill ==
  /\ UNCHANGED <<task, cmdFor, pendingKeys>>
  /\ \A p \in Proposals : row'[p].state = row[p].state /\ row'[p].key = row[p].key

\* Handler w goes on at u; the other handlers stay where they are.
OneMoves(w, u) ==
  /\ task'[w] = u
  /\ \A v \in Workers : v # w => task'[v] = task[v]

\* Only the row of p changes, and it becomes r.
RowBecomes(p, r) ==
  /\ row'[p] = r
  /\ \A q \in Proposals : q # p => row'[q] = row[q]

\* A handler that goes on leaves the others where they are.
LEMMA OneHandlerMoves ==
  ASSUME IInv, NEW w \in Workers, NEW u, Goto(w, u)
  PROVE  OneMoves(w, u)
BY DEF IInv, TypeOK, Goto, OneMoves

\* What an agent does, a lost message and an agent's crash leave the server's
\* decisions alone: post_command_result writes the outcome columns only.
LEMMA WhoMoves ==
  ASSUME IInv, [Next]_vars
  PROVE  ServerStill \/ ServerRestart \/ \E w \in Workers : HandlerStart(w) \/ HandlerStep(w)
<1>1. CASE UNCHANGED vars
  BY <1>1 DEF vars, ServerStill
<1>2. ASSUME NEW a \in Agents, Pull(a) \/ Process(a) \/ AgentCrash(a) PROVE ServerStill
  BY <1>2 DEF Pull, Process, AgentCrash, serverVars, ServerStill
<1>3. ASSUME NEW a \in Agents, Post(a) PROVE ServerStill
  <2>1. UNCHANGED <<task, cmdFor, pendingKeys>>
    BY <1>3 DEF Post
  <2>2. ASSUME NEW p \in Proposals PROVE row'[p].state = row[p].state /\ row'[p].key = row[p].key
    <3>1. row[p] \in Row
      BY DEF IInv, TypeOK
    <3>2. row'[p] = row[p] \/ row'[p] = [row[p] EXCEPT !.result = report[a].status]
      BY <1>3 DEF Post
    <3>3. QED
      BY <3>1, <3>2 DEF Row
  <2>3. QED
    BY <2>1, <2>2 DEF ServerStill
<1>4. QED
  BY <1>1, <1>2, <1>3 DEF Next, AgentStep

\* A statement that cannot fail without its effect writes its row.
LEMMA WritesRow ==
  ASSUME IInv, "error" \notin DbFaults, NEW w \in Workers, NEW p \in Proposals, NEW r, NEW ok,
         DbWrite(w, [row EXCEPT ![p] = r], ok)
  PROVE  RowBecomes(p, r) /\ (OneMoves(w, ok) \/ OneMoves(w, Idle))
<1>1. row' = [row EXCEPT ![p] = r] /\ (Goto(w, ok) \/ Goto(w, Idle))
  BY DEF DbWrite, Finish
<1>2. RowBecomes(p, r)
  BY <1>1 DEF IInv, TypeOK, RowBecomes
<1>3. QED
  BY <1>1, <1>2, OneHandlerMoves

\* What each handler step does to the decisions, to the signed commands and to
\* the place of its worker, when statements are only slow or lose their answer.
\* The row of the task of w goes from state `from` to state `to`.
Decides(w, from, to) ==
  LET p == task[w].prop IN
  /\ p \in Proposals /\ row[p].state \in from
  /\ row'[p].state = to
  /\ \A q \in Proposals : q # p => row'[q] = row[q]
  /\ cmdFor' = cmdFor

\* insert_remediation makes an absent row pending.
LEMMA InsertDecides ==
  ASSUME IInv, UInv, "error" \notin DbFaults, NEW w \in Workers, InsertRow(w)
  PROVE  /\ Decides(w, {"absent"}, "pending")
         /\ \E u : OneMoves(w, u) /\ u.pc \in {"idle", "addKey"}
         /\ At(w, "insert")
<1> DEFINE t == task[w]
           r == [NoRow EXCEPT !.state = "pending", !.key = t.key]
<1>1. /\ At(w, "insert") /\ cmdFor' = cmdFor
      /\ DbWrite(w, [row EXCEPT ![t.prop] = r], [t EXCEPT !.pc = "addKey"])
  BY DEF InsertRow
<1>2. t \in Task /\ t.prop \in Proposals /\ row[t.prop].state = "absent"
  BY <1>1 DEF IInv, TypeOK, TaskOK, Carries, At, UInv, OwnProposal
<1>3. RowBecomes(t.prop, r) /\ (OneMoves(w, [t EXCEPT !.pc = "addKey"]) \/ OneMoves(w, Idle))
  BY <1>1, <1>2, WritesRow
<1>4. r.state = "pending" /\ [t EXCEPT !.pc = "addKey"].pc = "addKey" /\ Idle.pc = "idle"
  BY <1>2 DEF NoRow, Task, Idle
<1> HIDE DEF r
<1>5. Decides(w, {"absent"}, "pending")
  BY <1>1, <1>2, <1>3, <1>4 DEF Decides, RowBecomes
<1>6. QED
  BY <1>1, <1>3, <1>4, <1>5

\* insert_auto_approved_remediation makes an absent row approved.
LEMMA AutoInsertDecides ==
  ASSUME IInv, UInv, "error" \notin DbFaults, NEW w \in Workers, AutoInsertRow(w)
  PROVE  /\ Decides(w, {"absent"}, "approved")
         /\ \E u : OneMoves(w, u) /\ u.pc \in {"idle", "autoEnqueue"}
         /\ At(w, "autoInsert")
<1> DEFINE t == task[w]
           r == [state |-> "approved", key |-> t.key, cmd |-> t.cmd, result |-> None]
<1>1. /\ At(w, "autoInsert") /\ cmdFor' = cmdFor
      /\ DbWrite(w, [row EXCEPT ![t.prop] = r], [t EXCEPT !.pc = "autoEnqueue"])
  BY DEF AutoInsertRow
<1>2. t \in Task /\ t.prop \in Proposals /\ row[t.prop].state = "absent"
  BY <1>1 DEF IInv, TypeOK, TaskOK, Carries, At, UInv, OwnProposal
<1>3. RowBecomes(t.prop, r) /\ (OneMoves(w, [t EXCEPT !.pc = "autoEnqueue"]) \/ OneMoves(w, Idle))
  BY <1>1, <1>2, WritesRow
<1>4. r.state = "approved" /\ [t EXCEPT !.pc = "autoEnqueue"].pc = "autoEnqueue" /\ Idle.pc = "idle"
  BY <1>2 DEF Task, Idle
<1> HIDE DEF r
<1>5. Decides(w, {"absent"}, "approved")
  BY <1>1, <1>2, <1>3, <1>4 DEF Decides, RowBecomes
<1>6. QED
  BY <1>1, <1>3, <1>4, <1>5

\* After their UPDATE, approve and reject go on to evict, or are done.
LEMMA AfterDecision ==
  ASSUME NEW t \in Task, NEW u, u = Idle \/ u = (IF t.evict = None THEN Idle ELSE [t EXCEPT !.pc = "evict"])
  PROVE  u.pc \in {"idle", "evict"}
BY DEF Task, Idle

\* approve: a pending row becomes approved; a decided row is left alone.
LEMMA ApproveDecides ==
  ASSUME IInv, "error" \notin DbFaults, NEW w \in Workers, ApproveUpdate(w)
  PROVE  /\ \/ Decides(w, {"pending"}, "approved")
            \/ ~Pending(task[w].prop) /\ row' = row /\ cmdFor' = cmdFor
         /\ \E u : OneMoves(w, u) /\ u.pc \in {"idle", "evict"}
         /\ At(w, "approveUpdate")
<1> DEFINE t == task[w]
           r == [row[t.prop] EXCEPT !.state = "approved", !.cmd = t.cmd]
           ok == IF t.evict = None THEN Idle ELSE [t EXCEPT !.pc = "evict"]
<1>1. At(w, "approveUpdate") /\ cmdFor' = cmdFor
  BY DEF ApproveUpdate
<1>2. t \in Task /\ t.prop \in Proposals /\ row[t.prop] \in Row
  BY <1>1 DEF IInv, TypeOK, TaskOK, Carries, At
<1>3. CASE Pending(t.prop)
  <2>1. [row EXCEPT ![t.prop].state = "approved", ![t.prop].cmd = t.cmd] = [row EXCEPT ![t.prop] = r]
    BY <1>2 DEF IInv, TypeOK
  <2>2. DbWrite(w, [row EXCEPT ![t.prop] = r], ok)
    BY <1>3, <2>1 DEF ApproveUpdate
  <2>3. r.state = "approved"
    BY <1>2 DEF Row
  <2> HIDE DEF r, ok
  <2>4. RowBecomes(t.prop, r) /\ (OneMoves(w, ok) \/ OneMoves(w, Idle))
    BY <1>2, <2>2, WritesRow
  <2>5. Decides(w, {"pending"}, "approved")
    BY <1>1, <1>2, <1>3, <2>3, <2>4 DEF Decides, RowBecomes, Pending
  <2>6. PICK u : OneMoves(w, u) /\ (u = Idle \/ u = ok)
    BY <2>4
  <2>7. u.pc \in {"idle", "evict"}
    BY <1>2, <2>6, AfterDecision DEF ok
  <2>8. QED
    BY <1>1, <2>5, <2>6, <2>7
<1>4. CASE ~Pending(t.prop)
  <2>1. row' = row /\ Goto(w, Idle)
    BY <1>4 DEF ApproveUpdate, Finish
  <2>2. OneMoves(w, Idle) /\ Idle.pc = "idle"
    BY <2>1, OneHandlerMoves DEF Idle
  <2>3. QED
    BY <1>1, <1>4, <2>1, <2>2
<1>5. QED
  BY <1>3, <1>4

\* reject: whatever its state, the row becomes rejected.
LEMMA RejectDecides ==
  ASSUME IInv, "error" \notin DbFaults, NEW w \in Workers, RejectUpdate(w)
  PROVE  /\ Decides(w, {"pending", "approved", "rejected"}, "rejected")
         /\ \E u : OneMoves(w, u) /\ u.pc \in {"idle", "evict"}
         /\ At(w, "rejectUpdate")
<1> DEFINE t == task[w]
           r == [row[t.prop] EXCEPT !.state = "rejected"]
           ok == IF t.evict = None THEN Idle ELSE [t EXCEPT !.pc = "evict"]
<1>1. At(w, "rejectUpdate") /\ cmdFor' = cmdFor
  BY DEF RejectUpdate
<1>2. /\ t \in Task /\ t.prop \in Proposals /\ row[t.prop] \in Row
      /\ row[t.prop].state \in {"pending", "approved", "rejected"}
  BY <1>1 DEF IInv, TypeOK, TaskOK, Carries, At, Row, DecisionState
<1>3. [row EXCEPT ![t.prop].state = "rejected"] = [row EXCEPT ![t.prop] = r]
  BY <1>2 DEF IInv, TypeOK
<1>4. DbWrite(w, [row EXCEPT ![t.prop] = r], ok)
  BY <1>3 DEF RejectUpdate
<1>5. r.state = "rejected"
  BY <1>2 DEF Row
<1> HIDE DEF r, ok
<1>6. RowBecomes(t.prop, r) /\ (OneMoves(w, ok) \/ OneMoves(w, Idle))
  BY <1>2, <1>4, WritesRow
<1>7. Decides(w, {"pending", "approved", "rejected"}, "rejected")
  BY <1>1, <1>2, <1>5, <1>6 DEF Decides, RowBecomes
<1>8. PICK u : OneMoves(w, u) /\ (u = Idle \/ u = ok)
  BY <1>6
<1>9. u.pc \in {"idle", "evict"}
  BY <1>2, <1>8, AfterDecision DEF ok
<1>10. QED
  BY <1>1, <1>7, <1>8, <1>9

\* The steps that neither decide nor sign: worker w comes from a place where it
\* carried no unrecorded command, and goes to one where it approves nothing.
Aside(w) ==
  /\ row' = row /\ cmdFor' = cmdFor
  /\ task[w].pc \in {"idle", "addKey", "autoEnqueue", "approveSign", "evict"}
  /\ \E u : OneMoves(w, u) /\ u.pc \in {"idle", "insert", "rejectUpdate"}

\* Which steps those are.
LEMMA AsideSteps ==
  ASSUME IInv, NEW w \in Workers,
         \/ \E k \in Faults, p \in Proposals : PrepareApprove(w, k, p)
         \/ \E p \in Proposals : RejectReadKey(w, p)
         \/ AddKey(w) \/ AutoEnqueue(w) \/ ApproveRefused(w) \/ Evict(w)
  PROVE  Aside(w)
<1>1. Idle.pc = "idle"
  BY DEF Idle
<1>2. ASSUME NEW k \in Faults, NEW p \in Proposals, PrepareApprove(w, k, p) PROVE Aside(w)
  <2> DEFINE u == [Idle EXCEPT !.pc = "insert", !.prop = p, !.key = k]
  <2>1. u.pc = "insert" /\ OneMoves(w, u)
    BY <1>2, OneHandlerMoves DEF PrepareApprove, Idle
  <2> HIDE DEF u
  <2>2. QED
    BY <1>2, <2>1 DEF PrepareApprove, Aside, At
<1>3. ASSUME NEW p \in Proposals, RejectReadKey(w, p) PROVE Aside(w)
  <2>1. PICK k : Goto(w, [Idle EXCEPT !.pc = "rejectUpdate", !.prop = p, !.evict = k])
    BY <1>3 DEF RejectReadKey
  <2> DEFINE u == [Idle EXCEPT !.pc = "rejectUpdate", !.prop = p, !.evict = k]
  <2>2. u.pc = "rejectUpdate" /\ OneMoves(w, u)
    BY <2>1, OneHandlerMoves DEF Idle
  <2> HIDE DEF u
  <2>3. QED
    BY <1>3, <2>2 DEF RejectReadKey, Aside, At
<1>4. CASE AddKey(w) \/ AutoEnqueue(w) \/ ApproveRefused(w) \/ Evict(w)
  <2>1. OneMoves(w, Idle)
    BY <1>4, OneHandlerMoves DEF AddKey, AutoEnqueue, ApproveRefused, Evict, Finish
  <2>2. QED
    BY <1>1, <1>4, <2>1 DEF AddKey, AutoEnqueue, ApproveRefused, Evict, Aside, At
<1>5. QED
  BY <1>2, <1>3, <1>4

\* auto_execute signs c for the fresh proposal p.
AutoSigns(w, p, c) ==
  /\ row' = row /\ FreshCommand(c) /\ FreshProposal(p) /\ At(w, "idle")
  /\ \A d \in Commands : cmdFor'[d] = IF d = c THEN p ELSE cmdFor[d]
  /\ \E u : OneMoves(w, u) /\ u.pc = "autoInsert" /\ u.prop = p

\* PrepareAuto is that step.
LEMMA AutoSignsStep ==
  ASSUME IInv, NEW w \in Workers, NEW k \in Faults, NEW p \in Proposals, NEW c \in Commands,
         PrepareAuto(w, k, p, c)
  PROVE  AutoSigns(w, p, c)
<1> DEFINE u == [Idle EXCEPT !.pc = "autoInsert", !.prop = p, !.key = k, !.cmd = c]
<1>1. u.pc = "autoInsert" /\ u.prop = p /\ OneMoves(w, u)
  BY OneHandlerMoves DEF PrepareAuto, Idle
<1>2. \A d \in Commands : cmdFor'[d] = IF d = c THEN p ELSE cmdFor[d]
  BY DEF PrepareAuto, IInv, TypeOK
<1> HIDE DEF u
<1>3. QED
  BY <1>1, <1>2 DEF PrepareAuto, AutoSigns

\* approve_remediation signs c for the proposal of its request.
ApproveSigns(w, c) ==
  LET p == task[w].prop IN
  /\ row' = row /\ FreshCommand(c) /\ At(w, "approveSign")
  /\ p \in Proposals /\ row[p].state # "absent"
  /\ \A d \in Commands : cmdFor'[d] = IF d = c THEN p ELSE cmdFor[d]
  /\ \E u : OneMoves(w, u) /\ u.pc = "approveKey" /\ u.prop = p

\* ApproveIssue is that step.
LEMMA ApproveSignsStep ==
  ASSUME IInv, NEW w \in Workers, NEW c \in Commands, ApproveIssue(w, c)
  PROVE  ApproveSigns(w, c)
<1> DEFINE t == task[w]
           u == [t EXCEPT !.pc = "approveKey", !.cmd = c]
<1>1. t \in Task /\ t.prop \in Proposals /\ row[t.prop].state # "absent" /\ At(w, "approveSign")
  BY DEF IInv, TypeOK, TaskOK, Carries, ApproveIssue, At
<1>2. u.pc = "approveKey" /\ u.prop = t.prop /\ OneMoves(w, u)
  BY <1>1, OneHandlerMoves DEF ApproveIssue, Task
<1>3. \A d \in Commands : cmdFor'[d] = IF d = c THEN t.prop ELSE cmdFor[d]
  BY DEF ApproveIssue, IInv, TypeOK
<1> HIDE DEF u
<1>4. QED
  BY <1>1, <1>2, <1>3 DEF ApproveIssue, ApproveSigns

\* approve_remediation starts on the pending proposal p.
Fetches(w, p) ==
  /\ row' = row /\ cmdFor' = cmdFor /\ At(w, "idle") /\ Pending(p)
  /\ \E u : OneMoves(w, u) /\ u.pc = "approveSign" /\ u.prop = p

\* ApproveFetch is that step.
LEMMA FetchesStep ==
  ASSUME IInv, NEW w \in Workers, NEW p \in Proposals, ApproveFetch(w, p)
  PROVE  Fetches(w, p)
<1> DEFINE u == [Idle EXCEPT !.pc = "approveSign", !.prop = p]
<1>1. u.pc = "approveSign" /\ u.prop = p /\ OneMoves(w, u)
  BY OneHandlerMoves DEF ApproveFetch, Idle
<1> HIDE DEF u
<1>2. QED
  BY <1>1 DEF ApproveFetch, Fetches

\* store.approve has read its key, and keeps its proposal.
ReadsKey(w) ==
  /\ row' = row /\ cmdFor' = cmdFor /\ At(w, "approveKey")
  /\ \E u : OneMoves(w, u) /\ u.pc = "approveUpdate" /\ u.prop = task[w].prop

\* ApproveReadKey is that step.
LEMMA ReadsKeyStep ==
  ASSUME IInv, NEW w \in Workers, ApproveReadKey(w)
  PROVE  ReadsKey(w)
<1> DEFINE t == task[w]
<1>1. PICK k : Goto(w, [t EXCEPT !.pc = "approveUpdate", !.evict = k])
  BY DEF ApproveReadKey
<1> DEFINE u == [t EXCEPT !.pc = "approveUpdate", !.evict = k]
<1>2. t \in Task
  BY DEF IInv, TypeOK
<1>3. u.pc = "approveUpdate" /\ u.prop = t.prop /\ OneMoves(w, u)
  BY <1>1, <1>2, OneHandlerMoves DEF Task
<1> HIDE DEF u
<1>4. QED
  BY <1>3 DEF ApproveReadKey, ReadsKey

\* All that a handler can do, in these words.
LEMMA HandlerDoes ==
  ASSUME IInv, UInv, "error" \notin DbFaults, NEW w \in Workers, HandlerStart(w) \/ HandlerStep(w)
  PROVE  \/ Aside(w)
         \/ \E p \in Proposals, c \in Commands : AutoSigns(w, p, c)
         \/ \E c \in Commands : ApproveSigns(w, c)
         \/ \E p \in Proposals : Fetches(w, p)
         \/ ReadsKey(w)
         \/ InsertRow(w) \/ AutoInsertRow(w) \/ ApproveUpdate(w) \/ RejectUpdate(w)
BY AsideSteps, AutoSignsStep, ApproveSignsStep, FetchesStep, ReadsKeyStep DEF HandlerStart, HandlerStep

-----------------------------------------------------------------------------
(* Whoever signs is about to record *)

\* Handler w moves on without dropping an unrecorded command of an undecided row,
\* and what is newly signed is carried by w.
LEMMA CarriedKeeps ==
  ASSUME SignedIsCarried, NEW w \in Workers, NEW u, OneMoves(w, u),
         \A p \in Proposals : row'[p].state = "absent" =>
           /\ row[p].state = "absent"
           /\ Signing(w, p) => u.pc = "autoInsert" /\ u.prop = p,
         \A p \in Proposals : Pending(p)' =>
           /\ Pending(p) \/ \A c \in Commands : cmdFor[c] # p
           /\ Recording(w, p) => u.pc \in {"approveKey", "approveUpdate"} /\ u.prop = p,
         \A c \in Commands, p \in Proposals : cmdFor'[c] = p =>
           \/ cmdFor[c] = p
           \/ u.pc = "autoInsert" /\ u.prop = p /\ row'[p].state = "absent"
           \/ u.pc = "approveKey" /\ u.prop = p /\ row'[p].state # "absent"
  PROVE  SignedIsCarried'
<1> SUFFICES ASSUME NEW c \in Commands, NEW p \in Proposals, cmdFor'[c] = p
             PROVE  /\ row'[p].state = "absent" => \E v \in Workers : Signing(v, p)'
                    /\ Pending(p)' => \E v \in Workers : Recording(v, p)'
  BY DEF SignedIsCarried
<1>1. \A v \in Workers : v # w => (Signing(v, p)' <=> Signing(v, p)) /\ (Recording(v, p)' <=> Recording(v, p))
  BY DEF OneMoves, Signing, Recording, At
<1>2. /\ Signing(w, p)' <=> u.pc = "autoInsert" /\ u.prop = p
      /\ Recording(w, p)' <=> u.pc \in {"approveKey", "approveUpdate"} /\ u.prop = p
  BY DEF OneMoves, Signing, Recording, At
<1>3. ASSUME row'[p].state = "absent" PROVE \E v \in Workers : Signing(v, p)'
  <2>1. CASE cmdFor[c] = p
    <3>1. PICK v \in Workers : Signing(v, p)
      BY <1>3, <2>1 DEF SignedIsCarried
    <3>2. QED
      BY <1>1, <1>2, <1>3, <3>1
  <2>2. CASE cmdFor[c] # p
    BY <1>2, <1>3, <2>2
  <2>3. QED
    BY <2>1, <2>2
<1>4. ASSUME Pending(p)' PROVE \E v \in Workers : Recording(v, p)'
  <2>1. row'[p].state # "absent"
    BY <1>4 DEF Pending
  <2>2. CASE cmdFor[c] = p
    <3>1. PICK v \in Workers : Recording(v, p)
      BY <1>4, <2>2 DEF SignedIsCarried
    <3>2. QED
      BY <1>1, <1>2, <1>4, <3>1
  <2>3. CASE cmdFor[c] # p
    BY <1>2, <2>1, <2>3
  <2>4. QED
    BY <2>2, <2>3
<1>5. QED
  BY <1>3, <1>4

\* A proposal whose row is about to be inserted as pending was never signed for.
LEMMA UnsignedInsert ==
  ASSUME IInv, UInv, SignedIsCarried, NEW w \in Workers, At(w, "insert")
  PROVE  \A c \in Commands : cmdFor[c] # task[w].prop
<1> SUFFICES ASSUME NEW c \in Commands, cmdFor[c] = task[w].prop PROVE FALSE
  OBVIOUS
<1>1. /\ task[w].prop \in Proposals /\ row[task[w].prop].state = "absent"
      /\ \A v \in Workers : v # w => task[v].prop # task[w].prop
  BY DEF IInv, TaskOK, Carries, At, UInv, OwnProposal
<1>2. PICK v \in Workers : Signing(v, task[w].prop)
  BY <1>1 DEF SignedIsCarried
<1>3. v # w
  BY <1>2 DEF Signing, At
<1>4. QED
  BY <1>1, <1>2, <1>3 DEF Signing

\* With statements that do not fail silently and a server that stays up, a
\* command is never left behind by the handler that signed it.
LEMMA CarriedStep ==
  ASSUME IInv, UInv, SignedIsCarried, [Next]_vars,
         "error" \notin DbFaults, "server_restart" \notin EnvFaults
  PROVE  SignedIsCarried'
<1>1. CASE ServerStill
  BY <1>1 DEF ServerStill, SignedIsCarried, Signing, Recording, At, Pending
<1>2. ASSUME NEW w \in Workers, HandlerStart(w) \/ HandlerStep(w) PROVE SignedIsCarried'
  <2>1. CASE Aside(w)
    <3>1. PICK u : OneMoves(w, u)
      BY <2>1 DEF Aside
    <3>2. \A p : ~Signing(w, p) /\ ~Recording(w, p)
      BY <2>1 DEF Aside, Signing, Recording, At
    <3>3. row' = row /\ cmdFor' = cmdFor /\ \A p : Pending(p)' <=> Pending(p)
      BY <2>1 DEF Aside, Pending
    <3>4. QED
      BY <3>1, <3>2, <3>3, CarriedKeeps
  <2>2. ASSUME NEW q \in Proposals, NEW c \in Commands, AutoSigns(w, q, c) PROVE SignedIsCarried'
    <3>1. PICK u : OneMoves(w, u) /\ u.pc = "autoInsert" /\ u.prop = q
      BY <2>2 DEF AutoSigns
    <3>2. (\A p : ~Signing(w, p) /\ ~Recording(w, p)) /\ row[q].state = "absent"
      BY <2>2 DEF AutoSigns, Signing, Recording, At, FreshProposal
    <3>3. row' = row /\ \A p : Pending(p)' <=> Pending(p)
      BY <2>2 DEF AutoSigns, Pending
    <3>4. \A d \in Commands : cmdFor'[d] = cmdFor[d] \/ cmdFor'[d] = q
      BY <2>2 DEF AutoSigns
    <3>5. QED
      BY <3>1, <3>2, <3>3, <3>4, CarriedKeeps
  <2>3. ASSUME NEW c \in Commands, ApproveSigns(w, c) PROVE SignedIsCarried'
    <3>1. PICK q \in Proposals : q = task[w].prop /\ row[q].state # "absent"
      BY <2>3 DEF ApproveSigns
    <3>2. PICK u : OneMoves(w, u) /\ u.pc = "approveKey" /\ u.prop = q
      BY <2>3, <3>1 DEF ApproveSigns
    <3>3. \A p : ~Signing(w, p) /\ ~Recording(w, p)
      BY <2>3 DEF ApproveSigns, Signing, Recording, At
    <3>4. row' = row /\ \A p : Pending(p)' <=> Pending(p)
      BY <2>3 DEF ApproveSigns, Pending
    <3>5. \A d \in Commands : cmdFor'[d] = cmdFor[d] \/ cmdFor'[d] = q
      BY <2>3, <3>1 DEF ApproveSigns
    <3>6. QED
      BY <3>1, <3>2, <3>3, <3>4, <3>5, CarriedKeeps
  <2>4. ASSUME NEW q \in Proposals, Fetches(w, q) PROVE SignedIsCarried'
    <3>1. PICK u : OneMoves(w, u)
      BY <2>4 DEF Fetches
    <3>2. \A p : ~Signing(w, p) /\ ~Recording(w, p)
      BY <2>4 DEF Fetches, Signing, Recording, At
    <3>3. row' = row /\ cmdFor' = cmdFor /\ \A p : Pending(p)' <=> Pending(p)
      BY <2>4 DEF Fetches, Pending
    <3>4. QED
      BY <3>1, <3>2, <3>3, CarriedKeeps
  <2>5. CASE ReadsKey(w)
    <3>1. PICK u : OneMoves(w, u) /\ u.pc = "approveUpdate" /\ u.prop = task[w].prop
      BY <2>5 DEF ReadsKey
    <3>2. \A p : ~Signing(w, p) /\ (Recording(w, p) => p = u.prop)
      BY <2>5, <3>1 DEF ReadsKey, Signing, Recording, At
    <3>3. row' = row /\ cmdFor' = cmdFor /\ \A p : Pending(p)' <=> Pending(p)
      BY <2>5 DEF ReadsKey, Pending
    <3>4. QED
      BY <3>1, <3>2, <3>3, CarriedKeeps
  <2>6. CASE InsertRow(w)
    <3>1. Decides(w, {"absent"}, "pending") /\ At(w, "insert") /\ \E u : OneMoves(w, u)
      BY <2>6, InsertDecides
    <3>2. PICK u : OneMoves(w, u)
      BY <3>1
    <3>3. \A p : ~Signing(w, p) /\ ~Recording(w, p)
      BY <3>1 DEF Signing, Recording, At
    <3>4. PICK q \in Proposals : q = task[w].prop /\ \A c \in Commands : cmdFor[c] # q
      BY <3>1, UnsignedInsert DEF Decides
    <3>5. \A p \in Proposals : p # q => row'[p] = row[p] /\ (Pending(p)' <=> Pending(p))
      BY <3>1, <3>4 DEF Decides, Pending
    <3>6. row'[q].state # "absent" /\ cmdFor' = cmdFor
      BY <3>1, <3>4 DEF Decides
    <3>7. \A p \in Proposals : row'[p].state = "absent" => row[p].state = "absent"
      BY <3>5, <3>6
    <3>8. \A p \in Proposals : Pending(p)' => Pending(p) \/ \A c \in Commands : cmdFor[c] # p
      BY <3>4, <3>5
    <3>9. QED
      BY <3>2, <3>3, <3>6, <3>7, <3>8, CarriedKeeps
  <2>7. ASSUME NEW from, NEW to \in {"approved", "rejected"}, Decides(w, from, to),
               NEW u, OneMoves(w, u), task[w].pc \in {"autoInsert", "approveUpdate", "rejectUpdate"}
        PROVE  SignedIsCarried'
    <3>1. PICK q \in Proposals : q = task[w].prop
      BY <2>7 DEF Decides
    <3>2. \A p \in Proposals : p # q => row'[p] = row[p] /\ (Pending(p)' <=> Pending(p))
      BY <2>7, <3>1 DEF Decides, Pending
    <3>3. row'[q].state # "absent" /\ ~Pending(q)' /\ cmdFor' = cmdFor
      BY <2>7, <3>1 DEF Decides, Pending
    <3>4. \A p \in Proposals : p # q => ~Signing(w, p) /\ ~Recording(w, p)
      BY <3>1 DEF Signing, Recording
    <3>5. QED
      BY <2>7, <3>2, <3>3, <3>4, CarriedKeeps
  <2>8. CASE AutoInsertRow(w)
    BY <2>7, <2>8, AutoInsertDecides DEF At
  <2>9. CASE RejectUpdate(w)
    BY <2>7, <2>9, RejectDecides DEF At
  <2>10. CASE ApproveUpdate(w)
    <3>1. CASE Decides(w, {"pending"}, "approved")
      BY <2>7, <2>10, <3>1, ApproveDecides DEF At
    <3>2. CASE ~Pending(task[w].prop) /\ row' = row /\ cmdFor' = cmdFor
      <4>1. PICK u : OneMoves(w, u) /\ At(w, "approveUpdate")
        BY <2>10, ApproveDecides
      <4>2. \A p : ~Signing(w, p) /\ (Pending(p) => ~Recording(w, p)) /\ (Pending(p)' <=> Pending(p))
        BY <3>2, <4>1 DEF Signing, Recording, At, Pending
      <4>3. QED
        BY <3>2, <4>1, <4>2, CarriedKeeps
    <3>3. QED
      BY <2>10, <3>1, <3>2, ApproveDecides
  <2>11. QED
    BY <1>2, <2>1, <2>2, <2>3, <2>4, <2>5, <2>6, <2>8, <2>9, <2>10, HandlerDoes
<1>3. QED
  BY <1>1, <1>2, WhoMoves DEF ServerRestart

-----------------------------------------------------------------------------
(* One command per proposal *)

\* Signing c for a proposal p that has no command keeps one command per proposal.
LEMMA SignsOnce ==
  ASSUME IInv, SignedOnce, NEW w \in Workers, NEW u, OneMoves(w, u), u.pc # "approveSign",
         NEW p \in Proposals, NEW c \in Commands, FreshCommand(c),
         \A d \in Commands : cmdFor'[d] = IF d = c THEN p ELSE cmdFor[d],
         \A d \in Commands : cmdFor[d] # p,
         \A v \in Workers : v # w /\ At(v, "approveSign") => task[v].prop # p
  PROVE  SignedOnce'
<1>1. \A d, e \in Commands : cmdFor'[d] # None /\ cmdFor'[d] = cmdFor'[e] => d = e
  BY DEF SignedOnce
<1>2. ASSUME NEW v \in Workers, NEW d \in Commands, At(v, "approveSign")' PROVE cmdFor'[d] # task'[v].prop
  <2>1. v # w /\ task'[v] = task[v] /\ At(v, "approveSign")
    BY <1>2 DEF OneMoves, At
  <2>2. QED
    BY <2>1 DEF SignedOnce
<1>3. QED
  BY <1>1, <1>2 DEF SignedOnce

\* A step that signs nothing, and starts no approval, keeps it too.
LEMMA NoNewSignature ==
  ASSUME SignedOnce, NEW w \in Workers, NEW u, OneMoves(w, u), u.pc # "approveSign", cmdFor' = cmdFor
  PROVE  SignedOnce'
<1>1. ASSUME NEW v \in Workers, At(v, "approveSign")' PROVE task'[v] = task[v] /\ At(v, "approveSign")
  BY <1>1 DEF OneMoves, At
<1>2. QED
  BY <1>1 DEF SignedOnce

\* Approvals of one proposal that do not overlap sign one command for it: the second
\* one finds the row decided, or the first still running.
LEMMA SignedOnceStep ==
  ASSUME IInv, UInv, SignedIsCarried, SignedOnce, [Next]_vars, ApprovalsApart, ApprovalsApart',
         "error" \notin DbFaults, "server_restart" \notin EnvFaults
  PROVE  SignedOnce'
<1>1. CASE ServerStill
  BY <1>1 DEF ServerStill, SignedOnce, At
<1>2. ASSUME NEW w \in Workers, HandlerStart(w) \/ HandlerStep(w) PROVE SignedOnce'
  <2>1. CASE Aside(w)
    BY <2>1, NoNewSignature DEF Aside
  <2>2. ASSUME NEW p \in Proposals, NEW c \in Commands, AutoSigns(w, p, c) PROVE SignedOnce'
    <3>1. row[p].state = "absent" /\ \A v \in Workers : task[v].prop # p
      BY <2>2 DEF AutoSigns, FreshProposal
    <3>2. \A d \in Commands : cmdFor[d] # p
      BY <3>1 DEF SignedIsCarried, Signing
    <3>3. QED
      BY <2>2, <3>1, <3>2, SignsOnce DEF AutoSigns
  <2>3. ASSUME NEW c \in Commands, ApproveSigns(w, c) PROVE SignedOnce'
    <3>1. PICK p \in Proposals : p = task[w].prop
      BY <2>3 DEF ApproveSigns
    <3>2. \A d \in Commands : cmdFor[d] # p
      BY <2>3, <3>1 DEF ApproveSigns, SignedOnce
    <3>3. \A v \in Workers : v # w /\ At(v, "approveSign") => task[v].prop # p
      BY <2>3, <3>1 DEF ApproveSigns, ApprovalsApart, Approving, At
    <3>4. QED
      BY <2>3, <3>1, <3>2, <3>3, SignsOnce DEF ApproveSigns
  <2>4. ASSUME NEW p \in Proposals, Fetches(w, p) PROVE SignedOnce'
    <3>1. PICK u : OneMoves(w, u) /\ u.pc = "approveSign" /\ u.prop = p
      BY <2>4 DEF Fetches
    <3>2. ASSUME NEW c \in Commands, cmdFor[c] = p PROVE FALSE
      <4>1. PICK v \in Workers : Recording(v, p)
        BY <2>4, <3>2 DEF Fetches, SignedIsCarried
      <4>2. v # w
        BY <2>4, <4>1 DEF Fetches, Recording, At
      <4>3. Approving(v, p)' /\ Approving(w, p)'
        BY <3>1, <4>1, <4>2 DEF OneMoves, Recording, Approving
      <4>4. QED
        BY <4>2, <4>3 DEF ApprovalsApart
    <3>3. cmdFor' = cmdFor
      BY <2>4 DEF Fetches
    <3>4. \A v \in Workers : At(v, "approveSign")' => task'[v].prop = p \/ (task'[v] = task[v] /\ At(v, "approveSign"))
      BY <3>1 DEF OneMoves, At
    <3>5. QED
      BY <3>2, <3>3, <3>4 DEF SignedOnce
  <2>5. CASE ReadsKey(w)
    BY <2>5, NoNewSignature DEF ReadsKey
  <2>6. CASE InsertRow(w)
    BY <2>6, InsertDecides, NoNewSignature DEF Decides
  <2>7. CASE AutoInsertRow(w)
    BY <2>7, AutoInsertDecides, NoNewSignature DEF Decides
  <2>8. CASE ApproveUpdate(w)
    BY <2>8, ApproveDecides, NoNewSignature DEF Decides
  <2>9. CASE RejectUpdate(w)
    BY <2>9, RejectDecides, NoNewSignature DEF Decides
  <2>10. QED
    BY <1>2, <2>1, <2>2, <2>3, <2>4, <2>5, <2>6, <2>7, <2>8, <2>9, HandlerDoes
<1>3. QED
  BY <1>1, <1>2, WhoMoves DEF ServerRestart

\* Nothing is signed in the initial state.
LEMMA InitUnsigned == Init => SignedIsCarried /\ SignedOnce /\ RejectedUnsigned
BY DEF Init, SignedIsCarried, SignedOnce, RejectedUnsigned, NoRow, Idle, At

\* Uniqueness of the places of a command, for every behaviour.
LEMMA Uniqueness == Spec => []UInv
BY InitUInv, Invariance, NextIsTrailStep, PTL DEF Spec

\* At most one command of a proposal ever runs, as long as no two approvals of it
\* overlap, no read or write of the audit table fails without its effect and the
\* server does not restart between an approval's enqueue and its UPDATE: the second
\* approval then finds a row that is decided, and answers 404. Agents may crash,
\* messages and acknowledgements may be lost.
THEOREM ApprovedApartRunsOnce ==
  ASSUME "error" \notin DbFaults, "server_restart" \notin EnvFaults
  PROVE  Spec /\ []ApprovalsApart => []OneExecutionPerProposal
<1>1. /\ IInv /\ UInv /\ SignedIsCarried /\ SignedOnce
      /\ [Next]_vars /\ ApprovalsApart /\ ApprovalsApart'
      => (SignedIsCarried /\ SignedOnce)'
  BY CarriedStep, SignedOnceStep
<1>2. IInv /\ SignedOnce => OneExecutionPerProposal
  BY DEF IInv, TypeOK, OutOK, Audited, SignedOnce, OneExecutionPerProposal
<1>3. QED
  BY <1>1, <1>2, InitUnsigned, Invariance, Uniqueness, PTL DEF Spec

-----------------------------------------------------------------------------
(* A rejected proposal does not run *)

\* A step that signs nothing for a rejected row and starts no approval of one.
LEMMA RejectedKeeps ==
  ASSUME RejectedUnsigned, NEW w \in Workers, NEW u, OneMoves(w, u),
         \A p \in Proposals : row'[p].state = "rejected" =>
           /\ \/ row[p].state = "rejected"
              \/ (\A c \in Commands : cmdFor[c] # p) /\ (\A v \in Workers : ~Approving(v, p))
           /\ \A c \in Commands : cmdFor'[c] = p => cmdFor[c] = p
           /\ u.pc \in {"approveSign", "approveKey", "approveUpdate"} /\ u.prop = p => Approving(w, p)
  PROVE  RejectedUnsigned'
<1> SUFFICES ASSUME NEW p \in Proposals, row'[p].state = "rejected"
             PROVE  /\ \A c \in Commands : cmdFor'[c] # p
                    /\ \A v \in Workers : ~Approving(v, p)'
  BY DEF RejectedUnsigned
<1>1. (\A c \in Commands : cmdFor[c] # p) /\ (\A v \in Workers : ~Approving(v, p))
  BY DEF RejectedUnsigned
<1>2. \A v \in Workers : Approving(v, p)' => Approving(v, p)
  BY DEF OneMoves, Approving
<1>3. QED
  BY <1>1, <1>2

\* A timely reject leaves nothing signed behind, and a rejected row is not approved.
LEMMA RejectedStep ==
  ASSUME IInv, UInv, SignedIsCarried, RejectedUnsigned, [Next]_vars, RejectsTimely,
         "error" \notin DbFaults, "server_restart" \notin EnvFaults
  PROVE  RejectedUnsigned'
<1>1. CASE ServerStill
  BY <1>1 DEF ServerStill, RejectedUnsigned, Approving
<1>2. ASSUME NEW w \in Workers, HandlerStart(w) \/ HandlerStep(w) PROVE RejectedUnsigned'
  <2>1. CASE Aside(w)
    BY <2>1, RejectedKeeps DEF Aside
  <2>2. ASSUME NEW p \in Proposals, NEW c \in Commands, AutoSigns(w, p, c) PROVE RejectedUnsigned'
    BY <2>2, RejectedKeeps DEF AutoSigns, FreshProposal
  <2>3. ASSUME NEW c \in Commands, ApproveSigns(w, c) PROVE RejectedUnsigned'
    <3>1. PICK p \in Proposals : p = task[w].prop /\ Approving(w, p)
      BY <2>3 DEF ApproveSigns, Approving, At
    <3>2. row[p].state # "rejected"
      BY <3>1 DEF RejectedUnsigned
    <3>3. QED
      BY <2>3, <3>1, <3>2, RejectedKeeps DEF ApproveSigns
  <2>4. ASSUME NEW p \in Proposals, Fetches(w, p) PROVE RejectedUnsigned'
    BY <2>4, RejectedKeeps DEF Fetches, Pending
  <2>5. CASE ReadsKey(w)
    BY <2>5, RejectedKeeps DEF ReadsKey, Approving, At
  <2>6. ASSUME NEW from, NEW to \in {"pending", "approved"}, Decides(w, from, to),
               NEW u, OneMoves(w, u), u.pc \in {"idle", "addKey", "autoEnqueue", "evict"}
        PROVE  RejectedUnsigned'
    <3>1. cmdFor' = cmdFor /\ \A p \in Proposals : row'[p].state = "rejected" => row[p].state = "rejected"
      BY <2>6 DEF Decides
    <3>2. QED
      BY <2>6, <3>1, RejectedKeeps
  <2>7. CASE InsertRow(w)
    BY <2>6, <2>7, InsertDecides
  <2>8. CASE AutoInsertRow(w)
    BY <2>6, <2>8, AutoInsertDecides
  <2>9. CASE ApproveUpdate(w)
    <3>1. PICK u : OneMoves(w, u) /\ u.pc \in {"idle", "evict"}
      BY <2>9, ApproveDecides
    <3>2. CASE Decides(w, {"pending"}, "approved")
      BY <2>6, <3>1, <3>2
    <3>3. CASE row' = row /\ cmdFor' = cmdFor
      BY <3>1, <3>3, RejectedKeeps
    <3>4. QED
      BY <2>9, <3>2, <3>3, ApproveDecides
  <2>10. CASE RejectUpdate(w)
    <3>1. Decides(w, {"pending", "approved", "rejected"}, "rejected") /\ At(w, "rejectUpdate")
      BY <2>10, RejectDecides
    <3>2. PICK u : OneMoves(w, u) /\ u.pc \in {"idle", "evict"}
      BY <2>10, RejectDecides
    <3>3. PICK p \in Proposals : p = task[w].prop
      BY <3>1 DEF Decides
    <3>4. Pending(p) /\ \A v \in Workers : ~Approving(v, p)
      BY <3>1, <3>3 DEF RejectsTimely
    <3>5. \A c \in Commands : cmdFor[c] # p
      BY <3>4 DEF SignedIsCarried, Recording, Approving
    <3>6. cmdFor' = cmdFor /\ \A q \in Proposals : q # p => row'[q] = row[q]
      BY <3>1, <3>3 DEF Decides
    <3>7. \A q \in Proposals : row'[q].state = "rejected" =>
            \/ row[q].state = "rejected"
            \/ (\A c \in Commands : cmdFor[c] # q) /\ (\A v \in Workers : ~Approving(v, q))
      BY <3>4, <3>5, <3>6
    <3>8. QED
      BY <3>2, <3>6, <3>7, RejectedKeeps
  <2>11. QED
    BY <1>2, <2>1, <2>2, <2>3, <2>4, <2>5, <2>7, <2>8, <2>9, <2>10, HandlerDoes
<1>3. QED
  BY <1>1, <1>2, WhoMoves DEF ServerRestart

\* No command of a rejected proposal runs, as long as every reject reaches its
\* UPDATE while the row is pending and nobody is approving it, under the same
\* faults as above: reject_remediation has no guard of its own, so the order of the
\* requests is all that makes Decision::Rejected mean "not executed".
THEOREM TimelyRejectNeverRuns ==
  ASSUME "error" \notin DbFaults, "server_restart" \notin EnvFaults
  PROVE  Spec /\ []RejectsTimely => []RejectedNotExecuted
<1>1. /\ IInv /\ UInv /\ SignedIsCarried /\ RejectedUnsigned /\ [Next]_vars /\ RejectsTimely
      => (SignedIsCarried /\ RejectedUnsigned)'
  BY CarriedStep, RejectedStep
<1>2. IInv /\ RejectedUnsigned => RejectedNotExecuted
  BY DEF IInv, TypeOK, OutOK, Audited, RejectedUnsigned, RejectedNotExecuted
<1>3. QED
  BY <1>1, <1>2, InitUnsigned, Invariance, Uniqueness, PTL DEF Spec

-----------------------------------------------------------------------------
(* The dedup cache *)

\* Fault k has a pending row.
Waiting(k) == \E p \in Proposals : Pending(p) /\ row[p].key = k

\* What a handler t knows of the cache ks at its awaits: the key it is about to add
\* or to evict is all by which the cache differs from the pending rows.
KnowsCache(t, ks) ==
  /\ t.pc = "insert" => t.key \notin ks
  /\ t.pc = "addKey" => \A k \in Faults : Waiting(k) <=> k \in ks \/ k = t.key
  /\ t.pc = "evict" => \A k \in Faults : Waiting(k) <=> k \in ks /\ k # t.evict
  /\ t.pc \in {"approveUpdate", "rejectUpdate"} =>
       t.evict = IF Pending(t.prop) THEN row[t.prop].key ELSE None
  /\ t.pc \notin {"addKey", "evict"} => \A k \in Faults : Waiting(k) <=> k \in ks

\* No fault waits for an operator twice.
OnePendingPerFault ==
  \A p, q \in Proposals : Pending(p) /\ Pending(q) /\ row[p].key = row[q].key => p = q

\* One pending row per fault; the running handler, if any, knows the cache.
CacheOK ==
  /\ OnePendingPerFault
  /\ \A w \in Workers : (\A v \in Workers : v # w => At(v, "idle")) => KnowsCache(task[w], pendingKeys)
  /\ (\A w \in Workers : At(w, "idle")) => \A k \in Faults : Waiting(k) <=> k \in pendingKeys

\* The other handlers are not running.
Alone(w) == \A v \in Workers : v # w => At(v, "idle")

\* One handler at a time: the one that moves is alone, before and after its step.
LEMMA MovesAlone ==
  ASSUME IInv, OneAtATime, OneAtATime', NEW w \in Workers, NEW u, OneMoves(w, u),
         ~At(w, "idle") \/ u.pc # "idle"
  PROVE  Alone(w)
BY DEF OneAtATime, OneMoves, At, Alone

\* If the worker that moved knows the cache, and every other one is idle, the
\* invariant holds again.
LEMMA CacheMoves ==
  ASSUME NEW w \in Workers, NEW u, OneMoves(w, u), Alone(w),
         OnePendingPerFault',
         KnowsCache(u, pendingKeys)'
  PROVE  CacheOK'
<1>1. \A v \in Workers : v # w => At(v, "idle")'
  BY DEF Alone, OneMoves, At
<1>2. task'[w] = u
  BY DEF OneMoves
<1>3. ASSUME NEW v \in Workers, (\A x \in Workers : x # v => At(x, "idle"))'
      PROVE  KnowsCache(task[v], pendingKeys)'
  <2>1. CASE v = w
    BY <1>2, <2>1 DEF KnowsCache
  <2>2. CASE v # w
    <3>1. task'[v].pc = "idle" /\ u.pc = "idle"
      BY <1>1, <1>2, <1>3, <2>2 DEF At
    <3>2. QED
      BY <3>1 DEF KnowsCache
  <2>3. QED
    BY <2>1, <2>2
<1>4. ASSUME \A v \in Workers : At(v, "idle")' PROVE (\A k \in Faults : Waiting(k) <=> k \in pendingKeys)'
  <2>1. u.pc = "idle"
    BY <1>2, <1>4 DEF At
  <2>2. QED
    BY <2>1 DEF KnowsCache
<1>5. QED
  BY <1>1, <1>3, <1>4 DEF CacheOK

\* Nothing the cache depends on changes, and w goes on at a place where it
\* remembers nothing of the cache: it must not have had a key to add or evict.
LEMMA CacheStays ==
  ASSUME IInv, CacheOK, NEW w \in Workers, NEW u, OneMoves(w, u), Alone(w), pendingKeys' = pendingKeys,
         \A p \in Proposals : (Pending(p)' <=> Pending(p)) /\ (Pending(p) => row'[p].key = row[p].key),
         task[w].pc \notin {"addKey", "evict"}, u.pc \notin {"addKey", "evict"},
         u.pc = "insert" => u.key \notin pendingKeys,
         u.pc \in {"approveUpdate", "rejectUpdate"} =>
           u.evict = (IF Pending(u.prop) THEN row[u.prop].key ELSE None)'
  PROVE  CacheOK'
<1>1. OnePendingPerFault'
  BY DEF CacheOK, OnePendingPerFault
<1>2. \A k \in Faults : Waiting(k)' <=> Waiting(k)
  BY DEF Waiting
<1>3. \A k \in Faults : Waiting(k) <=> k \in pendingKeys
  BY DEF CacheOK, Alone, KnowsCache
<1>4. KnowsCache(u, pendingKeys)'
  BY <1>2, <1>3 DEF KnowsCache
<1>5. QED
  BY <1>1, <1>4, CacheMoves

\* Without failing statements, a statement writes its row and goes on.
LEMMA WritesAndGoesOn ==
  ASSUME IInv, DbFaults = {}, NEW w \in Workers, NEW p \in Proposals, NEW r, NEW ok,
         DbWrite(w, [row EXCEPT ![p] = r], ok)
  PROVE  RowBecomes(p, r) /\ OneMoves(w, ok)
<1>1. row' = [row EXCEPT ![p] = r] /\ Goto(w, ok)
  BY DEF DbWrite
<1>2. RowBecomes(p, r)
  BY <1>1 DEF IInv, TypeOK, RowBecomes
<1>3. QED
  BY <1>1, <1>2, OneHandlerMoves

\* RemediationStore::insert: the row appears, its key is not cached yet.
LEMMA InsertCache ==
  ASSUME IInv, UInv, CacheOK, DbFaults = {}, OneAtATime, OneAtATime', NEW w \in Workers, InsertRow(w)
  PROVE  CacheOK'
<1> DEFINE t == task[w]
           r == [NoRow EXCEPT !.state = "pending", !.key = t.key]
<1>0. PICK u : u = [t EXCEPT !.pc = "addKey"]
  OBVIOUS
<1>1. /\ At(w, "insert") /\ pendingKeys' = pendingKeys
      /\ DbWrite(w, [row EXCEPT ![t.prop] = r], u)
  BY <1>0 DEF InsertRow
<1>2. t \in Task /\ t.prop \in Proposals /\ t.key \in Faults /\ row[t.prop].state = "absent"
  BY <1>1 DEF IInv, TypeOK, TaskOK, Carries, At, UInv, OwnProposal
<1>3. r.state = "pending" /\ r.key = t.key /\ u.pc = "addKey" /\ u.key = t.key
  BY <1>0, <1>2 DEF NoRow, Task
<1> HIDE DEF r
<1>4. RowBecomes(t.prop, r) /\ OneMoves(w, u)
  BY <1>1, <1>2, WritesAndGoesOn
<1>5. Alone(w)
  BY <1>1, <1>4, MovesAlone DEF At
<1>6. KnowsCache(t, pendingKeys)
  BY <1>5 DEF CacheOK, Alone
<1>7. t.key \notin pendingKeys /\ \A k \in Faults : Waiting(k) <=> k \in pendingKeys
  BY <1>1, <1>6 DEF KnowsCache, At
<1>8. PICK p \in Proposals, x \in Faults : p = t.prop /\ x = t.key
  BY <1>2
<1>9. /\ Pending(p)' /\ row'[p].key = x /\ ~Pending(p)
      /\ \A q \in Proposals : q # p => (Pending(q)' <=> Pending(q)) /\ row'[q].key = row[q].key
  BY <1>2, <1>3, <1>4, <1>8 DEF RowBecomes, Pending
<1>10. \A q \in Proposals : Pending(q) => row[q].key # x
  BY <1>7, <1>8 DEF Waiting
<1>11. OnePendingPerFault'
  BY <1>9, <1>10 DEF CacheOK, OnePendingPerFault
<1>12. \A k \in Faults : Waiting(k)' <=> Waiting(k) \/ k = x
  BY <1>9 DEF Waiting
<1>13. KnowsCache(u, pendingKeys)'
  BY <1>1, <1>3, <1>7, <1>8, <1>12 DEF KnowsCache
<1>14. QED
  BY <1>4, <1>5, <1>11, <1>13, CacheMoves

\* The key follows its row into the cache, or out of it.
LEMMA KeyCatchesUp ==
  ASSUME IInv, CacheOK, OneAtATime, OneAtATime', NEW w \in Workers, AddKey(w) \/ Evict(w)
  PROVE  CacheOK'
<1>1. OneMoves(w, Idle) /\ row' = row /\ Idle.pc = "idle"
  BY OneHandlerMoves DEF AddKey, Evict, Finish, Idle
<1>2. Alone(w)
  BY <1>1, MovesAlone DEF AddKey, Evict, At
<1>3. KnowsCache(task[w], pendingKeys)
  BY <1>2 DEF CacheOK, Alone
<1>4. OnePendingPerFault'
  BY <1>1 DEF CacheOK, OnePendingPerFault, Pending
<1>5. \A k \in Faults : Waiting(k)' <=> Waiting(k)
  BY <1>1 DEF Waiting, Pending
<1>6. \A k \in Faults : Waiting(k) <=> k \in pendingKeys'
  BY <1>3 DEF AddKey, Evict, At, KnowsCache
<1>7. KnowsCache(Idle, pendingKeys)'
  BY <1>1, <1>5, <1>6 DEF KnowsCache
<1>8. QED
  BY <1>1, <1>2, <1>4, <1>7, CacheMoves

\* An UPDATE that decides the row of p: its key, if it was pending, is the one the
\* handler goes on to evict.
LEMMA DecideCache ==
  ASSUME IInv, CacheOK, OneAtATime, OneAtATime', NEW w \in Workers, NEW p \in Proposals, NEW r,
         task[w].pc \in {"approveUpdate", "rejectUpdate"}, p = task[w].prop,
         RowBecomes(p, r), r.state \in {"approved", "rejected"}, pendingKeys' = pendingKeys,
         OneMoves(w, IF task[w].evict = None THEN Idle ELSE [task[w] EXCEPT !.pc = "evict"])
  PROVE  CacheOK'
<1> DEFINE t == task[w]
<1>1. PICK u : u = IF t.evict = None THEN Idle ELSE [t EXCEPT !.pc = "evict"]
  OBVIOUS
<1>2. OneMoves(w, u)
  BY <1>1
<1>3. t \in Task /\ row[p] \in Row
  BY DEF IInv, TypeOK
<1>4. /\ t.evict = None => u.pc = "idle"
      /\ t.evict # None => u.pc = "evict" /\ u.evict = t.evict
  BY <1>1, <1>3 DEF Idle, Task
<1>5. Alone(w)
  BY <1>2, MovesAlone DEF At
<1>6. KnowsCache(t, pendingKeys)
  BY <1>5 DEF CacheOK, Alone
<1>7. /\ t.evict = IF Pending(p) THEN row[p].key ELSE None
      /\ \A k \in Faults : Waiting(k) <=> k \in pendingKeys
  BY <1>6 DEF KnowsCache
<1>8. /\ ~Pending(p)'
      /\ \A q \in Proposals : q # p => (Pending(q)' <=> Pending(q)) /\ row'[q].key = row[q].key
  BY DEF RowBecomes, Pending
<1>9. OnePendingPerFault'
  BY <1>8 DEF CacheOK, OnePendingPerFault
<1>10. CASE Pending(p)
  <2>1. row[p].key \in Faults /\ t.evict = row[p].key /\ t.evict # None
    BY <1>7, <1>10 DEF IInv, RowOK, Pending
  <2>2. \A q \in Proposals : Pending(q) /\ row[q].key = t.evict => q = p
    BY <1>10, <2>1 DEF CacheOK, OnePendingPerFault
  <2>3. \A k \in Faults : Waiting(k)' <=> Waiting(k) /\ k # t.evict
    BY <1>8, <1>10, <2>1, <2>2 DEF Waiting
  <2>4. KnowsCache(u, pendingKeys)'
    BY <1>4, <1>7, <2>1, <2>3 DEF KnowsCache
  <2>5. QED
    BY <1>2, <1>5, <1>9, <2>4, CacheMoves
<1>11. CASE ~Pending(p)
  <2>1. u.pc = "idle"
    BY <1>4, <1>7, <1>11
  <2>2. \A k \in Faults : Waiting(k)' <=> Waiting(k)
    BY <1>8, <1>11 DEF Waiting
  <2>3. KnowsCache(u, pendingKeys)'
    BY <1>7, <2>1, <2>2 DEF KnowsCache
  <2>4. QED
    BY <1>2, <1>5, <1>9, <2>3, CacheMoves
<1>12. QED
  BY <1>10, <1>11

\* The steps that leave rows and cache alone.
LEMMA QuietCache ==
  ASSUME IInv, CacheOK, OneAtATime, OneAtATime', NEW w \in Workers, NEW u, OneMoves(w, u),
         row' = row, pendingKeys' = pendingKeys, ~At(w, "idle") \/ u.pc # "idle",
         task[w].pc \notin {"addKey", "evict"}, u.pc \notin {"addKey", "evict"},
         u.pc = "insert" => u.key \notin pendingKeys,
         u.pc \in {"approveUpdate", "rejectUpdate"} =>
           u.evict = IF Pending(u.prop) THEN row[u.prop].key ELSE None
  PROVE  CacheOK'
<1>1. Alone(w)
  BY MovesAlone
<1>2. \A p : (Pending(p)' <=> Pending(p)) /\ row'[p].key = row[p].key
  BY DEF Pending
<1>3. u.pc \in {"approveUpdate", "rejectUpdate"} =>
        u.evict = (IF Pending(u.prop) THEN row[u.prop].key ELSE None)'
  BY <1>2
<1>4. QED
  BY <1>1, <1>2, <1>3, CacheStays

\* The starts of the handlers.
LEMMA StartCache ==
  ASSUME IInv, CacheOK, DbFaults = {}, OneAtATime, OneAtATime', NEW w \in Workers, HandlerStart(w)
  PROVE  CacheOK'
<1>1. ASSUME NEW k \in Faults, NEW p \in Proposals, PrepareApprove(w, k, p) PROVE CacheOK'
  <2>1. PICK u : u = [Idle EXCEPT !.pc = "insert", !.prop = p, !.key = k]
    OBVIOUS
  <2>2. u.pc = "insert" /\ u.key = k /\ OneMoves(w, u) /\ k \notin pendingKeys
    BY <1>1, <2>1, OneHandlerMoves DEF PrepareApprove, Idle
  <2>3. At(w, "idle") /\ UNCHANGED <<row, pendingKeys>>
    BY <1>1 DEF PrepareApprove
  <2>4. QED
    BY <2>2, <2>3, QuietCache DEF At
<1>2. ASSUME NEW k \in Faults, NEW p \in Proposals, NEW c \in Commands, PrepareAuto(w, k, p, c)
      PROVE  CacheOK'
  <2>1. PICK u : u = [Idle EXCEPT !.pc = "autoInsert", !.prop = p, !.key = k, !.cmd = c]
    OBVIOUS
  <2>2. u.pc = "autoInsert" /\ OneMoves(w, u)
    BY <1>2, <2>1, OneHandlerMoves DEF PrepareAuto, Idle
  <2>3. At(w, "idle") /\ UNCHANGED <<row, pendingKeys>>
    BY <1>2 DEF PrepareAuto
  <2>4. QED
    BY <2>2, <2>3, QuietCache DEF At
<1>3. ASSUME NEW p \in Proposals, ApproveFetch(w, p) PROVE CacheOK'
  <2>1. PICK u : u = [Idle EXCEPT !.pc = "approveSign", !.prop = p]
    OBVIOUS
  <2>2. u.pc = "approveSign" /\ OneMoves(w, u)
    BY <1>3, <2>1, OneHandlerMoves DEF ApproveFetch, Idle
  <2>3. At(w, "idle") /\ UNCHANGED <<row, pendingKeys>>
    BY <1>3 DEF ApproveFetch
  <2>4. QED
    BY <2>2, <2>3, QuietCache DEF At
<1>4. ASSUME NEW p \in Proposals, RejectReadKey(w, p) PROVE CacheOK'
  <2>1. PICK k : /\ k = IF Pending(p) THEN row[p].key ELSE None
                 /\ Goto(w, [Idle EXCEPT !.pc = "rejectUpdate", !.prop = p, !.evict = k])
    BY <1>4 DEF RejectReadKey, MaybeKey
  <2>2. PICK u : u = [Idle EXCEPT !.pc = "rejectUpdate", !.prop = p, !.evict = k]
    OBVIOUS
  <2>3. u.pc = "rejectUpdate" /\ u.prop = p /\ u.evict = k /\ OneMoves(w, u)
    BY <2>1, <2>2, OneHandlerMoves DEF Idle
  <2>4. At(w, "idle") /\ UNCHANGED <<row, pendingKeys>>
    BY <1>4 DEF RejectReadKey
  <2>5. QED
    BY <2>1, <2>3, <2>4, QuietCache DEF At
<1>5. QED
  BY <1>1, <1>2, <1>3, <1>4 DEF HandlerStart

\* The steps of a running handler.
LEMMA StepCache ==
  ASSUME IInv, UInv, CacheOK, DbFaults = {}, OneAtATime, OneAtATime', NEW w \in Workers, HandlerStep(w)
  PROVE  CacheOK'
<1> DEFINE t == task[w]
<1>1. t \in Task
  BY DEF IInv, TypeOK
<1>2. CASE InsertRow(w)
  BY <1>2, InsertCache
<1>3. CASE AddKey(w) \/ Evict(w)
  BY <1>3, KeyCatchesUp
<1>4. CASE AutoInsertRow(w)
  <2> DEFINE r == [state |-> "approved", key |-> t.key, cmd |-> t.cmd, result |-> None]
  <2>1. PICK u : u = [t EXCEPT !.pc = "autoEnqueue"]
    OBVIOUS
  <2>2. /\ At(w, "autoInsert") /\ pendingKeys' = pendingKeys
        /\ DbWrite(w, [row EXCEPT ![t.prop] = r], u)
    BY <1>4, <2>1 DEF AutoInsertRow
  <2>3. t.prop \in Proposals /\ row[t.prop].state = "absent"
    BY <2>2 DEF IInv, TaskOK, Carries, At, UInv, OwnProposal
  <2>4. r.state = "approved" /\ u.pc = "autoEnqueue"
    BY <1>1, <2>1 DEF Task
  <2> HIDE DEF r
  <2>5. RowBecomes(t.prop, r) /\ OneMoves(w, u)
    BY <2>2, <2>3, WritesAndGoesOn
  <2>6. \A p \in Proposals : (Pending(p)' <=> Pending(p)) /\ (Pending(p) => row'[p].key = row[p].key)
    BY <2>3, <2>4, <2>5 DEF RowBecomes, Pending
  <2>7. Alone(w)
    BY <2>2, <2>5, MovesAlone DEF At
  <2>8. QED
    BY <2>2, <2>4, <2>5, <2>6, <2>7, CacheStays DEF At
<1>5. CASE AutoEnqueue(w) \/ ApproveRefused(w)
  <2>1. OneMoves(w, Idle) /\ Idle.pc = "idle"
    BY <1>5, OneHandlerMoves DEF AutoEnqueue, ApproveRefused, Finish, Idle
  <2>2. t.pc \in {"autoEnqueue", "approveSign"} /\ UNCHANGED <<row, pendingKeys>>
    BY <1>5 DEF AutoEnqueue, ApproveRefused, At
  <2>3. QED
    BY <2>1, <2>2, QuietCache DEF At
<1>6. ASSUME NEW c \in Commands, ApproveIssue(w, c) PROVE CacheOK'
  <2>1. PICK u : u = [t EXCEPT !.pc = "approveKey", !.cmd = c]
    OBVIOUS
  <2>2. u.pc = "approveKey" /\ OneMoves(w, u)
    BY <1>1, <1>6, <2>1, OneHandlerMoves DEF ApproveIssue, Task
  <2>3. At(w, "approveSign") /\ UNCHANGED <<row, pendingKeys>>
    BY <1>6 DEF ApproveIssue
  <2>4. QED
    BY <2>2, <2>3, QuietCache DEF At
<1>7. CASE ApproveReadKey(w)
  <2>1. PICK k : /\ k = IF Pending(t.prop) THEN row[t.prop].key ELSE None
                 /\ Goto(w, [t EXCEPT !.pc = "approveUpdate", !.evict = k])
    BY <1>7 DEF ApproveReadKey, MaybeKey
  <2>2. PICK u : u = [t EXCEPT !.pc = "approveUpdate", !.evict = k]
    OBVIOUS
  <2>3. u.pc = "approveUpdate" /\ u.prop = t.prop /\ u.evict = k /\ OneMoves(w, u)
    BY <1>1, <2>1, <2>2, OneHandlerMoves DEF Task
  <2>4. At(w, "approveKey") /\ UNCHANGED <<row, pendingKeys>>
    BY <1>7 DEF ApproveReadKey
  <2>5. QED
    BY <2>1, <2>3, <2>4, QuietCache DEF At
<1>8. CASE ApproveUpdate(w)
  <2>1. At(w, "approveUpdate") /\ pendingKeys' = pendingKeys
    BY <1>8 DEF ApproveUpdate
  <2>2. t.prop \in Proposals /\ row[t.prop] \in Row
    BY <2>1 DEF IInv, TypeOK, TaskOK, Carries, At
  <2>3. CASE Pending(t.prop)
    <3> DEFINE r == [row[t.prop] EXCEPT !.state = "approved", !.cmd = t.cmd]
               ok == IF t.evict = None THEN Idle ELSE [t EXCEPT !.pc = "evict"]
    <3>1. [row EXCEPT ![t.prop].state = "approved", ![t.prop].cmd = t.cmd] = [row EXCEPT ![t.prop] = r]
      BY <2>2 DEF IInv, TypeOK
    <3>2. DbWrite(w, [row EXCEPT ![t.prop] = r], ok) /\ r.state = "approved"
      BY <1>8, <2>2, <2>3, <3>1 DEF ApproveUpdate, Row
    <3> HIDE DEF r
    <3>3. RowBecomes(t.prop, r) /\ OneMoves(w, ok)
      BY <2>2, <3>2, WritesAndGoesOn
    <3>4. QED
      BY <2>1, <2>2, <3>2, <3>3, DecideCache DEF At
  <2>4. CASE ~Pending(t.prop)
    <3>1. row' = row /\ OneMoves(w, Idle) /\ Idle.pc = "idle"
      BY <1>8, <2>4, OneHandlerMoves DEF ApproveUpdate, Finish, Idle
    <3>2. QED
      BY <2>1, <3>1, QuietCache DEF At
  <2>5. QED
    BY <2>3, <2>4
<1>9. CASE RejectUpdate(w)
  <2> DEFINE r == [row[t.prop] EXCEPT !.state = "rejected"]
             ok == IF t.evict = None THEN Idle ELSE [t EXCEPT !.pc = "evict"]
  <2>1. At(w, "rejectUpdate") /\ pendingKeys' = pendingKeys
    BY <1>9 DEF RejectUpdate
  <2>2. t.prop \in Proposals /\ row[t.prop] \in Row
    BY <2>1 DEF IInv, TypeOK, TaskOK, Carries, At
  <2>3. [row EXCEPT ![t.prop].state = "rejected"] = [row EXCEPT ![t.prop] = r]
    BY <2>2 DEF IInv, TypeOK
  <2>4. DbWrite(w, [row EXCEPT ![t.prop] = r], ok) /\ r.state = "rejected"
    BY <1>9, <2>2, <2>3 DEF RejectUpdate, Row
  <2> HIDE DEF r
  <2>5. RowBecomes(t.prop, r) /\ OneMoves(w, ok)
    BY <2>2, <2>4, WritesAndGoesOn
  <2>6. QED
    BY <2>1, <2>2, <2>4, <2>5, DecideCache DEF At
<1>10. QED
  BY <1>2, <1>3, <1>4, <1>5, <1>6, <1>7, <1>8, <1>9 DEF HandlerStep

\* RemediationStore::new: the cache is what the rows say, and nobody is running.
LEMMA RestartCache == ASSUME IInv, CacheOK, ServerRestart PROVE CacheOK'
<1>1. /\ row' = row /\ task' = [w \in Workers |-> Idle]
      /\ pendingKeys' = {row[p].key : p \in {q \in Proposals : Pending(q)}}
  BY DEF ServerRestart
<1>2. \A p \in Proposals : Pending(p)' <=> Pending(p)
  BY <1>1 DEF Pending
<1>3. \A k \in Faults : Waiting(k)' <=> k \in pendingKeys'
  BY <1>1, <1>2 DEF Waiting
<1>4. \A w \in Workers : task'[w] = Idle /\ Idle.pc = "idle"
  BY <1>1 DEF Idle
<1>5. \A w \in Workers : KnowsCache(task[w], pendingKeys)'
  BY <1>3, <1>4 DEF KnowsCache
<1>6. OnePendingPerFault'
  BY <1>1, <1>2 DEF CacheOK, OnePendingPerFault
<1>7. QED
  BY <1>3, <1>5, <1>6 DEF CacheOK

\* The agents' steps do not touch what the cache depends on.
LEMMA StillCache == ASSUME IInv, CacheOK, ServerStill PROVE CacheOK'
<1>1. /\ UNCHANGED <<task, pendingKeys>>
      /\ \A p \in Proposals : (Pending(p)' <=> Pending(p)) /\ row'[p].key = row[p].key
  BY DEF ServerStill, Pending
<1>2. \A k \in Faults : Waiting(k)' <=> Waiting(k)
  BY <1>1 DEF Waiting
<1>3. \A w \in Workers : task[w].pc \in {"approveUpdate", "rejectUpdate"} => task[w].prop \in Proposals
  BY DEF IInv, TaskOK, Carries
<1>4. ASSUME NEW w \in Workers, KnowsCache(task[w], pendingKeys) PROVE KnowsCache(task[w], pendingKeys)'
  BY <1>1, <1>2, <1>3, <1>4 DEF KnowsCache
<1>5. QED
  BY <1>1, <1>2, <1>4 DEF CacheOK, OnePendingPerFault, At

\* When the handlers run one at a time and no statement fails, the dedup cache of
\* RemediationStore is exactly the keys of the pending rows whenever the server is
\* at rest, and no fault has two pending proposals, whatever the agents do and
\* however often the server restarts: the stale keys of run lifecycle_stale_cache
\* and the doubled proposals all come from handlers that overlap or statements that
\* fail.
THEOREM SerialCacheInSync ==
  ASSUME DbFaults = {}
  PROVE  Spec /\ []OneAtATime => [](CacheInSync /\ OnePendingPerFault)
<1>1. Init => CacheOK
  BY DEF Init, CacheOK, OnePendingPerFault, Waiting, KnowsCache, Pending, NoRow, Idle
<1>2. IInv /\ UInv /\ CacheOK /\ [Next]_vars /\ OneAtATime /\ OneAtATime' => CacheOK'
  BY WhoMoves, StillCache, RestartCache, StartCache, StepCache
<1>3. CacheOK => OnePendingPerFault
  BY DEF CacheOK
<1>4. IInv /\ CacheOK => CacheInSync
  <2> SUFFICES ASSUME IInv, CacheOK, \A w \in Workers : At(w, "idle")
               PROVE  pendingKeys = {row[p].key : p \in {q \in Proposals : Pending(q)}}
    BY DEF CacheInSync
  <2>1. \A k \in Faults : Waiting(k) <=> k \in pendingKeys
    BY DEF CacheOK
  <2>2. pendingKeys \subseteq Faults /\ \A p \in Proposals : Pending(p) => row[p].key \in Faults
    BY DEF IInv, TypeOK, RowOK, Pending
  <2>3. QED
    BY <2>1, <2>2 DEF Waiting
<1>5. QED
  BY <1>1, <1>2, <1>3, <1>4, Invariance, Uniqueness, PTL DEF Spec
=============================================================================
