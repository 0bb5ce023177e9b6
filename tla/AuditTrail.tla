----------------------------- MODULE AuditTrail -----------------------------
(***************************************************************************)
(* What the remediation_records table promises to whoever reads it         *)
(* (list_remediations, the portal, the MCP tools): how one audit row may   *)
(* change, with no server, queue, agent or fault in sight. The statements  *)
(* are those of ravn-server db.rs; that each of them meets a row in the    *)
(* state assumed here is what RemediationLifecycle is checked for.         *)
(***************************************************************************)
CONSTANTS Proposals, Commands, None

VARIABLE trail  \* proposal -> [state, cmd, result]

Statuses == {"succeeded", "failed", "rejected", "precondition_failed", "frozen"}

Init == trail = [p \in Proposals |-> [state |-> "absent", cmd |-> None, result |-> None]]

\* A command belongs to one row.
Unused(c) == \A p \in Proposals : trail[p].cmd # c

\* insert_remediation
Propose(p) ==
  /\ trail[p].state = "absent"
  /\ trail' = [trail EXCEPT ![p].state = "pending"]

\* insert_auto_approved_remediation
AutoApprove(p, c) ==
  /\ trail[p].state = "absent" /\ Unused(c)
  /\ trail' = [trail EXCEPT ![p].state = "approved", ![p].cmd = c]

\* approve_remediation
Approve(p, c) ==
  /\ trail[p].state = "pending" /\ Unused(c)
  /\ trail' = [trail EXCEPT ![p].state = "approved", ![p].cmd = c]

\* reject_remediation, which takes a row in any state
Reject(p) ==
  /\ trail[p].state # "absent"
  /\ trail' = [trail EXCEPT ![p].state = "rejected"]

\* record_remediation_result: the one row of the command, closed once
Close(p, status) ==
  /\ trail[p].cmd # None /\ trail[p].result = None
  /\ trail' = [trail EXCEPT ![p].result = status]

Next ==
  \E p \in Proposals :
    \/ Propose(p)
    \/ \E c \in Commands : AutoApprove(p, c) \/ Approve(p, c)
    \/ Reject(p)
    \/ \E status \in Statuses : Close(p, status)

Spec == Init /\ [][Next]_trail
=============================================================================
