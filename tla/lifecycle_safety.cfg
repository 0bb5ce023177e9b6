\* Two concurrent handlers, every fault enabled.
SPECIFICATION Spec
CONSTANTS
  None = None
  Proposals = {p1, p2}
  Commands = {c1, c2}
  Faults = {f1}
  Agents = {a1}
  AgentOf <- MCAgentOf
  Workers = {w1, w2}
  DbFaults = {"error", "lost_ack"}
  EnvFaults = {"server_restart", "agent_crash", "message_loss"}
SYMMETRY Symmetry
INVARIANTS IssuedIsAudited AuditIsTruthful
PROPERTY AuditTrailSpec
