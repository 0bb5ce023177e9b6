\* One handler at a time and no fault at all: a decided proposal is rejected.
SPECIFICATION Spec
CONSTANTS
  None = None
  Proposals = {p1, p2}
  Commands = {c1, c2}
  Faults = {f1}
  Agents = {a1}
  AgentOf <- MCAgentOf
  Workers = {w1}
  DbFaults = {}
  EnvFaults = {}
SYMMETRY Symmetry
INVARIANT RejectedNotExecuted
