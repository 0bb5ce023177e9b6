\* An approval overtakes the insert of its proposal.
SPECIFICATION Spec
CONSTANTS
  None = None
  Proposals = {p1, p2}
  Commands = {c1, c2}
  Faults = {f1}
  Agents = {a1}
  AgentOf <- MCAgentOf
  Workers = {w1, w2}
  DbFaults = {}
  EnvFaults = {}
SYMMETRY Symmetry
INVARIANT CacheInSync
