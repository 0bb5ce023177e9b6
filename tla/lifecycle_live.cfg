\* No lost database statement and no server restart: what must eventually happen.
SPECIFICATION FairSpec
CONSTANTS
  None = None
  Proposals = {p1}
  Commands = {c1, c2}
  Faults = {f1}
  Agents = {a1}
  AgentOf <- MCAgentOf
  Workers = {w1, w2}
  DbFaults = {}
  EnvFaults = {"agent_crash", "message_loss"}
PROPERTIES CommandsDrain IssuedIsDecided
