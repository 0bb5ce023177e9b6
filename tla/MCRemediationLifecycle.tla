----------------------- MODULE MCRemediationLifecycle -----------------------
(* Instances of RemediationLifecycle for TLC. *)
EXTENDS RemediationLifecycle, TLC

\* Spread the faults over the agents.
MCAgentOf ==
  CHOOSE g \in [Faults -> Agents] : {g[f] : f \in Faults} = Agents

Symmetry ==
  Permutations(Proposals) \cup Permutations(Commands) \cup Permutations(Workers)
=============================================================================
