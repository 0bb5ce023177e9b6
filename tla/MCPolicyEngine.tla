--------------------------- MODULE MCPolicyEngine ---------------------------
(* The instance of PolicyEngine for TLC. *)
EXTENDS PolicyEngine, TLC

Rule(hosts, tier, decision) == [hosts |-> hosts, tier |-> tier, decision |-> decision]

\* Overlapping rules: the first host is exempt from what the second rule allows,
\* and the last rule can be reached by no template.
CONSTANTS db, web, restart, wipe
MixedTier == (restart :> "safe") @@ (wipe :> "dangerous")
MixedRules == <<Rule({db}, "safe", "forbid"), Rule({db, web}, "safe", "auto"),
                Rule({db, web}, "dangerous", "auto"), Rule({web}, "safe", "approve")>>

Symmetry == Permutations(Workers)
=============================================================================
