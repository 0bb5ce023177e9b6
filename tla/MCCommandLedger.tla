--------------------------- MODULE MCCommandLedger ---------------------------
(* The instance of CommandLedger for TLC. *)
EXTENDS CommandLedger, TLC

Symmetry == Permutations(Commands)
=============================================================================
