----------------------------- MODULE MCActuator -----------------------------
(* The instance of Actuator for TLC. *)
EXTENDS Actuator, TLC

CONSTANTS c1, c2, c3, c4, c5

Peer(env, pre, steps, verify, rollback) ==
  [peer |-> TRUE, env |-> env, pre |-> pre, steps |-> steps, verify |-> verify, rollback |-> rollback]

\* A full command, one without preconditions and rollback, two lines that do not get
\* as far as handle_command's verification, and a stranger.
MixedShapes ==
  (c1 :> Peer("host", 2, 2, TRUE, TRUE)) @@ (c2 :> Peer("host", 0, 1, TRUE, FALSE))
  @@ (c3 :> Peer("kube", 0, 1, FALSE, FALSE)) @@ (c4 :> Peer("eof", 0, 0, FALSE, FALSE))
  @@ (c5 :> [Peer("host", 0, 1, FALSE, FALSE) EXCEPT !.peer = FALSE])
=============================================================================
