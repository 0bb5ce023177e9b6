---------------------------- MODULE MCAgentParts ----------------------------
(***************************************************************************)
(* Parts of the host agent and of the Kubernetes agents that share no      *)
(* state, side by side for TLC: `focus` chooses the one that runs, and the *)
(* others stay as they are.                                                *)
(***************************************************************************)
EXTENDS KeyRotation, Enrollment, PollLoop, HostTaps, DigestWindow, KubeWatch, LogDedup, KubeCommands

VARIABLE focus
Parts == {"rotation", "enrollment", "poll", "taps", "digest", "watch", "logs", "executor"}
partVars == <<focus, krVars, enVars, plVars, htVars, dgVars, kwVars, ldVars, kcVars>>

\* A part that does not run is in one initial state (a poll loop waits for ever there).
PartsInit ==
  /\ focus \in Parts
  /\ KrInit /\ (focus # "rotation" => faults = {})
  /\ EnInit /\ (focus # "enrollment" => sendsRing)
  /\ PlInit /\ (focus # "poll" => base = MinPoll /\ reachable /\ silent = {"server", "actuator"})
  /\ HtInit /\ (focus # "taps" => tap = "journal" /\
                  settings = [min_priority |-> 4, auth_enable |-> FALSE, skip_kernel |-> FALSE])
  /\ DgInit
  /\ KwInit /\ (focus # "watch" => watch = "events")
  /\ LdInit
  /\ KcInit

PartsNext ==
  /\ \/ focus = "rotation" /\ KrNext
        /\ UNCHANGED <<enVars, plVars, htVars, dgVars, kwVars, ldVars, kcVars>>
     \/ focus = "enrollment" /\ EnNext
        /\ UNCHANGED <<krVars, plVars, htVars, dgVars, kwVars, ldVars, kcVars>>
     \/ focus = "poll" /\ PlNext
        /\ UNCHANGED <<krVars, enVars, htVars, dgVars, kwVars, ldVars, kcVars>>
     \/ focus = "taps" /\ HtNext
        /\ UNCHANGED <<krVars, enVars, plVars, dgVars, kwVars, ldVars, kcVars>>
     \/ focus = "digest" /\ DgNext
        /\ UNCHANGED <<krVars, enVars, plVars, htVars, kwVars, ldVars, kcVars>>
     \/ focus = "watch" /\ KwNext
        /\ UNCHANGED <<krVars, enVars, plVars, htVars, dgVars, ldVars, kcVars>>
     \/ focus = "logs" /\ LdNext
        /\ UNCHANGED <<krVars, enVars, plVars, htVars, dgVars, kwVars, kcVars>>
     \/ focus = "executor" /\ KcNext
        /\ UNCHANGED <<krVars, enVars, plVars, htVars, dgVars, kwVars, ldVars>>
  /\ UNCHANGED focus

\* While its part runs: the agent's poll loop never ends, and a fetch of the keyring
\* that is tried again and again succeeds at last; a sleep ends, and a peer that is
\* not silent answers in the end.
PartsSpec ==
  /\ PartsInit /\ [][PartsNext]_partVars
  /\ WF_krVars(focus = "rotation" /\ AgentStep /\ UNCHANGED faults)
  /\ SF_krVars(focus = "rotation" /\ RefreshPinned /\ UNCHANGED faults)
  /\ WF_plVars(focus = "poll" /\ Wake)
  /\ WF_plVars(focus = "poll" /\ "server" \notin silent /\ AwaitsServer)
  /\ WF_plVars(focus = "poll" /\ "actuator" \notin silent /\ AwaitsActuator)

-----------------------------------------------------------------------------
(* The instance *)

Rec(i, text, priority, kernel, message) ==
  [ident |-> i, text |-> text, priority |-> priority, kernel |-> kernel, message |-> message]
MCRecords ==
  {Rec("sshd", "failed", 6, FALSE, TRUE), Rec("sshd", "accepted", 6, FALSE, TRUE),
   Rec("sshd", "session", 6, FALSE, TRUE), Rec("sshd", "other", 7, FALSE, TRUE),
   Rec("sudo", "failed", 5, FALSE, TRUE), Rec("audit", "failed", 6, FALSE, TRUE),
   Rec("other", "session", 6, FALSE, TRUE), Rec("other", "other", 4, TRUE, TRUE),
   Rec("other", "other", 3, FALSE, FALSE)}

Shape(kind, valid, times) == [kind |-> kind, valid |-> valid, expires |-> 1, sends |-> times]
MCOrders == <<Shape("delete", TRUE, 2), Shape("restart", TRUE, 1), Shape("delete", FALSE, 1)>>
=============================================================================
