---------------------------- MODULE KubeCommands ----------------------------
(***************************************************************************)
(* The in-cluster executor (ravn-k8s command_loop.rs, executor.rs,         *)
(* bin/ravn-k8s-executor.rs): signed envelopes come in on a NATS subject,  *)
(* are told apart by an in-memory set of command ids, and run through      *)
(* handle_command (Actuator's subject: here its verification, its steps    *)
(* and its post-condition) against the Kubernetes API.                     *)
(*                                                                         *)
(* External: the sender, who may send an envelope again; the cluster,      *)
(* where a deleted pod of a deployment is replaced by one that is Pending  *)
(* and then Running, and where pods of other phases come and go.           *)
(***************************************************************************)
EXTENDS Naturals, Sequences

CONSTANTS
  OrderShape,  \* the signed commands, numbered: [kind : "delete", "restart" or "host",
               \*   valid : BOOLEAN, expires : Nat, sends : Nat], the last a bound on
               \*   how often it is sent
  Replicas,    \* the pods that match the prefix the post-condition asks about
  MaxHour,     \* bound on the time
  MaxLives     \* bound on the restarts of the executor

ASSUME OrdersAssumption ==
  /\ OrderShape \in Seq([kind : {"delete", "restart", "host"}, valid : BOOLEAN,
                         expires : Nat, sends : Nat])
  /\ {MaxHour, MaxLives} \subseteq Nat

Orders == DOMAIN OrderShape
NoOrder == 0

VARIABLES
  hour,
  sends,       \* order -> how often it has been sent
  inbox,       \* the subscription: order -> messages waiting
  executed,    \* the ids this process has taken up
  handling,    \* the order in handle_command, or NoOrder
  stage,       \* "verify", "steps" or "check" of it
  pods,        \* replica -> its phase: Absent, Pending, Running or Failed
  acted,       \* order -> [life -> how often it changed the cluster]
  answers,     \* order -> the results published: [status, settled]
  lives        \* the number of this process

kcVars == <<hour, sends, inbox, executed, handling, stage, pods, acted, answers, lives>>

KcInit ==
  /\ hour = 0
  /\ sends = [o \in Orders |-> 0] /\ inbox = [o \in Orders |-> 0]
  /\ executed = {} /\ handling = NoOrder /\ stage = "verify"
  /\ pods = [r \in Replicas |-> "Failed"]
  /\ acted = [o \in Orders |-> [n \in 0..MaxLives |-> 0]]
  /\ answers = [o \in Orders |-> {}] /\ lives = 0

-----------------------------------------------------------------------------
(* External *)

KcTick ==
  /\ hour < MaxHour /\ hour' = hour + 1
  /\ UNCHANGED <<sends, inbox, executed, handling, stage, pods, acted, answers, lives>>

SendOrder(o) ==
  /\ sends[o] < OrderShape[o].sends
  /\ sends' = [sends EXCEPT ![o] = @ + 1]
  /\ inbox' = [inbox EXCEPT ![o] = @ + 1]
  /\ UNCHANGED <<hour, executed, handling, stage, pods, acted, answers, lives>>

PhaseMoves(r) ==
  /\ \/ pods[r] = "Absent" /\ pods' = [pods EXCEPT ![r] = "Pending"]
     \/ pods[r] = "Pending" /\ pods' = [pods EXCEPT ![r] = "Running"]
     \/ pods[r] = "Running" /\ pods' = [pods EXCEPT ![r] = "Failed"]
  /\ UNCHANGED <<hour, sends, inbox, executed, handling, stage, acted, answers, lives>>

-----------------------------------------------------------------------------
(* run_command_loop *)

Take(o) ==
  /\ handling = NoOrder /\ inbox[o] > 0
  /\ inbox' = [inbox EXCEPT ![o] = @ - 1]

\* A duplicate: dropped without an answer.
DropDuplicate(o) ==
  /\ Take(o) /\ o \in executed
  /\ UNCHANGED <<hour, sends, executed, handling, stage, pods, acted, answers, lives>>

\* (mutation of Begin: the id is kept only once the command has succeeded)
BeginUnrecorded(o) ==
  /\ Take(o) /\ o \notin executed
  /\ UNCHANGED executed
  /\ handling' = o /\ stage' = "verify"
  /\ UNCHANGED <<hour, sends, pods, acted, answers, lives>>

\* The id is recorded before anything of the envelope is verified.
Begin(o) ==
  /\ Take(o) /\ o \notin executed
  /\ executed' = executed \cup {o}
  /\ handling' = o /\ stage' = "verify"
  /\ UNCHANGED <<hour, sends, pods, acted, answers, lives>>

\* The result is published, or lost; either way the loop goes on.
PublishResult(status) ==
  /\ handling' = NoOrder
  /\ \/ answers' = [answers EXCEPT ![handling] =
          @ \cup {[status |-> status, settled |-> \A r \in Replicas : pods[r] \in {"Absent", "Running"}]}]
     \/ UNCHANGED answers
  /\ UNCHANGED stage

\* handle_command: signature and expiry, then every name.
VerifyOrder ==
  /\ handling # NoOrder /\ stage = "verify"
  /\ IF hour < OrderShape[handling].expires /\ OrderShape[handling].valid
       THEN stage' = "steps" /\ UNCHANGED <<handling, answers>>
       ELSE PublishResult("rejected")
  /\ UNCHANGED <<hour, sends, inbox, executed, pods, acted, lives>>

\* delete_pod and restart_deployment. Host capabilities are not supported, and the
\* API server may refuse or the pod be gone.
RunOrder ==
  /\ handling # NoOrder /\ stage = "steps"
  /\ \/ /\ OrderShape[handling].kind # "host"
        /\ \E r \in Replicas :
             /\ pods[r] # "Absent"
             /\ pods' = IF OrderShape[handling].kind = "delete" THEN [pods EXCEPT ![r] = "Absent"]
                        ELSE [s \in Replicas |-> "Pending"]
        /\ acted' = [acted EXCEPT ![handling][lives] = @ + 1]
        /\ stage' = "check" /\ UNCHANGED <<handling, answers>>
     \/ PublishResult("failed") /\ UNCHANGED <<pods, acted>>
  /\ UNCHANGED <<hour, sends, inbox, executed, lives>>

\* pod_state: the phase of a matching pod that does not run, if there is one.
PodState ==
  LET present == {r \in Replicas : pods[r] # "Absent"}
      troubled == {r \in present : pods[r] # "Running"}
  IN  IF troubled # {} THEN {pods[r] : r \in troubled}
      ELSE IF present # {} THEN {"Running"} ELSE {}

\* The post-condition: Running, or the command has failed (no pod at all is an error).
CheckOrder ==
  /\ handling # NoOrder /\ stage = "check"
  /\ \/ "Running" \in PodState /\ PublishResult("succeeded")
     \/ PodState # {"Running"} /\ PublishResult("failed")
  /\ UNCHANGED <<hour, sends, inbox, executed, pods, acted, lives>>

\* The process ends: the ids, the command in hand and the messages go with it.
ExecutorRestart ==
  /\ lives < MaxLives /\ lives' = lives + 1
  /\ executed' = {} /\ handling' = NoOrder /\ stage' = "verify"
  /\ inbox' = [o \in Orders |-> 0]
  /\ UNCHANGED <<hour, sends, pods, acted, answers>>

KcNext ==
  \/ KcTick \/ VerifyOrder \/ RunOrder \/ CheckOrder \/ ExecutorRestart
  \/ \E o \in Orders : SendOrder(o) \/ DropDuplicate(o) \/ Begin(o)
  \/ \E r \in Replicas : PhaseMoves(r)

-----------------------------------------------------------------------------
(* Properties *)

\* However often an envelope is delivered: one process changes the cluster for it at
\* most once (the next one may do so again: the ids are only in memory); nothing is
\* done for a name, a capability or a time that is not the executor's; success is only
\* reported of what was done, with every matching pod running.
OrdersRunOnce ==
  \A o \in Orders :
    LET shape == OrderShape[o] IN
    /\ \A n \in 0..MaxLives :
         acted[o][n] <= IF shape.valid /\ shape.kind # "host" /\ shape.expires > 0 THEN 1 ELSE 0
    /\ \A a \in answers[o] :
         a.status = "succeeded" => a.settled /\ \E n \in 0..MaxLives : acted[o][n] = 1
=============================================================================
