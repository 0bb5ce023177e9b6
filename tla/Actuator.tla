------------------------------ MODULE Actuator ------------------------------
(***************************************************************************)
(* The privileged actuator (ravn-actuator lib.rs): the accept loop of      *)
(* serve with its permits, and handle_command, which runs one command per  *)
(* connection: verify the envelope, check the preconditions, run the       *)
(* steps, poll the post-condition until a deadline, roll back.             *)
(*                                                                         *)
(* What systemctl, nix-env and the clock do is a choice: a capability runs *)
(* or fails, a check observes what was expected or not, the deadline has   *)
(* passed or not. Each executor.run is one action, because other           *)
(* connections run while it is awaited.                                    *)
(***************************************************************************)
EXTENDS Naturals, Sequences, FiniteSets

CONSTANTS
  Conns,     \* connections made to the socket
  Shape,     \* connection -> its peer and envelope, see Shapes
  Slots,     \* MAX_CONCURRENT_COMMANDS
  MaxPolls,  \* bound on the polls of one verify
  None

\* peer: SO_PEERCRED passes; env: what the line read is. pre and steps are the
\* numbers of preconditions and steps; verify and rollback say if they are declared.
Shapes == [peer : BOOLEAN, env : {"eof", "garbled", "kube", "host"},
           pre : Nat, steps : Nat, verify : BOOLEAN, rollback : BOOLEAN]

ASSUME ActuatorAssumption ==
  /\ Shape \in [Conns -> Shapes]
  /\ Slots \in Nat \ {0} /\ MaxPolls \in Nat \ {0}
  /\ None \notin Conns

VARIABLES
  pc,       \* connection -> where it is
  held,     \* the connection the accept loop waits for a permit with, or None
  permits,  \* Semaphore
  log,      \* connection -> the capabilities run for it and their outcomes
  status    \* connection -> the ActionStatus of its result

vars == <<pc, held, permits, log, status>>

Statuses == {"none", "succeeded", "failed", "rejected", "precondition_failed", "frozen"}
Ran == [cap : {"pre", "step", "verify", "rollback"}, out : {"ok", "miss", "err"}]

\* The variables hold values of their types.
TypeOK ==
  /\ pc \in [Conns -> {"new", "backlog", "refused", "held", "read", "pre", "steps",
                       "verify", "rollback", "closed"}]
  /\ held \in Conns \cup {None}
  /\ permits \in 0..Slots
  /\ log \in [Conns -> Seq(Ran)]
  /\ status \in [Conns -> Statuses]

Init ==
  /\ pc = [c \in Conns |-> "new"]
  /\ held = None
  /\ permits = Slots
  /\ log = [c \in Conns |-> << >>]
  /\ status = [c \in Conns |-> "none"]

\* How many capabilities of a kind were run for c.
Count(c, cap) == Cardinality({i \in 1..Len(log[c]) : log[c][i].cap = cap})

-----------------------------------------------------------------------------
(* serve *)

Connect(c) ==
  /\ pc[c] = "new"
  /\ pc' = [pc EXCEPT ![c] = "backlog"]
  /\ UNCHANGED <<held, permits, log, status>>

\* The loop takes the next connection only when it holds none; an unauthorized
\* peer is dropped.
Accept(c) ==
  /\ held = None
  /\ pc[c] = "backlog"
  /\ IF Shape[c].peer
       THEN held' = c /\ pc' = [pc EXCEPT ![c] = "held"]
       ELSE held' = held /\ pc' = [pc EXCEPT ![c] = "refused"]
  /\ UNCHANGED <<permits, log, status>>

\* (mutation of Spawn: the permit is taken but not waited for)
SpawnUnlimited ==
  /\ held # None
  /\ permits' = IF permits = 0 THEN 0 ELSE permits - 1
  /\ pc' = [pc EXCEPT ![held] = "read"]
  /\ held' = None
  /\ UNCHANGED <<log, status>>

\* acquire_owned().await, then the connection gets a task of its own.
Spawn ==
  /\ held # None
  /\ permits > 0
  /\ permits' = permits - 1
  /\ pc' = [pc EXCEPT ![held] = "read"]
  /\ held' = None
  /\ UNCHANGED <<log, status>>

-----------------------------------------------------------------------------
(* handle_connection *)

\* (mutation of Close: an early return forgets the permit)
CloseLeaks(c, result) ==
  /\ status' = [status EXCEPT ![c] = result]
  /\ pc' = [pc EXCEPT ![c] = "closed"]
  /\ UNCHANGED <<held, permits>>

\* The task ends with (or without) a result and drops its permit.
Close(c, result) ==
  /\ status' = [status EXCEPT ![c] = result]
  /\ pc' = [pc EXCEPT ![c] = "closed"]
  /\ permits' = permits + 1
  /\ UNCHANGED held

Goto(c, next) ==
  /\ pc' = [pc EXCEPT ![c] = next]
  /\ UNCHANGED <<held, permits, status>>

Run(c, cap, out) == log' = [log EXCEPT ![c] = Append(@, [cap |-> cap, out |-> out])]

\* Nothing or no envelope on the line: an error, no answer. Kubernetes commands are
\* rejected here, a bad signature, an expired envelope or an invalid name next.
Read(c) ==
  /\ pc[c] = "read"
  /\ \/ Shape[c].env \in {"eof", "garbled"} /\ Close(c, "none")
     \/ Shape[c].env \in {"kube", "host"} /\ Close(c, "rejected")
     \/ Shape[c].env = "host" /\ Goto(c, "pre")
  /\ UNCHANGED log

\* (mutation of Precondition: a failed precondition is only logged)
PreconditionIgnored(c) ==
  /\ pc[c] = "pre"
  /\ IF Count(c, "pre") = Shape[c].pre
       THEN Goto(c, "steps") /\ UNCHANGED log
       ELSE /\ \E out \in {"ok", "miss"} : Run(c, "pre", out)
            /\ Goto(c, "pre")

\* The next precondition: as expected, not as expected, or it could not be checked.
Precondition(c) ==
  /\ pc[c] = "pre"
  /\ IF Count(c, "pre") = Shape[c].pre
       THEN Goto(c, "steps") /\ UNCHANGED log
       ELSE \/ Run(c, "pre", "ok") /\ Goto(c, "pre")
            \/ Run(c, "pre", "miss") /\ Close(c, "precondition_failed")
            \/ Run(c, "pre", "err") /\ Close(c, "failed")

\* The next step; the first that fails ends the command. After the last one the
\* command has succeeded unless there is a post-condition to verify.
Step(c) ==
  /\ pc[c] = "steps"
  /\ IF Count(c, "step") = Shape[c].steps
       THEN /\ IF Shape[c].verify THEN Goto(c, "verify") ELSE Close(c, "succeeded")
            /\ UNCHANGED log
       ELSE \/ Run(c, "step", "ok") /\ Goto(c, "steps")
            \/ Run(c, "step", "err") /\ Close(c, "failed")

\* (mutation of Verify: the deadline ends the loop as if the state was reached)
VerifyDeadlinePasses(c) ==
  /\ pc[c] = "verify"
  /\ \/ Run(c, "verify", "ok") /\ Close(c, "succeeded")
     \/ Run(c, "verify", "miss") /\ Close(c, "succeeded")

\* One poll of the post-condition: reached; not reached, with time left or not;
\* or it could not be checked.
Verify(c) ==
  /\ pc[c] = "verify"
  /\ \/ Run(c, "verify", "ok") /\ Close(c, "succeeded")
     \/ /\ Run(c, "verify", "miss")
        /\ \/ Count(c, "verify") + 1 < MaxPolls /\ Goto(c, "verify")
           \/ Goto(c, "rollback")
     \/ Run(c, "verify", "err") /\ Goto(c, "rollback")

\* perform_rollback
Rollback(c) ==
  /\ pc[c] = "rollback"
  /\ IF Shape[c].rollback
       THEN \/ Run(c, "rollback", "ok") /\ Close(c, "failed")
            \/ Run(c, "rollback", "err") /\ Close(c, "frozen")
       ELSE Close(c, "failed") /\ UNCHANGED log

HandlerStep(c) == Read(c) \/ Precondition(c) \/ Step(c) \/ Verify(c) \/ Rollback(c)
Serve == Spawn \/ \E c \in Conns : Accept(c)

Next ==
  \/ \E c \in Conns : Connect(c) \/ HandlerStep(c)
  \/ Serve

Spec == Init /\ [][Next]_vars

\* The accept loop and the spawned tasks are polled as long as they can go on, and
\* systemctl and the peer answer. accept() takes connections in the order they
\* were made, so none is passed over for ever.
FairSpec ==
  /\ Spec
  /\ WF_vars(Serve)
  /\ \A c \in Conns : WF_vars(HandlerStep(c)) /\ SF_vars(Accept(c))

-----------------------------------------------------------------------------
(* Properties *)

All(c, cap, out) == \A i \in 1..Len(log[c]) : log[c][i].cap = cap => log[c][i].out = out

\* A result claims no more than what was done: success means that every
\* precondition held, every step ran and the last thing seen is the post-condition
\* (if one is declared); frozen means that a declared rollback was tried and failed.
ResultIsEarned ==
  \A c \in Conns :
    /\ status[c] = "succeeded" =>
         /\ Count(c, "pre") = Shape[c].pre /\ All(c, "pre", "ok")
         /\ Count(c, "step") = Shape[c].steps /\ All(c, "step", "ok")
         /\ Shape[c].verify => log[c][Len(log[c])] = [cap |-> "verify", out |-> "ok"]
         /\ Count(c, "rollback") = 0
    /\ status[c] = "frozen" <=> Count(c, "rollback") > 0 /\ ~All(c, "rollback", "ok")

\* A command that is refused, or whose world is not as expected, changes nothing;
\* and no command runs a step before all its preconditions were seen to hold.
NothingRunsUnchecked ==
  \A c \in Conns :
    /\ status[c] \in {"rejected", "precondition_failed"} =>
         Count(c, "step") = 0 /\ Count(c, "rollback") = 0
    /\ Count(c, "step") > 0 => Count(c, "pre") = Shape[c].pre /\ All(c, "pre", "ok")

Busy == {c \in Conns : pc[c] \in {"read", "pre", "steps", "verify", "rollback"}}

\* Semaphore: every task that ends, in whatever way, gives its permit back, and
\* never more than MAX_CONCURRENT_COMMANDS run.
PermitsAreConserved == permits + Cardinality(Busy) = Slots

\* "A long-running verify-poll on one connection cannot starve any other inbound
\* command": whoever connects is served or refused.
EveryoneIsServed == \A c \in Conns : pc[c] = "backlog" ~> pc[c] \in {"refused", "closed"}
=============================================================================
