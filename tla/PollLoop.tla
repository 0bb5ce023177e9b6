------------------------------ MODULE PollLoop ------------------------------
(***************************************************************************)
(* The pacing of the agent's command pull: run, poll_once, PollState and   *)
(* send_to_actuator (ravn-agent remediation.rs). What the commands do is   *)
(* CommandLedger's subject; here a command is one dispatch to the actuator *)
(* and one report to the control plane, each of which may be waited for.   *)
(*                                                                         *)
(* Time is the length of the sleeps, in units of the constants: a poll     *)
(* itself takes no time, or any. The HTTP client has no timeout and        *)
(* neither has the actuator's socket: a peer in `silent` may never answer. *)
(***************************************************************************)
EXTENDS Naturals, Sequences, FiniteSetsExt

CONSTANTS
  Intervals,     \* what command_poll_secs may be
  MinPoll,       \* MIN_POLL_SECS
  MaxBackoff,    \* MAX_BACKOFF_SECS
  Threshold,     \* CIRCUIT_OPEN_THRESHOLD
  OpenSecs,      \* CIRCUIT_OPEN_SECS
  ExpCap,        \* 31: the largest exponent
  Width,         \* 32: the width of the power
  MaxBatch,      \* bound on the commands of one poll
  MaxErrors      \* the error count from which on more of them change nothing

ASSUME PollAssumption ==
  /\ Intervals \subseteq Nat /\ {MinPoll, MaxBackoff, Threshold, OpenSecs} \subseteq Nat \ {0}
  /\ {ExpCap, Width, MaxBatch, MaxErrors} \subseteq Nat /\ 2 ^ Width \in Nat \ {0}
  /\ ExpCap < Width /\ MaxErrors > Threshold /\ MaxErrors > ExpCap

VARIABLES
  base,      \* base_poll_secs, already clamped
  errors,    \* consecutive_errors
  backoff,   \* backoff_secs
  plPc,      \* "sleeping", "refreshing", "asking", "dispatching" or "reporting"
  todo,      \* commands of this poll not yet processed
  gaps,      \* the last Threshold sleeps between two polls
  reachable, \* the control plane answers with success
  silent     \* the peers that may keep the agent waiting for ever

plVars == <<base, errors, backoff, plPc, todo, gaps, reachable, silent>>

PlInit ==
  /\ \E requested \in Intervals : base = Max({requested, MinPoll})
  /\ errors = 0 /\ backoff = base
  /\ plPc = "sleeping" /\ todo = 0 /\ gaps = <<>>
  /\ reachable \in BOOLEAN
  /\ silent \in SUBSET {"server", "actuator"}

-----------------------------------------------------------------------------
(* PollState *)

\* (mutation of CircuitOpen: open at the failure after the threshold)
CircuitOpenLate == errors > Threshold

CircuitOpen == errors >= Threshold

\* base * 2^(errors - 1), in 32 bits, ceiling at MAX_BACKOFF_SECS.
RawDelay(e) ==
  LET exponent == IF e - 1 < ExpCap THEN e - 1 ELSE ExpCap
  IN  Min({base * ((2 ^ exponent) % (2 ^ Width)), MaxBackoff})

RecordSuccess == errors' = 0 /\ backoff' = base

\* Full jitter, and never less than a second.
RecordError ==
  /\ errors' = IF errors < MaxErrors THEN errors + 1 ELSE errors
  /\ \E jitter \in 0..RawDelay(errors') : backoff' = Max({jitter, 1})

-----------------------------------------------------------------------------
(* run *)

Slept(d) ==
  gaps' = IF Len(gaps) < Threshold THEN Append(gaps, d) ELSE Append(Tail(gaps), d)

\* (mutation of Wake: an open circuit is waited out, and never probed)
WakeUnlessOpen ==
  /\ plPc = "sleeping" /\ ~CircuitOpen
  /\ Slept(backoff)
  /\ plPc' = "refreshing"
  /\ UNCHANGED <<base, errors, backoff, todo, reachable, silent>>

\* An open circuit is probed after its own pause, whatever the backoff is.
Wake ==
  /\ plPc = "sleeping"
  /\ Slept(IF CircuitOpen THEN OpenSecs ELSE backoff)
  /\ plPc' = "refreshing"
  /\ UNCHANGED <<base, errors, backoff, todo, reachable, silent>>

\* refresh_keyring: what it comes to does not matter to the loop.
RefreshReturns ==
  /\ plPc = "refreshing"
  /\ plPc' = "asking"
  /\ UNCHANGED <<base, errors, backoff, todo, gaps, reachable, silent>>

EndOfBatch(n) == IF n = 0 THEN "sleeping" ELSE "dispatching"

\* GET /agents/{id}/commands
PollAnswered ==
  /\ plPc = "asking" /\ reachable
  /\ \E n \in 0..MaxBatch :
       /\ todo' = n
       /\ plPc' = EndOfBatch(n)
       /\ IF n = 0 THEN RecordSuccess ELSE UNCHANGED <<errors, backoff>>
  /\ UNCHANGED <<base, gaps, reachable, silent>>

PollFails ==
  /\ plPc = "asking" /\ ~reachable
  /\ RecordError
  /\ plPc' = "sleeping"
  /\ UNCHANGED <<base, todo, gaps, reachable, silent>>

\* The next command, or the end of the poll: every command processed is a success.
NextCommand ==
  /\ todo' = todo - 1
  /\ plPc' = EndOfBatch(todo - 1)
  /\ IF todo = 1 THEN RecordSuccess ELSE UNCHANGED <<errors, backoff>>

\* process_command has nothing to report: in the ledger, or the ledger's write failed.
Skipped ==
  /\ plPc = "dispatching"
  /\ NextCommand
  /\ UNCHANGED <<base, gaps, reachable, silent>>

\* Refused here, or answered by the actuator (or its socket failed).
Dispatched ==
  /\ plPc = "dispatching"
  /\ plPc' = "reporting"
  /\ UNCHANGED <<base, errors, backoff, todo, gaps, reachable, silent>>

\* The result is posted; a failure to is logged, and the poll is a success.
Reported ==
  /\ plPc = "reporting"
  /\ NextCommand
  /\ UNCHANGED <<base, gaps, reachable, silent>>

\* The control plane goes away or comes back, at any time.
ServerChanges ==
  /\ reachable' = ~reachable
  /\ UNCHANGED <<base, errors, backoff, plPc, todo, gaps, silent>>

AwaitsServer == RefreshReturns \/ PollAnswered \/ PollFails \/ Reported
AwaitsActuator == Skipped \/ Dispatched

PlNext == Wake \/ AwaitsServer \/ AwaitsActuator \/ ServerChanges

-----------------------------------------------------------------------------
(* Properties *)

\* Whether the control plane fails, flaps or answers, and whatever the jitter draws,
\* no two polls follow each other without a sleep, none waits longer than the longest
\* pause, and among any Threshold sleeps in a row one is as long as the poll interval or
\* the pause of an open circuit, so that Threshold + 1 polls never fall closer together.
PollIsPaced ==
  /\ \A i \in DOMAIN gaps : gaps[i] \in 1..Max({base, MaxBackoff, OpenSecs})
  /\ Len(gaps) = Threshold => \E i \in DOMAIN gaps : gaps[i] >= Min({base, OpenSecs})

\* The loop never stops probing, however long the control plane fails, and once it
\* answers for good the backoff and the circuit are reset; if no peer is silent.
LoopComesBack ==
  silent = {} =>
    /\ []<>(plPc = "asking")
    /\ <>[]reachable => <>[](errors = 0)
=============================================================================
