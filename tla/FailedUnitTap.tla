--------------------------- MODULE FailedUnitTap ---------------------------
(***************************************************************************)
(* The failed-unit tap of the agent (ravn-agent detection/failed_unit.rs): *)
(* systemd's list of units is polled, and a unit that has stayed failed    *)
(* for the grace window is reported, once for each time it fails.          *)
(*                                                                         *)
(* Time is relative: pending[u] is how long ago the tracker first saw u    *)
(* failed, up to Grace. A unit that recovers and fails again between two   *)
(* polls is not noticed; the ghosts below tell these cases apart. A        *)
(* ListUnits that fails changes nothing and is not an action.              *)
(***************************************************************************)
EXTENDS Naturals, Sequences, FiniteSetsExt

CONSTANTS
  Units,
  Grace,        \* FailedUnitTap.grace, in ticks
  MaxEpisodes,  \* bound on how often a unit enters failed, all units together
  None

ASSUME TapAssumption ==
  Grace \in Nat /\ MaxEpisodes \in Nat /\ None \notin 0..Grace /\ None \notin Nat

VARIABLES
  failed,    \* systemd: the units that are failed now
  pending,   \* GraceTracker.pending: unit -> age of its first sighting, or None
  emitted,   \* GraceTracker.emitted
  toEmit,    \* what observe returned and is still to be sent
  events,    \* every event sent, in order; an event is its position here
  boot,      \* starts of the agent (an event says which start sent it)
  episode,   \* ghost: unit -> how often it has entered failed
  steady,    \* ghost: unit -> for how long it has been failed, up to Grace
  sighted,   \* ghost: the units the last poll saw failed
  blinked    \* ghost: units that failed again before a poll saw them recovered

tapVars == <<failed, pending, emitted, toEmit, events, boot, episode, steady, sighted, blinked>>

Sighting == [unit : Units, episode : Nat]
Event == [unit : Units, episode : Nat, boot : Nat]

\* The variables of the tap hold values of their types.
TapTypeOK ==
  /\ failed \subseteq Units /\ emitted \subseteq Units
  /\ sighted \subseteq Units /\ blinked \subseteq Units
  /\ pending \in [Units -> 0..Grace \cup {None}]
  /\ toEmit \subseteq Sighting
  /\ events \in Seq(Event)
  /\ boot \in Nat
  /\ episode \in [Units -> Nat]
  /\ steady \in [Units -> 0..Grace]

\* The tracker of a tap that has just started.
NewTracker ==
  /\ pending' = [u \in Units |-> None]
  /\ emitted' = {} /\ toEmit' = {}

TapInit ==
  /\ failed = {} /\ emitted = {} /\ toEmit = {} /\ sighted = {} /\ blinked = {}
  /\ pending = [u \in Units |-> None]
  /\ events = << >> /\ boot = 0
  /\ episode = [u \in Units |-> 0]
  /\ steady = [u \in Units |-> 0]

-----------------------------------------------------------------------------
(* systemd and time *)

UnitFails(u) ==
  /\ u \notin failed
  /\ MapThenSumSet(LAMBDA v : episode[v], Units) < MaxEpisodes
  /\ failed' = failed \cup {u}
  /\ episode' = [episode EXCEPT ![u] = @ + 1]
  /\ steady' = [steady EXCEPT ![u] = 0]
  /\ blinked' = IF u \in sighted THEN blinked \cup {u} ELSE blinked
  /\ UNCHANGED <<pending, emitted, toEmit, events, boot, sighted>>

UnitRecovers(u) ==
  /\ u \in failed
  /\ failed' = failed \ {u}
  /\ steady' = [steady EXCEPT ![u] = 0]
  /\ UNCHANGED <<pending, emitted, toEmit, events, boot, episode, sighted, blinked>>

Older(age) == IF age < Grace THEN age + 1 ELSE age

Tick ==
  /\ \E u \in Units : pending[u] # None /\ pending[u] < Grace
  /\ pending' = [u \in Units |-> IF pending[u] = None THEN None ELSE Older(pending[u])]
  /\ steady' = [u \in Units |-> IF u \in failed THEN Older(steady[u]) ELSE 0]
  /\ UNCHANGED <<failed, emitted, toEmit, events, boot, episode, sighted, blinked>>

-----------------------------------------------------------------------------
(* FailedUnitTap::run *)

Age(u) == IF pending[u] = None THEN 0 ELSE pending[u]

\* (mutation of Observe: a recovered unit keeps its grace timer)
ObserveNoReset ==
  LET due == {u \in failed \ emitted : Age(u) >= Grace} IN
  /\ toEmit = {}
  /\ toEmit' = {[unit |-> u, episode |-> episode[u]] : u \in due}
  /\ emitted' = (emitted \cap failed) \cup due
  /\ pending' = [u \in Units |-> IF u \in failed /\ u \notin emitted' THEN Age(u) ELSE pending[u]]
  /\ sighted' = failed /\ blinked' = blinked \cap failed
  /\ UNCHANGED <<failed, events, boot, episode, steady>>

\* (mutation of Observe: an emission is not remembered)
ObserveForgetful ==
  LET due == {u \in failed : Age(u) >= Grace} IN
  /\ toEmit = {}
  /\ toEmit' = {[unit |-> u, episode |-> episode[u]] : u \in due}
  /\ emitted' = {}
  /\ pending' = [u \in Units |-> IF u \in failed \ due THEN Age(u) ELSE None]
  /\ sighted' = failed /\ blinked' = blinked \cap failed
  /\ UNCHANGED <<failed, events, boot, episode, steady>>

\* A poll, and GraceTracker::observe: forget what recovered, start a timer for what
\* is new, and return what has been failed for the whole window. The tap polls
\* again only when it has sent all of it.
Observe ==
  LET due == {u \in failed \ emitted : Age(u) >= Grace} IN
  /\ toEmit = {}
  /\ toEmit' = {[unit |-> u, episode |-> episode[u]] : u \in due}
  /\ emitted' = (emitted \cap failed) \cup due
  /\ pending' = [u \in Units |-> IF u \in failed /\ u \notin emitted' THEN Age(u) ELSE None]
  /\ sighted' = failed /\ blinked' = blinked \cap failed
  /\ UNCHANGED <<failed, events, boot, episode, steady>>

\* build_event and tx.send, after the awaits for the result and the log of the unit:
\* it may have recovered since it was observed.
Send(s) ==
  /\ s \in toEmit
  /\ toEmit' = toEmit \ {s}
  /\ events' = Append(events, [unit |-> s.unit, episode |-> s.episode, boot |-> boot])
  /\ UNCHANGED <<failed, pending, emitted, boot, episode, steady, sighted, blinked>>

\* A new process: the tracker is in memory.
TapRestart ==
  /\ NewTracker
  /\ boot' = boot + 1
  /\ sighted' = {} /\ blinked' = {}
  /\ UNCHANGED <<failed, events, episode, steady>>

-----------------------------------------------------------------------------
(* Properties *)

\* GraceTracker: "exactly once per failure episode". No start of the agent reports
\* the same failure of a unit twice.
OncePerEpisode ==
  \A i, j \in 1..Len(events) : events[i] = events[j] => i = j

\* FailedUnitTap.grace: a unit that is picked to be reported has been failed for the
\* whole window, unless it recovered and failed again between two polls.
GraceIsHeld ==
  [][\A s \in toEmit' \ toEmit :
       s.unit \in blinked \/ steady[s.unit] >= Grace]_tapVars
=============================================================================
