------------------------------ MODULE KubeWatch ------------------------------
(***************************************************************************)
(* The two watches of the Kubernetes agents: cluster Events in the         *)
(* controller (ravn-k8s watcher.rs, mapping.rs) and node conditions in the *)
(* node agent (node.rs), with the publisher (publish.rs, nats.rs,          *)
(* http.rs). They are two processes; one of them runs here.                *)
(*                                                                         *)
(* External: the API server and the kube watcher. The watcher delivers a   *)
(* snapshot (InitApply), then every later change in order (Apply), and     *)
(* ends with an error at any time, upon which the process exits and is     *)
(* started again. An object may be applied without its count having moved. *)
(***************************************************************************)
EXTENDS Integers, Sequences, SequencesExt, FiniteSets

CONSTANTS
  Uids, Routine,      \* the cluster's Events, and those event_to_message drops
  MaxCount,           \* bound on the count of an Event
  Nodes, Conditions,  \* nodes and their unhealthy conditions
  MaxEpisodes,        \* bound on how often a condition becomes active
  MaxTouches,         \* bound on the applies that change nothing
  MaxExits            \* bound on the ends of the stream

ASSUME KubeWatchAssumption ==
  /\ Routine \subseteq Uids /\ IsFiniteSet(Conditions)
  /\ {MaxCount, MaxEpisodes, MaxTouches, MaxExits} \subseteq Nat

NoCount == -1

VARIABLES
  watch,       \* which watch runs: "events" or "nodes"
  object,      \* uid -> its count, or node -> condition -> its episode, 0: not active
  episode,     \* node -> condition -> how often it has become active
  stream,      \* what the watcher has yet to deliver: [key, value]
  touches, exits,
  seen,        \* watcher.rs: uid -> the count last seen, NoCount before that
  raised,      \* node.rs `active`: the active conditions, as <<node, condition>>
  sendingNow,  \* signals being published, in order
  signalled,   \* <<key, value>> -> how often a publish was attempted and not reported lost
  unsent,      \* signals whose publish failed
  passedOver   \* ghost: what changed while nobody watched

kwVars == <<watch, object, episode, stream, touches, exits, seen, raised, sendingNow,
            signalled, unsent, passedOver>>

Signals == IF watch = "events" THEN Uids \X (0..MaxCount) ELSE (Nodes \X Conditions) \X (1..MaxEpisodes)

KwInit ==
  /\ watch \in {"events", "nodes"}
  /\ object = IF watch = "events" THEN [u \in Uids |-> NoCount] ELSE [n \in Nodes |-> [k \in Conditions |-> 0]]
  /\ episode = [n \in Nodes |-> [k \in Conditions |-> 0]]
  /\ stream = <<>> /\ touches = 0 /\ exits = 0
  /\ seen = [u \in Uids |-> NoCount]
  /\ raised = {} /\ sendingNow = <<>>
  /\ signalled = [s \in Signals |-> 0]
  /\ unsent = {} /\ passedOver = {}

-----------------------------------------------------------------------------
(* External: the cluster *)

Apply(key) == stream' = Append(stream, [key |-> key, value |-> object'[key]])

\* An Event is recorded, or recorded once more.
Occur(u) ==
  /\ object[u] < MaxCount
  /\ object' = [object EXCEPT ![u] = @ + 1]
  /\ Apply(u)
  /\ UNCHANGED <<episode, touches>>

Toggle(n, k) ==
  /\ IF object[n][k] = 0
       THEN /\ episode[n][k] < MaxEpisodes
            /\ episode' = [episode EXCEPT ![n][k] = @ + 1]
            /\ object' = [object EXCEPT ![n][k] = episode'[n][k]]
       ELSE object' = [object EXCEPT ![n][k] = 0] /\ UNCHANGED episode
  /\ Apply(n)
  /\ UNCHANGED touches

Touch(key) ==
  /\ touches < MaxTouches /\ touches' = touches + 1
  /\ UNCHANGED <<object, episode>>
  /\ Apply(key)

ClusterStep ==
  /\ IF watch = "events" THEN \E u \in Uids : Occur(u) \/ (object[u] # NoCount /\ Touch(u))
     ELSE \E n \in Nodes : Touch(n) \/ \E k \in Conditions : Toggle(n, k)
  /\ UNCHANGED <<watch, exits, seen, raised, sendingNow, signalled, unsent, passedOver>>

-----------------------------------------------------------------------------
(* watcher.rs *)

\* (mutation of Remember: the snapshot is not remembered)
RememberNothing(objects) == [u \in Uids |-> NoCount]

\* remember, for every object of the snapshot.
Remember(objects) == objects

\* is_new_or_changed, event_to_message: the count is remembered before the signal is
\* published, and whether or not it is worth one.
ApplyEvent(u, count) ==
  /\ seen' = [seen EXCEPT ![u] = count]
  /\ sendingNow' = IF seen[u] # count /\ u \notin Routine THEN <<<<u, count>>>> ELSE <<>>
  /\ UNCHANGED raised

-----------------------------------------------------------------------------
(* node.rs *)

\* Conditions of this node that have cleared are dropped, and may fire again.
Retained(n, current) == {a \in raised : a[1] # n \/ a \in current}

ActiveOf(n, conditions) == {<<n, k>> : k \in {k \in Conditions : conditions[k] # 0}}

\* reconcile
ApplyNode(n, conditions) ==
  LET current == ActiveOf(n, conditions)
      kept == Retained(n, current)
      fresh == SetToSeq(current \ kept)
  IN
  /\ raised' = kept \cup current
  /\ sendingNow' = [i \in DOMAIN fresh |-> <<fresh[i], conditions[fresh[i][2]]>>]
  /\ UNCHANGED seen

-----------------------------------------------------------------------------
(* run *)

\* Apply.
Deliver ==
  /\ sendingNow = <<>> /\ stream # <<>>
  /\ stream' = Tail(stream)
  /\ IF watch = "events" THEN ApplyEvent(Head(stream).key, Head(stream).value)
     ELSE ApplyNode(Head(stream).key, Head(stream).value)
  /\ UNCHANGED <<watch, object, episode, touches, exits, signalled, unsent, passedOver>>

\* publish: sent and flushed over NATS, or posted with the token of the moment.
PublishSignal ==
  /\ sendingNow # <<>>
  /\ signalled' = [signalled EXCEPT ![Head(sendingNow)] = @ + 1]
  /\ sendingNow' = Tail(sendingNow)
  /\ UNCHANGED <<watch, object, episode, stream, touches, exits, seen, raised, unsent, passedOver>>

\* It fails: a warning in the log, no buffer, no second try.
PublishSignalFails ==
  /\ sendingNow # <<>>
  /\ unsent' = unsent \cup {Head(sendingNow)}
  /\ sendingNow' = Tail(sendingNow)
  /\ UNCHANGED <<watch, object, episode, stream, touches, exits, seen, raised, signalled, passedOver>>

\* What the cluster holds that no step of this process was going to signal.
Standing ==
  IF watch = "events"
    THEN {s \in Signals : s[2] <= object[s[1]]}
    ELSE {s \in Signals : s[2] <= episode[s[1][1]][s[1][2]]}

\* The stream ends with an error, and so does run; the next process takes a snapshot,
\* which is remembered and not signalled.
StreamEnds ==
  /\ exits < MaxExits /\ exits' = exits + 1
  /\ stream' = <<>> /\ sendingNow' = <<>>
  /\ seen' = IF watch = "events" THEN Remember(object) ELSE seen
  /\ raised' = IF watch = "nodes" THEN UNION {ActiveOf(n, object[n]) : n \in Nodes} ELSE {}
  /\ passedOver' = passedOver \cup {s \in Standing : signalled[s] = 0 /\ s \notin unsent}
  /\ UNCHANGED <<watch, object, episode, touches, signalled, unsent>>

KwNext == ClusterStep \/ Deliver \/ PublishSignal \/ PublishSignalFails \/ StreamEnds

-----------------------------------------------------------------------------
(* Properties *)

Noteworthy == {s \in Standing : watch = "events" => s[1] \notin Routine}

Underway(s) ==
  \/ s \in Range(sendingNow)
  \/ \E i \in DOMAIN stream :
       IF watch = "events" THEN s = <<stream[i].key, stream[i].value>>
       ELSE s[1][1] = stream[i].key /\ s[2] = stream[i].value[s[1][2]]

\* One signal per occurrence of an Event and per episode of a condition, over the
\* life of all processes: none is published twice, however often an object is applied
\* again and whatever the other nodes do, and none is missed unless its publish failed or
\* nobody watched between it and the next snapshot.
OneSignalEach ==
  \A s \in Noteworthy :
    /\ signalled[s] <= 1
    /\ signalled[s] = 1 => s \notin unsent
    /\ signalled[s] = 1 \/ s \in unsent \/ s \in passedOver \/ Underway(s)
=============================================================================
