------------------------------ MODULE LiveFeed ------------------------------
(***************************************************************************)
(* From ingestion to the browser (ravn-server ingest.rs, api.rs, db.rs,    *)
(* inference.rs): persist_message stores an event, broadcasts it, and      *)
(* starts a task that asks the language model for an explanation, stores   *)
(* that and broadcasts the event once more; a WebSocket subscriber         *)
(* forwards what it receives. The broadcast channel keeps the last         *)
(* Capacity items; a subscriber that falls behind skips what it missed.    *)
(***************************************************************************)
EXTENDS Naturals, Sequences, FiniteSets

CONSTANTS
  KubeEvents,   \* arrive without an explanation
  HostEvents,   \* arrive with the explanation of their agent
  Texts,        \* explanations the model may give
  Ingesters,    \* concurrent persist_message calls: the NATS loop, HTTP handlers
  Capacity,     \* of the broadcast channel (256)
  MaxDeliveries, MaxTrips  \* bounds

ASSUME LiveFeedAssumption ==
  /\ Capacity \in Nat \ {0} /\ MaxDeliveries \in Nat /\ MaxTrips \in Nat
  /\ KubeEvents \cap HostEvents = {} /\ {"idle", "trip"} \cap (KubeEvents \cup HostEvents) = {}
  /\ "none" \notin Texts

VARIABLES
  stored,     \* per event its explanation column, "plain", or "none" without a row
  ingest,     \* per ingester the event it has inserted and not yet broadcast
  feed,       \* everything broadcast, in order
  tasks,      \* the explanation tasks: a set of records
  next,       \* the subscriber's position: the next item it will receive
  lagged,     \* it has been told Lagged
  view,       \* per event the last item forwarded to the browser
  delivered,  \* per event how often it was delivered
  unknown,    \* history: events an unacknowledged UPDATE may have changed
  tripped     \* synthetic events emitted

lfVars == <<stored, ingest, feed, tasks, next, lagged, view, delivered, unknown, tripped>>

Stored == KubeEvents \cup HostEvents
Carries(e) == IF e \in HostEvents THEN "agent" ELSE "plain"
Unoccupied == "idle"

LfInit ==
  /\ stored = [e \in Stored |-> "none"]
  /\ ingest = [i \in Ingesters |-> Unoccupied]
  /\ feed = <<>>
  /\ tasks = {}
  /\ next = 1 /\ lagged = FALSE
  /\ view = [e \in Stored |-> "none"]
  /\ delivered = [e \in Stored |-> 0]
  /\ unknown = {} /\ tripped = 0

Broadcast(e, text) == feed' = Append(feed, [event |-> e, text |-> text])

\* A task is told apart from the others of its event by the delivery that started it.
Task(e) == [event |-> e, delivery |-> delivered[e], pc |-> "explain", text |-> "plain"]

\* maybe_explain: only for Kubernetes events without an explanation.
Explained(e) == IF e \in KubeEvents THEN {Task(e)} ELSE {}

\* (mutation of InsertEvent: the explanation task is started before the broadcast)
InsertEventExplains(i, e) ==
  /\ ingest[i] = Unoccupied /\ delivered[e] < MaxDeliveries
  /\ delivered' = [delivered EXCEPT ![e] = @ + 1]
  /\ stored' = [stored EXCEPT ![e] = IF @ = "none" THEN Carries(e) ELSE @]
  /\ ingest' = [ingest EXCEPT ![i] = e]
  /\ tasks' = tasks \cup Explained(e)
  /\ UNCHANGED <<feed, next, lagged, view, unknown, tripped>>

\* persist_message: the INSERT, which ignores an event that is already there.
InsertEvent(i, e) ==
  /\ ingest[i] = Unoccupied /\ delivered[e] < MaxDeliveries
  /\ delivered' = [delivered EXCEPT ![e] = @ + 1]
  /\ stored' = [stored EXCEPT ![e] = IF @ = "none" THEN Carries(e) ELSE @]
  /\ ingest' = [ingest EXCEPT ![i] = e]
  /\ UNCHANGED <<feed, tasks, next, lagged, view, unknown, tripped>>

\* A failing INSERT ends it, whether or not the row is there.
InsertEventFails(i, e) ==
  /\ ingest[i] = Unoccupied /\ delivered[e] < MaxDeliveries
  /\ delivered' = [delivered EXCEPT ![e] = @ + 1]
  /\ \/ UNCHANGED stored
     \/ stored' = [stored EXCEPT ![e] = IF @ = "none" THEN Carries(e) ELSE @]
  /\ UNCHANGED <<ingest, feed, tasks, next, lagged, view, unknown, tripped>>

\* Then touch_agent (FleetRegistry), the broadcast, and the task.
SendEvent(i) ==
  /\ ingest[i] # Unoccupied
  /\ Broadcast(ingest[i], Carries(ingest[i]))
  /\ tasks' = tasks \cup Explained(ingest[i])
  /\ ingest' = [ingest EXCEPT ![i] = Unoccupied]
  /\ UNCHANGED <<stored, next, lagged, view, delivered, unknown, tripped>>

\* InferenceClient::explain: a text, or an error (transport, status, timeout, no choice).
ExplainAnswers(t, text) ==
  /\ t.pc = "explain"
  /\ tasks' = (tasks \ {t}) \cup {[t EXCEPT !.pc = "update", !.text = text]}
  /\ UNCHANGED <<stored, ingest, feed, next, lagged, view, delivered, unknown, tripped>>

\* The task is gone: the model failed, or the UPDATE did, perhaps after it took effect.
TaskFails(t) ==
  /\ t.pc \in {"explain", "update"}
  /\ tasks' = tasks \ {t}
  /\ \/ UNCHANGED <<stored, unknown>>
     \/ /\ t.pc = "update"
        /\ stored' = [stored EXCEPT ![t.event] = t.text]
        /\ unknown' = unknown \cup {t.event}
  /\ UNCHANGED <<ingest, feed, next, lagged, view, delivered, tripped>>

\* update_explanation
UpdateExplanation(t) ==
  /\ t.pc = "update"
  /\ stored' = [stored EXCEPT ![t.event] = t.text]
  /\ tasks' = (tasks \ {t}) \cup {[t EXCEPT !.pc = "send"]}
  /\ UNCHANGED <<ingest, feed, next, lagged, view, delivered, unknown, tripped>>

SendExplained(t) ==
  /\ t.pc = "send"
  /\ Broadcast(t.event, t.text)
  /\ tasks' = tasks \ {t}
  /\ UNCHANGED <<stored, ingest, next, lagged, view, delivered, unknown, tripped>>

\* emit_breaker_trip_event: broadcast, never stored.
EmitTrip ==
  /\ tripped < MaxTrips
  /\ tripped' = tripped + 1
  /\ Broadcast("trip", "plain")
  /\ UNCHANGED <<stored, ingest, tasks, next, lagged, view, delivered, unknown>>

Oldest == IF Len(feed) > Capacity THEN Len(feed) - Capacity + 1 ELSE 1

\* stream_events: the next item goes to the socket ...
Forward ==
  /\ Oldest <= next /\ next <= Len(feed)
  /\ LET item == feed[next] IN
     view' = IF item.event \in Stored THEN [view EXCEPT ![item.event] = item.text] ELSE view
  /\ next' = next + 1
  /\ UNCHANGED <<stored, ingest, feed, tasks, lagged, delivered, unknown, tripped>>

\* ... or recv says Lagged, goes on with the oldest item kept, and so does the loop.
Lag ==
  /\ next < Oldest
  /\ next' = Oldest /\ lagged' = TRUE
  /\ UNCHANGED <<stored, ingest, feed, tasks, view, delivered, unknown, tripped>>

LfNext ==
  \/ \E i \in Ingesters : \/ \E e \in Stored : InsertEvent(i, e) \/ InsertEventFails(i, e)
                          \/ SendEvent(i)
  \/ \E t \in tasks : \/ \E text \in Texts : ExplainAnswers(t, text)
                      \/ TaskFails(t) \/ UpdateExplanation(t) \/ SendExplained(t)
  \/ EmitTrip \/ Forward \/ Lag

-----------------------------------------------------------------------------
(* Properties *)

CaughtUp == next > Len(feed) /\ ~lagged
Settled(e) == (\A i \in Ingesters : ingest[i] # e) /\ (\A t \in tasks : t.event # e)

\* Nothing is broadcast that is not in the table (synthetic events apart), and a
\* subscriber that never lagged shows, when it is caught up and nothing of the event
\* is under way, the explanation the table has: its broadcasts come in the order of
\* its writes. For an event delivered once whose statements were acknowledged; a
\* second delivery is broadcast bare after its explanation (persist_message).
FeedAgreesWithTable ==
  /\ \A n \in DOMAIN feed : feed[n].event \in Stored => stored[feed[n].event] # "none"
  /\ \A e \in Stored : CaughtUp /\ Settled(e) /\ delivered[e] = 1 /\ e \notin unknown =>
       view[e] = IF \E n \in DOMAIN feed : feed[n].event = e THEN stored[e] ELSE "none"
=============================================================================
