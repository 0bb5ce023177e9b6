--------------------------- MODULE FleetRegistry ---------------------------
(***************************************************************************)
(* The agent registry (ravn-server db.rs, api.rs, ingest.rs): the tables   *)
(* agents and agent_labels, written by ingested events, heartbeats and     *)
(* enrollments, by the replacement of an agent's labels in a transaction   *)
(* and by its deletion; and the listing that the API, the topology and the *)
(* metrics are made from, which reads the two tables one after the other.  *)
(*                                                                         *)
(* Transactions run at PostgreSQL's default isolation, READ COMMITTED: the *)
(* DELETE works on the rows committed when it starts, waits for others     *)
(* that are deleting one of them and then skips what is gone; an INSERT    *)
(* waits for an uncommitted row of the same primary key and fails if it is *)
(* committed, or if the agent is gone.                                     *)
(***************************************************************************)
EXTENDS Naturals, FiniteSets

CONSTANTS
  Agents, Keys, Values,
  Puts,        \* the label sets callers put: sets of <<key, value>>, one per key
  Writers,     \* concurrent put_labels handlers
  StaleAfter, OfflineAfter,  \* 60 s and 300 s, in ticks
  MaxTime, MaxPuts           \* bounds

ASSUME FleetAssumption ==
  /\ \A ls \in Puts : ls \subseteq Keys \X Values /\ \A x, y \in ls : x[1] = y[1] => x = y
  /\ StaleAfter \in Nat /\ OfflineAfter \in Nat /\ StaleAfter < OfflineAfter
  /\ MaxTime \in Nat /\ MaxPuts \in Nat

VARIABLES
  now,
  agents,   \* per agent its row, or NoRow
  labels,   \* per agent the committed rows of agent_labels
  put,      \* per handler its transaction
  nputs,    \* puts begun
  listing,  \* "idle", or the agents rows list_agents has read before the labels
  shown,    \* per agent what the last listing showed of it, or NoRow
  last,     \* history: per agent the labels of the last put committed, {} after a delete
  mixed,    \* history: the agents two puts of which overlapped
  heard,    \* history: per agent when it last gave a sign of life
  since     \* history: per agent the label sets committed since the listing began

tables == <<agents, labels, put, nputs, last, mixed, heard, since>>
flVars == <<now, tables, listing, shown>>

NoRow == [none |-> TRUE]
Never == MaxTime + 1
NoPut == [pc |-> "idle"]
NotListing == [busy |-> FALSE]
Registered(a) == agents[a] # NoRow

\* agent_status
Status(lastSeen, at) ==
  LET age == at - lastSeen IN
  IF age < StaleAfter THEN "online" ELSE IF age < OfflineAfter THEN "stale" ELSE "offline"

FlInit ==
  /\ now = 0
  /\ agents = [a \in Agents |-> NoRow]
  /\ labels = [a \in Agents |-> {}]
  /\ put = [w \in Writers |-> NoPut]
  /\ nputs = 0
  /\ listing = NotListing /\ shown = agents
  /\ last = labels /\ mixed = {}
  /\ heard = [a \in Agents |-> Never]
  /\ since = [a \in Agents |-> {}]

FlTick == now < MaxTime /\ now' = now + 1 /\ UNCHANGED <<tables, listing, shown>>

\* An upsert of the row, and the sign of life it stands for.
Upsert(a, row) ==
  /\ agents' = [agents EXCEPT ![a] = row]
  /\ heard' = [heard EXCEPT ![a] = now]
  /\ UNCHANGED <<now, labels, put, nputs, last, mixed, since, listing, shown>>

\* touch_agent, on every ingested event.
Touch(a) ==
  Upsert(a, [lastSeen |-> now, lastHeartbeat |-> IF Registered(a) THEN agents[a].lastHeartbeat ELSE Never])

\* run_heartbeats, record_heartbeat
RecordHeartbeat(a) == Upsert(a, [lastSeen |-> now, lastHeartbeat |-> now])

\* record_enrollment: a new row is seen now, an old one keeps its last_seen.
RecordEnrollment(a) ==
  Upsert(a, IF Registered(a) THEN agents[a] ELSE [lastSeen |-> now, lastHeartbeat |-> Never])

Open(w) == put[w].pc \in {"delete", "insert", "commit"}
Others(w) == {v \in Writers \ {w} : Open(v) /\ put[v].agent = put[w].agent}
KeysOf(ls) == {x[1] : x \in ls}

\* A handler's step that commits nothing.
PutStep(w, p) ==
  /\ put' = [put EXCEPT ![w] = p]
  /\ UNCHANGED <<now, agents, labels, last, heard, since, listing, shown>>

\* replace_labels begins; its SELECT finds the agent, or the caller gets a 404.
PutBegin(w, a, ls) ==
  /\ put[w].pc = "idle" /\ nputs < MaxPuts
  /\ Registered(a)
  /\ PutStep(w, [pc |-> "delete", agent |-> a, new |-> ls, seen |-> {}, dead |-> {}, waits |-> FALSE])
  /\ nputs' = nputs + 1
  /\ mixed' = IF \E v \in Writers : Open(v) /\ put[v].agent = a THEN mixed \cup {a} ELSE mixed

\* The DELETE starts: the rows committed now are the ones it will delete.
PutSnapshot(w) ==
  /\ put[w].pc = "delete" /\ ~put[w].waits
  /\ PutStep(w, [put[w] EXCEPT !.seen = labels[put[w].agent], !.waits = TRUE])
  /\ UNCHANGED <<nputs, mixed>>

\* It has the locks on them, those already deleted by others excepted.
PutDelete(w) ==
  /\ put[w].pc = "delete" /\ put[w].waits
  /\ \A v \in Others(w) : put[v].dead \cap put[w].seen = {}
  /\ PutStep(w, [put[w] EXCEPT !.pc = "insert", !.dead = put[w].seen \cap labels[put[w].agent]])
  /\ UNCHANGED <<nputs, mixed>>

\* The INSERTs: a foreign key or primary key violation rolls everything back.
PutInsert(w) ==
  LET a == put[w].agent
      fails == ~Registered(a) \/ KeysOf(labels[a] \ put[w].dead) \cap KeysOf(put[w].new) # {} IN
  /\ put[w].pc = "insert"
  /\ \A v \in Others(w) : put[v].pc = "commit" => KeysOf(put[v].new) \cap KeysOf(put[w].new) = {}
  /\ PutStep(w, IF fails /\ put[w].new # {} THEN NoPut ELSE [put[w] EXCEPT !.pc = "commit"])
  /\ UNCHANGED <<nputs, mixed>>

Commit(w, ls) ==
  LET a == put[w].agent IN
  /\ put[w].pc = "commit"
  /\ labels' = [labels EXCEPT ![a] = ls]
  /\ last' = [last EXCEPT ![a] = put[w].new]
  /\ since' = IF listing = NotListing THEN since ELSE [since EXCEPT ![a] = @ \cup {ls}]
  /\ put' = [put EXCEPT ![w] = NoPut]
  /\ UNCHANGED <<now, agents, nputs, mixed, heard, listing, shown>>

\* (mutation of PutCommit: the old labels are not deleted)
PutCommitAdds(w) ==
  Commit(w, {x \in labels[put[w].agent] : x[1] \notin KeysOf(put[w].new)} \cup put[w].new)

PutCommit(w) == Commit(w, (labels[put[w].agent] \ put[w].dead) \cup put[w].new)

\* A statement fails or the server stops: the transaction leaves nothing.
PutAbort(w) == Open(w) /\ PutStep(w, NoPut) /\ UNCHANGED <<nputs, mixed>>

\* delete_agent, with its cascade: it waits for whoever has inserted a label of the
\* agent, and so holds a lock on its row, or has deleted one.
DeleteAgent(a) ==
  /\ Registered(a)
  /\ \A w \in Writers : Open(w) /\ put[w].agent = a =>
       put[w].dead = {} /\ ~(put[w].pc = "commit" /\ put[w].new # {})
  /\ agents' = [agents EXCEPT ![a] = NoRow]
  /\ labels' = [labels EXCEPT ![a] = {}]
  /\ last' = [last EXCEPT ![a] = {}]
  /\ since' = IF listing = NotListing THEN since ELSE [since EXCEPT ![a] = @ \cup {{}}]
  /\ UNCHANGED <<now, put, nputs, mixed, heard, listing, shown>>

\* list_agents and get_agent read the rows of agents ...
ListRows ==
  /\ listing = NotListing
  /\ listing' = [busy |-> TRUE, rows |-> agents]
  /\ since' = [a \in Agents |-> {labels[a]}]
  /\ shown' = [a \in Agents |-> NoRow]
  /\ UNCHANGED <<now, agents, labels, put, nputs, last, mixed, heard>>

\* ... then, in a query of its own, the labels, and derive the status from the clock.
\* topology, list_categories and the gauges of /metrics show what they return.
ListLabels ==
  /\ listing # NotListing
  /\ listing' = NotListing
  /\ shown' = [a \in Agents |->
       IF listing.rows[a] = NoRow THEN NoRow
       ELSE [labels |-> labels[a], status |-> Status(listing.rows[a].lastSeen, now), silent |-> now - heard[a]]]
  /\ UNCHANGED <<now, tables>>

FlNext ==
  \/ FlTick \/ ListRows \/ ListLabels
  \/ \E a \in Agents : Touch(a) \/ RecordHeartbeat(a) \/ RecordEnrollment(a) \/ DeleteAgent(a)
  \/ \E w \in Writers :
       \/ \E a \in Agents, ls \in Puts : PutBegin(w, a, ls)
       \/ PutSnapshot(w) \/ PutDelete(w) \/ PutInsert(w) \/ PutCommit(w) \/ PutAbort(w)

-----------------------------------------------------------------------------
(* Properties *)

\* The labels of an agent that two puts did not overlap on are those of the last put
\* that was acknowledged; none outlives its agent, and no key has two values.
LabelsFollowPuts ==
  \A a \in Agents :
    /\ labels[a] # {} => Registered(a)
    /\ \A x, y \in labels[a] : x[1] = y[1] => x = y
    /\ a \notin mixed => labels[a] = last[a]

\* What a listing shows of an agent held at one moment of it: its labels were
\* committed while it ran, and one shown online did give a sign of life in time.
ListingWasTrue ==
  \A a \in Agents : shown[a] # NoRow =>
    /\ shown[a].labels \in since[a]
    /\ shown[a].status = "online" => shown[a].silent < StaleAfter

\* The registry and what is shown of it, whatever puts, deletions, re-registrations and
\* listings overlap (replace_labels, delete_agent, list_agents).
RegistryIsTrue == LabelsFollowPuts /\ ListingWasTrue
=============================================================================
