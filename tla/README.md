# Verification of ravn-agents

TLA+ models of ravn-agents: how a fault on a host or in a cluster is detected and
reported, becomes a proposal, a decision, a signed command, an execution and a closed
audit record, and what can go wrong between these steps. The models are translated from the Rust
sources under `crates/`; `PROJECT.json` maps every definition to its lines, lists
the runs, the mutants that show that each property can fail, the hazards and the
theorems.

    tlc -workers 2 -config lifecycle_safety.cfg MCRemediationLifecycle
    tlapm RemediationLifecycleProofs.tla

## 1. The system

| Part | State | Operations | What is hard |
|---|---|---|---|
| Remediation lifecycle: `ravn-server/remediation.rs`, `api.rs`, `db.rs` | the table `remediation_records` (Postgres); `pending_keys`, the dedup cache (memory) | prepare (a spawned task per ingested message), approve, reject, record a result | handlers interleave at every `await`; a statement may fail, or succeed unacknowledged; cache and table are written apart; restarts |
| Command queue: `ravn-server/command.rs` | per-agent queue and last results (memory) | enqueue, `take_for` (drains), store a result | lost responses, restarts |
| Signer and keyring: `command.rs`, `ravn-crypto` | signing key and previous public keys (files) | sign, publish the keyring, rotate, retire | rotation races polls, refreshes and restarts |
| Policy engine: `ravn-server/policy.rs` | rules, kill switch, the breaker's hit log (memory) | evaluate | check and record under two lock scopes; time; restarts |
| Agent loop: `ravn-agent/remediation.rs` | idempotency ledger (memory and file), pinned keyring (memory and file) | refresh keyring, poll, process each envelope, report | crash between two writes, power loss, redelivery |
| Actuator: `ravn-actuator/lib.rs` | permits, keyring | accept, verify, preconditions, steps, verify-poll, rollback | concurrency limit, deadlines, one step of several failing |
| Agent taps, buffer, transport: `ravn-agent/detection/*`, `buffer.rs`, `transport.rs` | offline queue (SQLite), grace tracker | detect, buffer, publish, flush | publish-then-delete, pruning at the cap |
| Ingest: `ravn-server/ingest.rs`, `db.rs` | message tables | persist, prepare | duplicate and reordered delivery |
| Template catalog: `ravn-server/remediation.rs`, `ravn-core/remediation.rs` | the loaded templates | load and validate, match an event, resolve parameters, build a command | an approval meets another catalog than its proposal did |
| Knowledge base: `ravn-server/knowledge.rs` | one markdown file per slug of a fault signature | fold in an outcome or a gap | load, modify, store without a lock; a temporary file that two writers share |
| Agent registry: `ravn-server/db.rs`, `api.rs` | tables `agents`, `agent_labels` | touch, heartbeat, enroll, replace labels, delete, list | transactions at READ COMMITTED; a listing in two queries |
| Live feed: `ravn-server/ingest.rs`, `api.rs`, `inference.rs` | a broadcast channel of 256; explanation tasks | broadcast, explain, forward to a WebSocket | order of broadcasts and writes; lagging subscribers |
| HTTP gate: `ravn-server/api.rs`, `auth.rs`, `state.rs` | token bucket | resolve a role, check a ServiceAccount token, limit the rate | several kinds of credential; a TokenReview during which others run |
| Enrollment: `ravn-agent/enrollment.rs`, `ravn-server/ca.rs`, `api.rs` | credential files; the recorded certificates | generate, sign, record, store | crash between five writes; a timed-out request that succeeds |
| Poll loop: `ravn-agent/remediation.rs` | consecutive errors, backoff | sleep, refresh, poll, dispatch, report | backoff arithmetic, open circuit, peers that never answer |
| Host taps: `ravn-agent/detection/*` | baselines, current generation | watch files, follow the profile and the journal | the world changes between watch, read and comparison |
| Digests and heartbeats: `ravn-agent/main.rs` | the accumulator, counters | accumulate, take, explain, publish | events arrive while the model thinks |
| Kubernetes agents: `ravn-k8s` | counts seen, active conditions, an LRU per pod, executed ids (all memory) | watch events and nodes, scrape logs, execute | watch restarts, redelivery, caches at their limit |
| MCP server: `ravn-mcp` | mode, token | read a line, call a tool, reply | a lost answer, decisions made elsewhere, two places that gate the same tools |
| Inference, metrics, configuration, evaluation harness, portal, Nix modules | counters | - | text, wiring and user interface |

The parts meet as follows. An ingested message spawns `prepare`, which asks the
policy engine and either inserts a pending row (`approve`) or inserts an approved
row and enqueues a signed command (`auto`). An operator's approve handler signs and
enqueues a command, then updates the row. The agent's loop refreshes the keyring,
pulls its queue, and for each envelope checks the ledger, verifies, records, and
hands it to the actuator over a Unix socket; the actuator verifies again with the
keyring file the agent pins. The agent posts the result, and the server writes it to
the row that has the command's id.

What makes each part correct:

* lifecycle: no command without an audit row; a row never claims more than
  happened; one pending row per fault; one command per proposal; the cache is the
  set of pending keys; a command that was issued is eventually dealt with;
* ledger: a command is handed to the actuator at most once;
* policy: nothing unattended that the rules do not allow, and no more of it per
  window than the breaker permits;
* actuator: a result is earned, nothing runs unchecked, permits are conserved;
* event pipeline: a failure is reported once, after its grace, and no event is lost
  but for a reason the code names;
* rotation: keys in use are not withdrawn under signed commands, and the fleet
  converges to the published keyring;
* catalog: an approval runs the template that was shown, and no command carries an
  unchecked name; knowledge base: entries are whole and claim only what was recorded;
* registry, feed and gate: a listing was true at some moment, the browser ends up with
  what is stored, and nobody does what is not theirs to do, nor too often;
* enrollment: an identity is whole or not taken up; poll loop: it is paced and never
  stops; taps, digests and cluster watches: each occurrence is told once, truly;
* executor: one process executes an envelope at most once.

## 2. Modules

| Module | Models | Variables and actions |
|---|---|---|
| `RemediationLifecycle` | prepare, approve and reject handlers, audit table, dedup cache, command queue, agent poll loop | `row` is the table, `task` the handlers under way (a program counter and the locals each carries over its awaits). One action per stretch between two awaits: `PrepareApprove`, `InsertRow`, `AddKey`; `PrepareAuto`, `AutoInsertRow`, `AutoEnqueue`; `ApproveFetch`, `ApproveIssue`, `ApproveReadKey`, `ApproveUpdate`, `Evict`; `RejectReadKey`, `RejectUpdate`; `Pull`, `Process`, `Post`; `ServerRestart`, `AgentCrash` |
| `AuditTrail` | what the table promises on its own: each row's life, seen through the five statements of `db.rs` | `trail`; `RemediationLifecycle` refines it (`AuditTrailSpec`) |
| `CommandLedger` | `Ledger` and `process_command` | the file is a sequence of tokens (ids, line ends, debris); an append is two writes; `durable` is what the disk has |
| `PolicyEngine` | `Policy::decide`, `evaluate`, `CircuitBreaker` | a call of `evaluate` is three steps, because the hit log is locked twice; `hits` and `autos` (a ghost: every auto decision) are bags of timestamps, `peak` (a ghost) the greatest overlap seen |
| `GlobMatch` | `glob_match`, the two-pointer loop with its fallback | one action per branch of the loop; the pattern and the text are chosen in `Init` |
| `Actuator` | `serve`, `handle_connection`, `handle_command`, `perform_rollback` | `log` is what ran for each connection; capabilities, checks and the deadline are choices |
| `KeyRotation` | `CommandSigner`, `refresh_keyring`, `poll_once`, the actuator's reload | rings are sets of key numbers, in server, agent memory, file and actuator |
| `FailedUnitTap` | `FailedUnitTap::run` and `GraceTracker` | `failed` is systemd's truth, `pending` and `emitted` what the tracker believes; ghosts (`episode`, `steady`, `sighted`, `blinked`) compare the two |
| `EventPipeline` | extends `FailedUnitTap` with the channel, the detection loop, the offline buffer, the flush task, the transport and ingestion | `channel`, `sending`, `outbox`, `batch`, `wire`, `stored`; `excused` and `ambiguous` are ghosts that account for events given up and for misjudged publishes |
| `TemplateCatalog` | `load_dir`, `validate`, `match_event`, `resolve_params`, `build_command`, and the lookup in `approve_remediation` | `directory` is what is deployed, `catalog` what is loaded (in any order of the files); a text is a sequence of character classes, which is what `is_valid_k8s_label` looks at |
| `KnowledgeBase` | `slug`, `load`, `record_outcome`, `record_gap`, `store` | files down to the inode: `RecordLoad`, `StoreOpen`, `StoreWrite`, `StoreRename`; `crowded` is a ghost: slugs whose records overlapped |
| `FleetRegistry` | `touch_agent`, `record_heartbeat`, `record_enrollment`, `replace_labels`, `delete_agent`, `list_agents` | a transaction is `PutBegin`, `PutSnapshot`, `PutDelete`, `PutInsert`, `PutCommit`, with the row locks PostgreSQL takes; a listing is `ListRows`, `ListLabels` |
| `LiveFeed` | `persist_message` around its broadcast, `maybe_explain`, `update_explanation`, `stream_events` | `feed` is everything broadcast, `next` the subscriber's position, `view` what the browser shows |
| `HttpGate` | `auth_mw`, `role_for`, `UserAuth`, `IngestAuth`, `TokenReviewValidator`, `TokenBucket`, `ingest` | the configuration is chosen in `Init`; `admitted`, `persisted` and `grants` are what the gate let through |
| `McpBridge` | `serve_stdio`, `dispatch`, `ControlPlaneClient` | extends `HttpGate`: a call is `StartCall`, `ServeCall` (through `Passes`), `ReplyCall` or `LoseCall`; others decide on the same proposal |
| `Enrollment` | `ensure_enrolled`, the `/enroll` handler, `load_pinned_keyring` | a file is absent, torn, or carries the number of the attempt that wrote it |
| `PollLoop` | `run`, `poll_once`, `PollState` | time is the length of the sleeps; `silent` are the peers that may never answer |
| `HostTaps` | `config_drift.rs`, `update.rs`, `journald.rs`, `auth.rs` | three taps that share no state; one of them runs in a behaviour |
| `DigestWindow` | the accumulator of `run_detection`, `spawn_digest`, `spawn_heartbeat` | `accumulator`, `window`, `digests`; `overflowed` and `forgotten` account for what a digest leaves out |
| `KubeWatch` | `watcher.rs`, `node.rs`, `publish.rs` | `object` is the cluster, `stream` what the watch has yet to deliver (external), `seen` and `raised` what the agent remembers |
| `LogDedup` | `logs.rs`, `LogDeduper` | `cache` per pod, least recently used first; `told` and `others` are ghosts that recompute what it should remember |
| `KubeCommands` | `command_loop.rs`, `executor.rs` | `inbox` is the subscription, `executed` the ids, `pods` the cluster (external) |
| `...Proofs` | the theorems, see section 4. `AgentPartsProofs`, `ServerPartsProofs` and `CatalogKnowledgeProofs` each hold the proofs of several modules that share no state | |
| `MC...` | the instances for TLC. `MCServerParts` and `MCAgentParts` put parts that share no variable side by side: `focus`, chosen in `Init`, says which one runs, and the others stay in one initial state. Every property is about one part, so the run is the union of the parts' own state graphs | |

The modules share interfaces, not variables: the policy's answer is an input of
`RemediationLifecycle`, and so are the matched template and the built command, which
`TemplateCatalog` makes; its `Process` in turn abstracts `CommandLedger`,
`KeyRotation` and `Actuator` to "acted on, refused or skipped". Faults of the
environment are sets (`DbFaults`, `EnvFaults`; a variable `faults` chosen in `Init`
where one run covers every combination), so a property says which faults it bears.

Abstractions common to all: a uuid is a model value; texts, metrics, logs and the
wording of entries are left out; signatures are perfect.

## 3. Runs

| Run | Bounds | Checks and result |
|---|---|---|
| `lifecycle_safety` | 2 proposals, 2 commands, 1 fault, 1 agent, 2 concurrent handlers, every fault | `IssuedIsAudited`, `AuditIsTruthful`, refinement of `AuditTrail`: hold (400,730 states) |
| `lifecycle_live` | 1 proposal, 2 commands, 2 handlers, agent crashes and message loss | `CommandsDrain`, `IssuedIsDecided`: hold under fairness |
| `lifecycle_double_approval` | as above, no faults | `OneExecutionPerProposal`: violated |
| `lifecycle_reject_after_run` | no faults | `RejectedNotExecuted`: violated |
| `lifecycle_stale_cache` | no faults | `CacheInSync`: violated |
| `ledger` | 2 commands, 2 restarts, all four combinations of torn appends and power loss | `AtMostOnce`, `LostOnlyBehindTear`, `DurableLineIsKept`: hold |
| `ledger_torn_rerun` | the same | `CrashNeverReruns`: violated |
| `policy` | 2 hosts, 2 templates, 4 rules, 3 concurrent evaluations, cap 1, window 2, lag 2, 5 ticks, 1 restart | `WindowCap`, `AutoIsAllowed`, `TripIsJustified`: hold |
| `actuator` | 5 connections of different shapes, 2 permits, 2 polls | `ResultIsEarned`, `NothingRunsUnchecked`, `PermitsAreConserved`, `EveryoneIsServed`: hold |
| `pipeline` | 2 units, 2 failures, grace 1, channel of 1, outbox of 2, 1 restart, 1 misjudged publish or delete | `OncePerEpisode`, `GraceIsHeld`, `NothingVanishes`, `OldestPruned`, `PreparesExplained`, `FailureIsReported`: hold |
| `server_parts` | glob: patterns up to 5, texts up to 4 over two letters, `*` and `?`; catalog: 6 events, 4 template sets, 2 proposals, 1 restart; knowledge: 3 signatures with 2 slugs, 2 recorders, 3 records; registry: 1 agent, 2 writers, 2 puts of 3 label sets, 2 ticks; feed: 2 events delivered up to twice, 2 ingesters, a channel of 2; gate: 32 configurations, 9 bearers, 2 ingest clients, a bucket of 2, 4 requests; MCP server: 4 configurations, 5 tokens, 3 lines | `GlobIsRight`, `GlobReturns`, `CommandsAreSound`, `ShownIsRun`, `NoPartialEntry`, `HistoryIsHonest`, `RegistryIsTrue`, `FeedAgreesWithTable`, `GateHolds`: hold (1,204,618 states) |
| `agent_parts` | rotation: 2 commands, 2 rotations, every combination of failing fetch, write and reload; enrollment: 3 attempts; poll: 3 intervals, threshold 3, exponent up to 2 of 3 bits, batches of 2; taps: 2 files, 2 contents, 3 generations, 4 changes, 9 kinds of record; digest: 3 events, a window of 2, 1 restart; watches: 2 Events or 2 nodes, 2 episodes, 1 end of the stream; logs: 4 lines, a cap of 2, 3 reads, 3 ticks; executor: 3 orders, one of them sent twice and one with a bad name, 2 pods, 1 restart | `OnlyNewKeysRefused`, `FleetConverges`, `EnrollmentHolds`, `PollIsPaced`, `LoopComesBack`, `TapsReportTruly`, `DigestHolds`, `OneSignalEach`, `DedupRemembers`, `OrdersRunOnce`: hold (611,271 states) |

**Why the bounds suffice.** Races of the lifecycle need two handlers on one
fault; two commands let two approvals, or an approval and an auto-execution, meet.
A torn ledger line needs a torn append, a successor and a restart, so two commands
and two restarts. Three evaluations show that the breaker's excess grows with the
overlap. More polls than two repeat the second. Two rotations let a ring lag by more
than one key. With a restart two failures make up to four events, so an outbox of
two prunes. A torn temporary file needs two recorders of one slug, and a third record
to read what they left. Two puts overlap, and a listing falls between them. A lagging
subscriber needs one item more than the channel holds. An eviction needs one line more
than the cap, and an expiry in between a third tick. The poll loop's constants are
scaled down together: the threshold lies beyond the first capped delay, and one
interval lies below, one between and one above the pause of an open circuit and the
ceiling. Deadlock is checked in the lifecycle runs; the others end when their bounded
inputs are used up.

Type correctness is proved (section 4), as a theorem of its own or as the first part of
a module's inductive invariant, and no run spends its time on it.

**Fairness.** Weak fairness of a handler's steps and of an agent's loop: the tokio
runtime polls a task that is ready, and `run` loops for ever. No fairness for
faults, operators, crashes and new messages. `Actuator` adds strong fairness of
`Accept` per connection, because `accept()` takes connections in order, and assumes
that peers and systemctl answer (the code has no timeout there, see the hazards).
`KeyRotation` adds strong fairness of a successful refresh: a fetch that is retried
for ever succeeds at last; without failing fetches this is weak fairness of the loop.
`PollLoop` has weak fairness of its sleep and of the answers of peers that are not
`silent`; none of the others, since neither the HTTP client nor the actuator's socket
has a timeout. The loop of `glob_match` is not interrupted. In the composed runs each
fairness condition is guarded by `focus`, and written in the MC module.
`EventPipeline` adds strong fairness of a successful flush: the control plane is not
unreachable for ever. `lifecycle_live` has no failing statement, because a failed UPDATE really does leave
a pending row behind whose command runs, and no server restart, which loses a handler.

### What the violations show

* **Double approval** (`api.rs:487`): the command is enqueued before the guarded
  UPDATE, whose outcome is ignored. Two approvals that both read the pending row
  each issue a command, and both run.
* **Reject after execution** (`db.rs:723`): the UPDATE has no guard on the state,
  so an approved, executed proposal can be turned to `rejected`.
* **Stale cache** (`remediation.rs:545`): the key is cached after the INSERT; a
  decision in between evicts nothing, and the key then silences its fault until the
  server restarts.
* **Torn ledger line** (`ravn-agent/remediation.rs:100`): the id behind a torn
  append is not on a line of its own and is forgotten by the next start.

### What the passing properties concede

Several properties carry a proviso, which is what the code does not give:

* two overlapping prepares of one fault both pass the cache and both insert: the
  lifecycle model reaches two pending rows of the same key;
* an agent's result can arrive before the approval has written `command_id`; it is
  accepted (202) and recorded only in memory (`AuditIsTruthful` says that rows do not
  overstate, not that every result is on one);
* no path leads from a `Frozen` result to the next policy decision;
* `AtMostOnce` needs whole appends and no power loss: nothing calls `fsync`;
* `WindowCap` grows with the overlap of evaluations, since `tripped` and `record`
  lock separately, with their lag, and with restarts, since the log is in memory;
* `EveryoneIsServed` holds although the accept loop itself waits for a permit, so
  that with all permits taken strangers are not refused either until a command ends;
* `FleetConverges` needs writes of the keyring file to succeed: after one failure the
  ring in memory counts as unchanged and the file is not written again;
* `GraceIsHeld` excepts a unit that recovers and fails again between two polls, which
  the tracker takes for one failure; `PreparesExplained` concedes that a message
  delivered twice is stored once but prepared twice; core NATS has no replay, so a
  message that meets no subscriber is lost although its publish succeeded;
* `NoPartialEntry` and the second half of `HistoryIsHonest` except slugs two records of
  which overlapped: the second writer truncates the temporary file the first one is
  about to rename, and a load, modify, store in between loses the other's outcome. The
  comment at `knowledge.rs:77` says that distinct signatures have distinct slugs; they
  need not (`a:b` and `a-b`), and the model lets two of them share an entry;
* `ShownIsRun` excepts a restart between proposal and approval, and two files with one
  id: `approve_remediation` looks the template up by its id alone, so it runs the text
  loaded now with the parameters resolved then;
* `RegistryIsTrue`: labels of two overlapping puts may end up mixed (READ COMMITTED), so
  it compares with the last put only where none overlapped; a listing's agents and
  labels come from two moments;
* `FeedAgreesWithTable` excepts a second delivery, which is broadcast bare after its
  explanation was, and a subscriber that lagged, which is not told what it missed;
* `GateHolds` is about who reaches a handler: `GET /agents/{id}/commands` is a safe
  method, so a viewer's request drains an agent's queue; and the bucket is spent before
  a bearer is looked at;
* `EnrollmentHolds`: a stop after the CA file and before the pinned key leaves an agent
  that counts as enrolled, never enrolls again and never pulls commands;
* `PollIsPaced`: with a poll interval above the pause of the open circuit, an agent polls
  a failing server more often than a healthy one, and full jitter may draw one second;
  `LoopComesBack` needs peers that answer: a silent actuator or server stops the loop;
* `DigestHolds`: a full window drops an event from the digest (it is still published
  bare), and a restart takes the window along;
* `TapsReportTruly`: a file under a watched directory has no baseline before its first
  change, and a generation that comes and goes between two ticks is not seen;
* `OneSignalEach`: what happens between the end of a watch and the next snapshot is
  swallowed, and a failed publish is not tried again although it counts as seen;
* `DedupRemembers` says what the cache does, which is to tell a line in the tail of a
  log again after each time to live;
* `OrdersRunOnce` is per process: the executed ids are in memory. The id is recorded
  before the envelope is verified, so one that fails the check uses up its id; `pod_state` is an
  error, not a state to wait out, while no pod matches. No code in the repository
  publishes to `ravn.commands.*`; the sender is external;
* `OnlyNewKeysRefused` allows what the order of refresh and poll makes possible: a
  key rotated between them makes the agent refuse, and lose, a good command.

## 4. Proofs

Everything here holds for every value of the constants, under the modules' named
assumptions: numbers are naturals, those that size a pool, a cache or a window are not
zero where the code's are not, model values that stand for "nothing" are no proper value.
`PollAssumption` and `BridgeAssumption` also state that `2 ^ Width` is a positive number,
since the prover does not compute powers. TLC evaluates every assumption on the
runs' instances. A run checks a property on a small instance; the theorem of the same
property states it for all of them. Every specification here is the one whose next-state
relation the runs use, without its fairness; the parts that a run puts side by side
(`MCServerParts`, `MCAgentParts`) are each proved on their own.

| Module | Theorems | Inductive invariant, beyond the types |
|---|---|---|
| `RemediationLifecycleProofs` | `TypeCorrect`, `NoCommandWithoutAudit` (`IssuedIsAudited`), `AuditNeverOverstates` (`AuditIsTruthful`) | `IInv`. Handlers act on what they read before an await, so `TaskOK`: what a handler carries is still true; `RowOK`: an undecided row has no command; `ReportOK`: a success on its way is that of an executed command; `OutOK`: `IssuedIsAudited` position by position |
| | `LifecycleImplementsAuditTrail` (`AuditTrailSpec`) | `UInv`: a command is in one queue, inbox or report at a time and at one place of it (`OnePlace`), not yet out while `auto_execute` holds it (`NotYetOut`), and out of all of them once its result is recorded (`ClosedIsDone`); a prepare task is alone with its new proposal until the INSERT (`OwnProposal`) |
| | `ApprovedApartRunsOnce`, `TimelyRejectNeverRuns`, `SerialCacheInSync`: when the refuted claims hold, see below | `SignedIsCarried`: a command signed for a row that is absent or pending is in the hands of a handler about to write that row; with it `SignedOnce`, or `RejectedUnsigned`. `CacheOK`: the key the one running handler is about to add or evict is all by which cache and pending rows differ |
| `CommandLedgerProofs` | `LedgerTypeCorrect`, `DurableLinesAreKept` (action property), `OnlyTearsForget` (`LostOnlyBehindTear`), `LedgerAtMostOnce` (`AtMostOnce`) | `MemoryOK`: an id on an own line is in `seen`; `EntryOK`: a dispatched command has an entry followed by its line end; without faults `LinesOK`: the file is whole lines but for the one being written, and `OnceOK`: what is being recorded has not run |
| | `PollingIsPaced` (`PollIsPaced`) | `PlInv`: `errors` counts the sleeps since the last one of the full interval, so that one is still among the last `Threshold` until the circuit opens (`RestOK`) |
| `PolicyEngineProofs` | `PolicyTypeCorrect`, `BreakerBoundsEveryWindow` (`WindowCap`), `OnlyAllowedRunsUnattended` (`AutoIsAllowed`), `TripsForAReason` (`TripIsJustified`, action property) | `Base`: a call under way is for a scope the rules allow, and the log has no hit that was not an auto decision; `CapInv`: for each scope and window the decisions of the past and those that calls started in the window still owe stay within the bound, after setting aside the ones a restart forgot |
| `EventPipelineProofs` | `PipelineTypeCorrect`, `ReportedOnce` (`OncePerEpisode`), `NoEventVanishes` (`NothingVanishes`), `RepeatsAreExplained` (`PreparesExplained`), `NoEarlyReport` (`GraceIsHeld`) and `OnlyOldestPruned` (`OldestPruned`), action properties | `TapInv`: what was reported and still lasts is remembered, a timer is no older than its failure unless that blinked; `PipeInv`: an event is at one place of one of channel, loop and buffer (`OnePlace`), and deliveries that were, are under way or are owed number at most one more than the accidents (`DeliveriesOK`) |
| `AgentPartsProofs` | actuator: `ActuatorTypeCorrect`, `ResultsAreEarned` (`ResultIsEarned`), `UncheckedNeverRuns` (`NothingRunsUnchecked`), `NoPermitIsLost` (`PermitsAreConserved`) | `IInv`: what the log of a connection holds at each point of `handle_command` (`RunOK`); the connection the accept loop holds runs nothing |
| | `ExecutorActsOnce` (`OrdersRunOnce`), `RotationIsSafe` (`OnlyNewKeysRefused`, action property), `EnrollmentIsSafe` (`EnrollmentHolds`) | `KcInv`: what this process acted on is among its executed ids, and what it has in hand is valid past `verify`; `KrInv`: every ring is behind a key that is in use or knows it; `EnInv`: while files are written those before the current one are this attempt's (`StoringOK`); the CA file, third of five, is there only if key and certificate are one recorded attempt's (`WholeOK`), and the pinned key follows it unless a stop came between (`PinnedOK`) |
| | `DigestsLoseNothing` (`DigestHolds`), `TapsTellTheTruth` (`TapsReportTruly`), `DedupIsAMemory` (`DedupRemembers`) | `DgInv`: a number beyond the last event is in no place; `DriftInv`, `UpdateInv`, `JournalInv`: a baseline is seeded only before the first event; `LdInv`: a pod's cache is ordered by use, an entry has the time its line was told, and a line told and not in the cache was pushed out by `Cap` others |
| | `EachSignalOnce` (`OneSignalEach`) | `KwInv`: for each Event, what the watch has yet to deliver is in order and holds every count between the one last seen and the object's (`EventLine`); for each condition of a node, two applications still to come are of one episode unless one between them clears it, and the first of them is of an episode decided on exactly if the agent holds the condition raised (`ConditionLine`); the signals being sent are different ones, of nothing that was told before (`SendsOnce`) |
| `GlobMatchProofs` | `GlobAnswersRight` (`GlobIsRight`), `GlobNeverGoesRound` | `GlobInv`: the text before `ti` is matched by the pattern before `pi`, and what the last `*` has eaten so far by the pattern up to it (`Sound`); no match of the whole ends that `*` before the place the loop is trying (`Complete`) |
| `ServerPartsProofs` | `GateIsSafe` (`GateHolds`), `RegistryIsSafe` (`RegistryIsTrue`), `FeedIsTrue` (`FeedAgreesWithTable`) | `HgInv`: tokens left count with the grants since any one of them (`BucketOK`); `McpInv`: the call in hand is the last request, and has decided exactly when served and told so; `FlInv`: a transaction that has inserted holds its agent and keys, one that is alone has seen all there is, a running listing's labels are among those it may show; `LfInv`: how far insert, broadcast, explanation and UPDATE of an event delivered once have come (`Once`), and the browser shows the latest it was forwarded (`ViewOK`) |
| `CatalogKnowledgeProofs` | `EveryCommandIsSound` (`CommandsAreSound`), `WhatWasShownRuns` (`ShownIsRun`), `NoEntryIsPartial` (`NoPartialEntry`), `EntriesAreHonest` (`HistoryIsHonest`) | `TcInv`: a loaded catalog is an order of the valid templates of the directory, and a proposal of this start with an unambiguous id is of the only template that has it; `KbInv`: no inode has two names (`InodesApart`), every entry on disk or in hand is honest, and where records did not overlap the temporary file is its one writer's (`Orderly`) |

Each proof has one lemma per action (or per group that changes the same things), under
lemmas on what an append, a removal or a row write does, and a last lemma
(`NextIInv`, `KcStep`, ...) that collects them; the temporal theorem follows from it.
For the refinement, each action is shown to take a step of `AuditTrail` or to change no
row, with `IInv` and `UInv` before it.

**When the refuted claims hold.** Three theorems delimit the violations of section 3: each
says that the claim holds in every behaviour in which a condition always does
(`Spec /\ []Condition => []Claim`), and the violation run shows that it does not hold
without. At most one command of a proposal runs if no two approvals of it overlap
(`ApprovalsApart`); no command of a rejected proposal runs if a reject reaches its UPDATE
while the row is pending and nobody is approving it (`RejectsTimely`). Both also need that
no statement fails without its effect and that the server does not restart: either leaves a
pending row behind whose command is out. Lost acknowledgements, agents that crash and lost
messages are allowed. The cache agrees with the rows at rest, and no fault has two pending
rows, if handlers run one at a time (`OneAtATime`) and no statement fails; here restarts
are allowed, since `RemediationStore::new` rebuilds the cache. So these are defects of
overlap and of failing statements alone: no order of whole requests leads to them, but for
a reject that comes after the decision.

**Globs without induction.** `Meaning` says that a text can be cut into one piece per
character of the pattern, so it needs no recursion. That the loop computes it follows from
`GlobInv`; the one place that would take induction, that only stars are left where the text
is used up, looks at the first cut that is not at its end (`LeastNumber`) instead. `GlobNeverGoesRound` is the safety half of `GlobReturns`: each turn answers
or increases a bounded measure, and only that turns happen at all is left to fairness.

Three proofs changed what is stated. `WindowCap` was stated for evaluations that take
less than a window; the proof does not need that, so the proviso went and the run now has
a lag of a whole window. `PollIsPaced` asked for the sum of `Threshold` sleeps
to reach the interval or the pause; one of the sleeps alone does. `TapsReportTruly` compares
a file with its baseline as soon as none of that file's notifications is left, not only once the
channel is empty.

Only model-checked:

* liveness: `CommandsDrain`, `IssuedIsDecided`, `GlobReturns`, `EveryoneIsServed`,
  `FleetConverges`, `FailureIsReported`, `LoopComesBack`. Fairness and ENABLED are out of
  the prover's reach;
* the four violations, which are counterexamples.

## 5. Not modelled

* Metrics, configuration and start-up wiring; the portal; the NixOS modules: no state
  that the properties tell apart.
* The evaluation harness scores fixed files, sequentially.
* What a read tool of the MCP server selects from the answer it got, and tool schemas.
* Prompts and the parsing of a model's reply (an answer or an error here), X.509, TLS
  and Ed25519 (assumed), the wording of titles, reports and entries.
* Read-only queries of the API, and `PUT /settings`, which writes a file in place
  (`api.rs:829`): a stop in between leaves it cut short.
* Byte positions in text. `truncate` (`ravn-agent/inference.rs:257`,
  `ravn-mcp/client.rs:173`) and the diff limit (`config_drift.rs:171`) cut a string at a
  byte index, which panics inside a character of several bytes; sequences of character
  classes do not show that.

## 6. Plan

1. Done: lifecycle with `AuditTrail`, ledger, policy, glob, actuator, rotation,
   failed-unit tap and event pipeline; template catalog, knowledge base, registry, live
   feed, HTTP gate, MCP server; enrollment, poll loop, host taps, digests; the Kubernetes
   agents; proofs of every safety property of a passing run.
2. Runs to swap in when the code changes: one pending row per fault, once the insert
   and its cache are one step; whole entries for overlapping records, once the
   temporary file has a name of its own.
