--------------------------- MODULE EventPipeline ---------------------------
(***************************************************************************)
(* The way of a detected event from the failed-unit tap to the control     *)
(* plane: the channel and the detection loop of the agent (ravn-agent      *)
(* main.rs), its offline buffer and the flush task (buffer.rs, main.rs),   *)
(* the transport (transport.rs), and ingestion (ravn-server ingest.rs,     *)
(* db.rs).                                                                 *)
(*                                                                         *)
(* A publish succeeds, fails without effect, or fails although the message *)
(* left (the flush of the NATS client, or the first send on a WebSocket    *)
(* that broke). Core NATS has no replay: a message that meets no           *)
(* subscriber is gone. The startup event and the digest take the path of   *)
(* any other event. Explanations, which change only an event's wording,    *)
(* the counters of the heartbeat and the agent registry are left out.      *)
(***************************************************************************)
EXTENDS FailedUnitTap, SequencesExt

CONSTANTS
  ChanCap,   \* capacity of the mpsc channel (256)
  MaxRows,   \* Buffer.max
  Batch,     \* drain_batch(100)
  MaxBoots,  \* bound on the restarts of the agent
  MaxAmbiguous  \* bound on the publishes and deletes of uncertain outcome

ASSUME PipelineAssumption ==
  /\ ChanCap \in Nat \ {0} /\ MaxRows \in Nat \ {0} /\ Batch \in Nat \ {0}
  /\ MaxBoots \in Nat /\ MaxAmbiguous \in Nat

VARIABLES
  channel,   \* events the tap has sent and the loop has not received
  sending,   \* the event the detection loop is publishing, or None
  outbox,    \* Buffer: the rows of the table outbox, oldest first
  batch,     \* what the flush task has drained and not dealt with yet
  flushed,   \* the head of batch is published but not yet deleted
  wire,      \* messages on their way to the control plane
  stored,    \* the table events
  prepares,  \* event -> how often it was handed to remediation::prepare
  excused,   \* ghost: events given up for a reason the code names
  ambiguous  \* ghost: publishes and deletes whose outcome the agent misjudged

pipeVars == <<channel, sending, outbox, batch, flushed, wire, stored, prepares, excused, ambiguous>>
vars == <<tapVars, pipeVars>>

Ids == 1..Len(events)

\* The variables hold values of their types, and the bounds are kept.
TypeOK ==
  /\ TapTypeOK
  /\ channel \in Seq(Ids) /\ Len(channel) <= ChanCap
  /\ sending \in Ids \cup {None}
  /\ outbox \in Seq(Ids) /\ Len(outbox) <= MaxRows /\ IsInjective(outbox)
  /\ batch \in Seq(Ids) /\ Len(batch) <= Batch
  /\ flushed \in BOOLEAN /\ (flushed => batch # << >>)
  /\ wire \in Seq(Ids)
  /\ stored \subseteq Ids /\ excused \subseteq Ids
  /\ prepares \in [Ids -> Nat]
  /\ ambiguous \in 0..MaxAmbiguous

Init ==
  /\ TapInit
  /\ channel = << >> /\ sending = None
  /\ outbox = << >> /\ batch = << >> /\ flushed = FALSE
  /\ wire = << >> /\ stored = {} /\ prepares = << >>
  /\ excused = {} /\ ambiguous = 0

-----------------------------------------------------------------------------
(* The tap, and the channel to the detection loop *)

World ==
  /\ \/ \E u \in Units : UnitFails(u) \/ UnitRecovers(u)
     \/ Tick
     \/ Observe
  /\ UNCHANGED pipeVars

\* tx.send waits while the channel is full.
TapSend ==
  /\ Len(channel) < ChanCap
  /\ \E s \in toEmit : Send(s)
  /\ channel' = Append(channel, Len(events'))
  /\ prepares' = Append(prepares, 0)
  /\ UNCHANGED <<sending, outbox, batch, flushed, wire, stored, excused, ambiguous>>

-----------------------------------------------------------------------------
(* Buffer *)

\* Buffer::enqueue: insert or ignore, then prune the oldest rows beyond the cap.
Enqueue(e) ==
  LET rows == IF Contains(outbox, e) THEN outbox ELSE Append(outbox, e)
      over == IF Len(rows) > MaxRows THEN Len(rows) - MaxRows ELSE 0
  IN
  /\ outbox' = SubSeq(rows, over + 1, Len(rows))
  /\ excused' = excused \cup {rows[i] : i \in 1..over}

\* Buffer::delete: event_id is the primary key, so it is one row or none.
DeleteRow(e) ==
  IF Contains(outbox, e) THEN RemoveAt(outbox, CHOOSE i \in DOMAIN outbox : outbox[i] = e)
  ELSE outbox

\* What is not the pipeline's business in a step of one of its tasks.
Others == UNCHANGED <<tapVars, stored, prepares>>

-----------------------------------------------------------------------------
(* Transport::publish *)

\* It reports success. On a WebSocket the first send may have failed and yet have
\* arrived; the resend then makes two.
Published(e) ==
  \/ wire' = Append(wire, e) /\ UNCHANGED ambiguous
  \/ /\ ambiguous < MaxAmbiguous /\ ambiguous' = ambiguous + 1
     /\ wire' = wire \o <<e, e>>

\* It reports an error, and the message has not left or has.
NotPublished(e) ==
  \/ UNCHANGED <<wire, ambiguous>>
  \/ /\ ambiguous < MaxAmbiguous /\ ambiguous' = ambiguous + 1
     /\ wire' = Append(wire, e)

-----------------------------------------------------------------------------
(* run_detection *)

Receive ==
  /\ sending = None /\ channel # << >>
  /\ sending' = Head(channel) /\ channel' = Tail(channel)
  /\ UNCHANGED <<outbox, batch, flushed, wire, excused, ambiguous>> /\ Others

\* Published.
PublishOk ==
  /\ sending # None
  /\ Published(sending)
  /\ sending' = None
  /\ UNCHANGED <<channel, outbox, batch, flushed, excused>> /\ Others

\* (mutation of PublishFails: the alarm is dropped)
PublishFailsDropped ==
  /\ sending # None
  /\ sending' = None
  /\ UNCHANGED <<channel, outbox, batch, flushed, wire, excused, ambiguous>> /\ Others

\* Not published, as far as the loop knows: buffer it instead of dropping the alarm.
PublishFails ==
  /\ sending # None
  /\ NotPublished(sending)
  /\ \/ Enqueue(sending)
     \/ outbox' = outbox /\ excused' = excused \cup {sending}
  /\ sending' = None
  /\ UNCHANGED <<channel, batch, flushed>> /\ Others

-----------------------------------------------------------------------------
(* spawn_flush *)

Drain ==
  /\ batch = << >> /\ outbox # << >>
  /\ batch' = SubSeq(outbox, 1, IF Len(outbox) < Batch THEN Len(outbox) ELSE Batch)
  /\ UNCHANGED <<channel, sending, outbox, flushed, wire, excused, ambiguous>> /\ Others

\* (mutation of FlushOk: the row is deleted first, whatever becomes of the publish)
FlushOkDeleteFirst ==
  /\ batch # << >> /\ ~flushed
  /\ outbox' = DeleteRow(Head(batch))
  /\ \/ wire' = Append(wire, Head(batch)) /\ flushed' = TRUE /\ batch' = batch
     \/ wire' = wire /\ flushed' = FALSE /\ batch' = << >>
  /\ UNCHANGED <<channel, sending, excused, ambiguous>> /\ Others

FlushOk ==
  /\ batch # << >> /\ ~flushed
  /\ Published(Head(batch))
  /\ flushed' = TRUE
  /\ UNCHANGED <<channel, sending, outbox, batch, excused>> /\ Others

\* Still unreachable: the rest of the batch waits for the next tick.
FlushFails ==
  /\ batch # << >> /\ ~flushed
  /\ NotPublished(Head(batch))
  /\ batch' = << >>
  /\ UNCHANGED <<channel, sending, outbox, flushed, excused>> /\ Others

\* (mutation of FlushDelete: the row is left in the table)
FlushNoDelete ==
  /\ flushed
  /\ batch' = Tail(batch) /\ flushed' = FALSE
  /\ UNCHANGED <<channel, sending, outbox, wire, excused, ambiguous>> /\ Others

\* (mutation of FlushDelete: the oldest row is deleted, not the published one)
FlushDeleteOldest ==
  /\ flushed
  /\ batch' = Tail(batch) /\ flushed' = FALSE
  /\ outbox' = Tail(outbox)
  /\ UNCHANGED <<channel, sending, wire, excused, ambiguous>> /\ Others

\* buffer.delete, whose failure is ignored.
FlushDelete ==
  /\ flushed
  /\ batch' = Tail(batch) /\ flushed' = FALSE
  /\ \/ outbox' = DeleteRow(Head(batch)) /\ UNCHANGED ambiguous
     \/ /\ ambiguous < MaxAmbiguous
        /\ outbox' = outbox /\ ambiguous' = ambiguous + 1
  /\ UNCHANGED <<channel, sending, wire, excused>> /\ Others

\* The agent starts again: only the outbox is on disk.
AgentRestart ==
  /\ boot < MaxBoots
  /\ flushed => ambiguous < MaxAmbiguous
  /\ TapRestart
  /\ excused' = excused \cup ToSet(channel) \cup ({sending} \ {None})
  /\ channel' = << >> /\ sending' = None
  /\ batch' = << >> /\ flushed' = FALSE
  /\ ambiguous' = IF flushed THEN ambiguous + 1 ELSE ambiguous
  /\ UNCHANGED <<outbox, wire, stored, prepares>>

-----------------------------------------------------------------------------
(* ingest: persist_message *)

\* insert_message: ON CONFLICT DO NOTHING.
InsertMessage(e) == stored' = stored \cup {e}

\* The row is written unless it is there already, and prepare is called either way.
Ingest ==
  /\ wire # << >>
  /\ InsertMessage(Head(wire))
  /\ prepares' = [prepares EXCEPT ![Head(wire)] = @ + 1]
  /\ wire' = Tail(wire)
  /\ UNCHANGED <<tapVars, channel, sending, outbox, batch, flushed, excused, ambiguous>>

\* No subscriber, or the INSERT failed: the message is not retried.
IngestFails ==
  /\ wire # << >>
  /\ excused' = excused \cup {Head(wire)}
  /\ wire' = Tail(wire)
  /\ UNCHANGED <<tapVars, channel, sending, outbox, batch, flushed, stored, prepares, ambiguous>>

AgentStep ==
  \/ TapSend \/ Receive \/ PublishOk \/ PublishFails
FlushStep ==
  \/ Drain \/ FlushOk \/ FlushFails \/ FlushDelete

Next ==
  \/ World \/ AgentStep \/ FlushStep
  \/ Ingest \/ IngestFails \/ AgentRestart

Spec == Init /\ [][Next]_vars

\* Polls and ticks go on, tasks that can run do, and the control plane is not
\* unreachable for ever: a flush that is tried again and again succeeds at last.
FairSpec ==
  /\ Spec
  /\ WF_vars(Tick /\ UNCHANGED pipeVars) /\ WF_vars(Observe /\ UNCHANGED pipeVars)
  /\ WF_vars(AgentStep) /\ WF_vars(TapSend) /\ WF_vars(FlushStep)
  /\ SF_vars(FlushOk)
  /\ WF_vars(Ingest \/ IngestFails)

-----------------------------------------------------------------------------
(* Properties *)

\* An event that was sent is still on its way, or stored, or was given up for a
\* reason the code names: pruned at the cap of the buffer, in memory when the agent
\* stopped, not writable to a broken disk, or lost behind the broker.
NothingVanishes ==
  \A e \in Ids :
    \/ e \in stored \cup excused \cup {sending}
    \/ e \in ToSet(channel) \cup ToSet(outbox) \cup ToSet(wire)

\* Buffer: "bounded by a max row count (oldest pruned)". A row leaves the outbox
\* when it was published, or as the oldest row of a full outbox that another enters.
OldestPruned ==
  [][\A e \in ToSet(outbox) \ ToSet(outbox') :
       \/ flushed /\ e = Head(batch)
       \/ Len(outbox) = MaxRows /\ Len(outbox') = MaxRows /\ e = outbox[1]]_vars

\* persist_message calls prepare for every delivery, a repeated one too. An event
\* is prepared more than once only if a publish arrived and yet was reported as failed,
\* or its row outlived it: each such accident costs at most one delivery.
PreparesExplained == \A e \in Ids : prepares[e] <= 1 + ambiguous

\* A unit that stays failed is reported: an event of it is stored, or was given up.
FailureIsReported ==
  \A u \in Units :
    <>[](u \in failed) => <>(\E e \in stored \cup excused : events[e].unit = u)
=============================================================================
