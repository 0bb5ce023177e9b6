---------------------------- MODULE DigestWindow ----------------------------
(***************************************************************************)
(* Digest mode of the agent (ravn-agent main.rs): the detection loop puts  *)
(* events into an accumulator which the digest task empties on a timer,    *)
(* has explained by the model, and publishes as one message; and the       *)
(* heartbeat, which reports the counters that both of them raise.          *)
(*                                                                         *)
(* An event is its number, in the order of detection. What happens to a    *)
(* published or a buffered message is EventPipeline's subject.             *)
(***************************************************************************)
EXTENDS Naturals, Sequences, SequencesExt, FiniteSetsExt

CONSTANTS
  WindowCap,       \* digest_max_events
  MinSeverity,     \* digest_min_severity
  MaxSeverity,     \* the highest severity; the lowest is 0
  MaxDetected,     \* bound on the events
  MaxCrashes,      \* bound on the restarts
  MaxBeats         \* bound on the heartbeats

ASSUME DigestAssumption ==
  {WindowCap, MinSeverity, MaxSeverity, MaxDetected, MaxCrashes, MaxBeats} \subseteq Nat

VARIABLES
  severity,      \* the events detected so far: their severities
  accumulator,   \* the events waiting for the next digest
  window,        \* what the digest task has taken
  explaining,    \* "idle", "asking" the model, or "publishing"
  bare,          \* the event the detection loop is publishing, 0 for none
  digests,       \* the digests built: [events, severity, fate]
  overflowed,    \* events the full accumulator did not take
  forgotten,     \* events that went with the process
  published,     \* health.published
  seenOk,        \* health.last_detection is set in this life of the process
  beats,         \* the heartbeats of this life: [count, detected]
  crashes

dgVars == <<severity, accumulator, window, explaining, bare, digests, overflowed,
            forgotten, published, seenOk, beats, crashes>>

DgInit ==
  /\ severity = <<>> /\ accumulator = <<>> /\ window = <<>>
  /\ explaining = "idle" /\ bare = 0
  /\ digests = <<>> /\ overflowed = {} /\ forgotten = {}
  /\ published = 0 /\ seenOk = FALSE /\ beats = <<>> /\ crashes = 0

-----------------------------------------------------------------------------
(* run_detection *)

\* An event comes out of the channel: into the accumulator, if it is severe enough
\* and there is room, and then on to be published bare.
DgReceive(s) ==
  LET e == Len(severity) + 1 IN
  /\ bare = 0 /\ Len(severity) < MaxDetected
  /\ severity' = Append(severity, s)
  /\ bare' = e
  /\ \/ s < MinSeverity /\ UNCHANGED <<accumulator, overflowed>>
     \/ /\ s >= MinSeverity /\ Len(accumulator) < WindowCap
        /\ accumulator' = Append(accumulator, e) /\ UNCHANGED overflowed
     \/ /\ s >= MinSeverity /\ Len(accumulator) >= WindowCap
        /\ overflowed' = overflowed \cup {e} /\ UNCHANGED accumulator
  /\ UNCHANGED <<window, explaining, digests, forgotten, published, seenOk, beats, crashes>>

BarePublished ==
  /\ bare # 0 /\ bare' = 0
  /\ published' = published + 1 /\ seenOk' = TRUE
  /\ UNCHANGED <<severity, accumulator, window, explaining, digests, overflowed, forgotten, beats, crashes>>

BareNotPublished ==
  /\ bare # 0 /\ bare' = 0
  /\ UNCHANGED <<severity, accumulator, window, explaining, digests, overflowed, forgotten,
                 published, seenOk, beats, crashes>>

-----------------------------------------------------------------------------
(* spawn_digest *)

\* (mutation of TakeWindow: copied here, and cleared once it is published)
TakeWindowCopies ==
  /\ explaining = "idle" /\ accumulator # <<>>
  /\ window' = accumulator
  /\ explaining' = "asking"
  /\ UNCHANGED <<severity, accumulator, bare, digests, overflowed, forgotten, published, seenOk, beats, crashes>>

\* A tick: the accumulator is emptied under its lock, before the model is asked.
TakeWindow ==
  /\ explaining = "idle" /\ accumulator # <<>>
  /\ window' = accumulator /\ accumulator' = <<>>
  /\ explaining' = "asking"
  /\ UNCHANGED <<severity, bare, digests, overflowed, forgotten, published, seenOk, beats, crashes>>

\* The model answers, or does not: the digest goes out either way.
Explained ==
  /\ explaining = "asking"
  /\ explaining' = "publishing"
  /\ UNCHANGED <<severity, accumulator, window, bare, digests, overflowed, forgotten,
                 published, seenOk, beats, crashes>>

\* build_digest_message: as severe as the worst of the window.
BuildDigest(fate) ==
  [events |-> window, severity |-> Max({severity[window[i]] : i \in DOMAIN window}), fate |-> fate]

\* Published, buffered, or (no buffer, or a full disk) neither.
PublishDigest(fate) ==
  /\ explaining = "publishing"
  /\ digests' = Append(digests, BuildDigest(fate))
  /\ published' = IF fate = "published" THEN published + 1 ELSE published
  /\ window' = <<>> /\ explaining' = "idle"
  /\ UNCHANGED <<severity, accumulator, bare, overflowed, forgotten, seenOk, beats, crashes>>

-----------------------------------------------------------------------------

\* spawn_heartbeat: the two counters are read one after the other, with the detection
\* loop in between or not; both only grow, so one step stands for the two.
SendHeartbeat ==
  /\ Len(beats) < MaxBeats
  /\ beats' = Append(beats, [count |-> published, detected |-> seenOk])
  /\ UNCHANGED <<severity, accumulator, window, explaining, bare, digests, overflowed,
                 forgotten, published, seenOk, crashes>>

\* Shutdown or a crash: the accumulator and the window in hand are in memory only.
DgRestart ==
  /\ crashes < MaxCrashes /\ crashes' = crashes + 1
  /\ forgotten' = forgotten \cup Range(accumulator) \cup Range(window)
  /\ accumulator' = <<>> /\ window' = <<>> /\ explaining' = "idle" /\ bare' = 0
  /\ published' = 0 /\ seenOk' = FALSE /\ beats' = <<>>
  /\ UNCHANGED <<severity, digests, overflowed>>

DgNext ==
  \/ \E s \in 0..MaxSeverity : DgReceive(s)
  \/ BarePublished \/ BareNotPublished
  \/ TakeWindow \/ Explained
  \/ \E fate \in {"published", "buffered", "lost"} : PublishDigest(fate)
  \/ SendHeartbeat \/ DgRestart

-----------------------------------------------------------------------------
(* Properties *)

\* Where an event worth a digest is: how often it is found in all places together.
Places(e) ==
  LET in(S) == IF e \in S THEN 1 ELSE 0
      inDigests == Cardinality({i \in DOMAIN digests : e \in Range(digests[i].events)})
  IN  in(Range(accumulator)) + in(Range(window)) + in(overflowed) + in(forgotten) + inDigests

\* Whatever is detected while the model is thinking, no event worth a digest is left
\* out of all digests or told twice: it waits, is in hand, is in one digest, found
\* the window full, or went with the process. No digest is milder than an event of
\* it, or longer than the window.
DigestsAreComplete ==
  /\ \A e \in DOMAIN severity : Places(e) = IF severity[e] >= MinSeverity THEN 1 ELSE 0
  /\ \A i \in DOMAIN digests :
       /\ Len(digests[i].events) \in 1..WindowCap
       /\ \A e \in Range(digests[i].events) : severity[e] <= digests[i].severity

\* A heartbeat never reports more than was published, nor less than the one before.
BeatsAreMonotone ==
  \A i \in DOMAIN beats :
    /\ beats[i].count <= published
    /\ i > 1 => beats[i - 1].count <= beats[i].count
    /\ beats[i].detected => beats[i].count > 0

DigestHolds == DigestsAreComplete /\ BeatsAreMonotone
=============================================================================
