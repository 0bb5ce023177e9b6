------------------------------ MODULE HostTaps ------------------------------
(***************************************************************************)
(* Three taps of the host agent (ravn-agent detection/): config drift      *)
(* (config_drift.rs), system updates (update.rs) and the journal with its  *)
(* auth classifier (journald.rs, auth.rs). They share only the channel,    *)
(* whose back pressure EventPipeline models: one tap runs at a time here.  *)
(*                                                                         *)
(* A file's content stands for its hash; the diff texts, titles and user   *)
(* names of an event are left out. The kernel's watch queue is unbounded.  *)
(***************************************************************************)
EXTENDS Naturals, Sequences, SequencesExt

CONSTANTS
  Files, Explicit,  \* the files under the watched paths, and those named by one
  Contents, Gone,   \* what a file may hold, and an unreadable one
  MaxChanges,       \* bound on the changes of the world
  MaxGeneration,    \* the generations of the system profile; 0: it has none
  Records           \* journal records: [ident, text, priority, kernel, message]

ASSUME TapsAssumption ==
  /\ Explicit \subseteq Files /\ Gone \notin Contents
  /\ MaxGeneration \in Nat /\ \A r \in Records : r.priority \in Nat

VARIABLES
  tap,        \* which tap runs: "drift", "update" or "journal"
  changes,    \* how often the world has changed
  content,    \* file -> what it holds now
  start,      \* file -> steps of watch() done for it; 3: it cannot be watched
  notified,   \* the watcher's channel: paths, in order
  baseline,   \* file -> the remembered state, Gone when there is none
  drifts,     \* the drift events: [file, old, new]
  profile,    \* the generation the profile links to
  current,    \* UpdateTap.run: the generation last seen; 0: the tap found none and is idle
  latest,     \* the generation whose closure is being compared, 0 for none
  updates,    \* the update events: <<from, to>>
  settings,   \* JournaldTap: [min_priority, auth_enable, skip_kernel]
  journal     \* record -> what was reported of it, "unread" before that

driftVars == <<content, start, notified, baseline, drifts>>
updateVars == <<profile, current, latest, updates>>
journalVars == <<settings, journal>>
htVars == <<tap, changes, driftVars, updateVars, journalVars>>

HtInit ==
  /\ tap \in {"drift", "update", "journal"}
  /\ changes = 0
  /\ content \in IF tap = "drift" THEN [Files -> Contents \cup {Gone}] ELSE {[f \in Files |-> Gone]}
  /\ start = [f \in Files |-> 0]
  /\ notified = <<>>
  /\ baseline = [f \in Files |-> Gone]
  /\ drifts = <<>>
  /\ profile \in IF tap = "update" THEN 0..MaxGeneration ELSE {0}
  /\ current = profile /\ latest = 0 /\ updates = <<>>
  /\ settings \in
       IF tap = "journal"
         THEN [min_priority : {3, 4, 7}, auth_enable : BOOLEAN, skip_kernel : BOOLEAN]
         ELSE {[min_priority |-> 4, auth_enable |-> FALSE, skip_kernel |-> FALSE]}
  /\ journal = [r \in Records |-> "unread"]

WorldChanges == changes < MaxChanges /\ changes' = changes + 1

-----------------------------------------------------------------------------
(* config_drift.rs: watch, process, evaluate *)

\* (mutation of StartOrder: the files are read before they are watched)
StartOrderSeedFirst == <<"seed", "watch">>

StartOrder == <<"watch", "seed">>

Watched(f) == start[f] \in 1..2 /\ "watch" \in {StartOrder[i] : i \in 1..start[f]}

\* Someone writes, replaces or removes a file.
ChangeFile(f, c) ==
  /\ WorldChanges
  /\ content[f] # c
  /\ content' = [content EXCEPT ![f] = c]
  /\ notified' = IF Watched(f) THEN Append(notified, f) ELSE notified
  /\ UNCHANGED <<start, baseline, drifts>>

\* watch: each path is watched; a file named as a path is then read.
StartStep(f) ==
  /\ start[f] < 2
  /\ start' = [start EXCEPT ![f] = @ + 1]
  /\ baseline' = [baseline EXCEPT ![f] =
       IF f \in Explicit /\ StartOrder[start[f] + 1] = "seed" THEN content[f] ELSE @]
  /\ UNCHANGED <<content, notified, drifts>>

CannotWatch(f) ==
  /\ start[f] = 0
  /\ start' = [start EXCEPT ![f] = 3]
  /\ UNCHANGED <<content, notified, baseline, drifts>>

\* What is read is the file as it is now, not as it was when the event was raised;
\* an unreadable file is reported if it was known, the same content is not.
Evaluate(f) ==
  /\ baseline' = [baseline EXCEPT ![f] = content[f]]
  /\ drifts' = IF baseline[f] = content[f] THEN drifts
               ELSE Append(drifts, [file |-> f, old |-> baseline[f], new |-> content[f]])

ProcessNotification ==
  /\ \A f \in Files : start[f] >= 2
  /\ notified # <<>>
  /\ Evaluate(Head(notified))
  /\ notified' = Tail(notified)
  /\ UNCHANGED <<content, start>>

DriftNext ==
  \/ \E f \in Files, c \in Contents \cup {Gone} : ChangeFile(f, c)
  \/ /\ UNCHANGED changes
     /\ ProcessNotification \/ \E f \in Files : StartStep(f) \/ CannotWatch(f)

-----------------------------------------------------------------------------
(* update.rs: run *)

\* A switch or a rollback; 0: the link does not name a generation.
SwitchGeneration(g) ==
  /\ WorldChanges
  /\ g # profile /\ profile' = g
  /\ UNCHANGED <<current, latest, updates>>

\* A tick: the closures of the two generations are compared, which takes a while.
GenerationChanged ==
  /\ current # 0 /\ latest = 0
  /\ profile \notin {0, current}
  /\ latest' = profile
  /\ UNCHANGED <<profile, current, updates>>

SendUpdate ==
  /\ latest # 0
  /\ updates' = Append(updates, <<current, latest>>)
  /\ current' = latest
  /\ latest' = 0
  /\ UNCHANGED profile

UpdateNext ==
  \/ \E g \in 0..MaxGeneration : SwitchGeneration(g)
  \/ UNCHANGED changes /\ (GenerationChanged \/ SendUpdate)

-----------------------------------------------------------------------------
(* journald.rs and auth.rs *)

\* What journalctl is asked for: with auth detection on, down to info.
StreamPriority(s) ==
  IF s.auth_enable /\ s.min_priority < 6 THEN 6 ELSE s.min_priority

\* classify_ssh, classify_sudo, classify_audit: the severity of what they recognise.
AuthSeverity ==
  [sshd  |-> [accepted |-> "notice", failed |-> "warning"],
   sudo  |-> [command |-> "notice", failed |-> "warning"],
   audit |-> [accepted |-> "info", failed |-> "warning"]]

\* auth::classify: the text is read by who logged it; a session counts only when none
\* of the three did. "none" is no access event.
ClassifyAuth(r) ==
  LET known == r.ident \in DOMAIN AuthSeverity IN
  CASE r.message /\ known /\ r.text \in DOMAIN AuthSeverity[r.ident] -> AuthSeverity[r.ident][r.text]
    [] r.message /\ ~known /\ r.text = "session" -> "info"
    [] OTHER -> "none"

Severity(p) ==
  CASE p <= 2 -> "critical" [] p = 3 -> "error" [] p = 4 -> "warning" [] p = 5 -> "notice"
    [] OTHER -> "info"

\* record_to_event
ClassifyGeneric(r, s) ==
  IF r.priority > s.min_priority \/ (s.skip_kernel /\ r.kernel) \/ ~r.message
    THEN "none" ELSE Severity(r.priority)

\* A record comes down the stream; the auth classifier is asked first.
ReadRecord(r) ==
  /\ journal[r] = "unread" /\ r.priority <= StreamPriority(settings)
  /\ journal' = [journal EXCEPT ![r] =
       IF settings.auth_enable /\ ClassifyAuth(r) # "none"
         THEN ClassifyAuth(r) ELSE ClassifyGeneric(r, settings)]
  /\ UNCHANGED settings

HtNext ==
  /\ \/ tap = "drift" /\ DriftNext /\ UNCHANGED <<updateVars, journalVars>>
     \/ tap = "update" /\ UpdateNext /\ UNCHANGED <<driftVars, journalVars>>
     \/ /\ tap = "journal" /\ \E r \in Records : ReadRecord(r)
        /\ UNCHANGED <<changes, driftVars, updateVars>>
  /\ UNCHANGED tap

-----------------------------------------------------------------------------
(* Properties *)

OfFile(f) == {i \in DOMAIN drifts : drifts[i].file = f}

\* No other of these events comes after i and before j.
Neighbours(i, j, events) == i < j /\ \A k \in events : k <= i \/ k >= j

\* However the changes fall between the watch, the first read and the reading of a
\* notification: the events of a file link up and end with what is remembered of it, and
\* once its notifications are worked off that is what a watched file holds.
DriftIsTrue ==
  \A f \in Files :
    /\ \A i, j \in OfFile(f) : Neighbours(i, j, OfFile(f)) => drifts[i].new = drifts[j].old
    /\ \A i \in OfFile(f) : (\A k \in OfFile(f) : k <= i) => drifts[i].new = baseline[f]
    /\ start[f] = 2 /\ f \in Explicit /\ f \notin Range(notified) => baseline[f] = content[f]

\* Updates link up too, however the profile moves during a comparison: no change of
\* generation that was seen is left out of the chain.
UpdatesLinkUp ==
  /\ \A i \in 1..(Len(updates) - 1) : updates[i][2] = updates[i + 1][1]
  /\ updates # <<>> => Last(updates)[2] = current

\* With auth detection on, a failed access is a warning whatever its priority down to
\* info; widening the stream lets no other record past the threshold.
AccessIsReported ==
  \A r \in Records :
    /\ settings.auth_enable /\ r.priority <= 6 /\ ClassifyAuth(r) = "warning" =>
         journal[r] = "warning" \/ (journal[r] = "unread" /\ r.priority <= StreamPriority(settings))
    /\ journal[r] \notin {"unread", "none"} /\ r.priority > settings.min_priority =>
         settings.auth_enable /\ ClassifyAuth(r) # "none"

TapsReportTruly == DriftIsTrue /\ UpdatesLinkUp /\ AccessIsReported
=============================================================================
