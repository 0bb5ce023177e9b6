---------------------------- MODULE CommandLedger ----------------------------
(***************************************************************************)
(* The agent's at-most-once guard (ravn-agent remediation.rs): the         *)
(* idempotency Ledger, in memory and on disk, and process_command, which   *)
(* records a command id before it dispatches the command to the actuator.  *)
(*                                                                         *)
(* The ledger file is the sequence of what was written to it: ids, line    *)
(* ends and debris. writeln!(f, "{id}") on an unbuffered File is one       *)
(* write(2) for the id and one for the line end, so an append is two       *)
(* steps, and the agent can stop between them.                             *)
(*                                                                         *)
(* The delivery of envelopes is external: any command may arrive, again    *)
(* and again, which is what the ledger is there for. verify_envelope_with  *)
(* (signature, expiry) is a choice.                                        *)
(***************************************************************************)
EXTENDS Naturals, Sequences, FiniteSets

CONSTANTS
  Commands,     \* command ids
  MaxRestarts,  \* bound on the restarts of the agent
  NL,           \* a line end
  Junk,         \* part of an id: a short write
  None

ASSUME LedgerAssumption ==
  /\ MaxRestarts \in Nat
  /\ NL \notin Commands /\ Junk \notin Commands /\ None \notin Commands
  /\ NL # Junk

VARIABLES
  faults,    \* what this host may do to the file: "torn" appends, "power_loss"
  seen,      \* Ledger.seen
  file,      \* the ledger file, as the processes see it
  durable,   \* how much of the file has reached the disk (nothing calls fsync)
  pc,        \* where process_command is
  cur,       \* the command it is on
  execs,     \* command -> how often the actuator was handed it
  restarts

vars == <<faults, seen, file, durable, pc, cur, execs, restarts>>

Token == Commands \cup {NL, Junk}

\* The variables hold values of their types, and a call under way has a command.
TypeOK ==
  /\ faults \subseteq {"torn", "power_loss"}
  /\ seen \subseteq Commands
  /\ file \in Seq(Token)
  /\ durable \in 0..Len(file)
  /\ pc \in {"idle", "append", "newline", "dispatch"}
  /\ cur \in Commands \cup {None}
  /\ pc # "idle" => cur \in Commands
  /\ execs \in [Commands -> Nat]
  /\ restarts \in 0..MaxRestarts

-----------------------------------------------------------------------------
\* An id counts when it is alone on its line; the last line needs no line end.
OwnLine(f, i) ==
  /\ f[i] \in Commands
  /\ i = 1 \/ f[i - 1] = NL
  /\ i = Len(f) \/ f[i + 1] = NL

\* Ledger::load: a line that does not parse as one Uuid is skipped.
Loaded(f) == {f[i] : i \in {j \in 1..Len(f) : OwnLine(f, j)}}

Init ==
  /\ faults \in SUBSET {"torn", "power_loss"}
  /\ seen = {} /\ file = << >> /\ durable = 0
  /\ pc = "idle" /\ cur = None
  /\ execs = [c \in Commands |-> 0]
  /\ restarts = 0

Write(token) == file' = Append(file, token)

\* Give up on the current command; poll_once goes on with the next envelope.
Return == pc' = "idle" /\ cur' = None

-----------------------------------------------------------------------------
\* process_command up to the disk: an id in the ledger is dropped and an envelope
\* that does not verify is reported as rejected (neither changes anything); the
\* others enter `seen` before the file is touched.
Receive(c) ==
  /\ pc = "idle"
  /\ c \notin seen
  /\ seen' = seen \cup {c}
  /\ pc' = "append" /\ cur' = c
  /\ UNCHANGED <<file, durable, execs, restarts>>

\* (mutation of AppendId: the file is opened without .append(true))
AppendIdOverwrites ==
  /\ pc = "append"
  /\ \/ file' = <<cur>> /\ durable' = 0 /\ pc' = "newline" /\ cur' = cur
     \/ file' = file /\ durable' = durable /\ Return
  /\ UNCHANGED <<seen, execs, restarts>>

\* Open and write the id, or fail with or without a part of it written. After a
\* failure the command is skipped, and stays in `seen`.
AppendId ==
  /\ pc = "append"
  /\ \/ Write(cur) /\ pc' = "newline" /\ cur' = cur
     \/ file' = file /\ Return
     \/ "torn" \in faults /\ Write(Junk) /\ Return
  /\ UNCHANGED <<seen, durable, execs, restarts>>

\* (mutation of AppendNewline: write!, with no line end)
AppendNoNewline ==
  /\ pc = "newline"
  /\ file' = file /\ pc' = "dispatch" /\ cur' = cur
  /\ UNCHANGED <<seen, durable, execs, restarts>>

AppendNewline ==
  /\ pc = "newline"
  /\ \/ Write(NL) /\ pc' = "dispatch" /\ cur' = cur
     \/ "torn" \in faults /\ file' = file /\ Return
  /\ UNCHANGED <<seen, durable, execs, restarts>>

\* send_to_actuator: connected and handed over (whatever comes back), or not.
Dispatch ==
  /\ pc = "dispatch"
  /\ \/ execs' = [execs EXCEPT ![cur] = @ + 1]
     \/ UNCHANGED execs
  /\ Return
  /\ UNCHANGED <<seen, file, durable, restarts>>

\* The kernel writes its dirty pages back in its own time.
WriteBack ==
  /\ "power_loss" \in faults
  /\ durable # Len(file)
  /\ durable' = Len(file)
  /\ UNCHANGED <<seen, file, pc, cur, execs, restarts>>

\* (mutation of StartOver: the ledger is not loaded)
StartOverForgetful(f) ==
  /\ restarts < MaxRestarts
  /\ restarts' = restarts + 1
  /\ file' = f
  /\ seen' = {}
  /\ Return
  /\ UNCHANGED execs

\* Wherever it was, the agent starts again, with Ledger::load of the file f.
StartOver(f) ==
  /\ restarts < MaxRestarts
  /\ restarts' = restarts + 1
  /\ file' = f
  /\ seen' = Loaded(f)
  /\ Return
  /\ UNCHANGED execs

\* The process ends and is started again. To end between the two writes of an
\* append leaves a torn line.
Restart ==
  /\ pc = "newline" => "torn" \in faults
  /\ StartOver(file)
  /\ UNCHANGED durable

\* The host goes down: at least what had reached the disk is found again.
PowerLoss ==
  /\ "power_loss" \in faults
  /\ \E n \in durable..Len(file) : StartOver(SubSeq(file, 1, n)) /\ durable' = n

Next ==
  /\ \/ \E c \in Commands : Receive(c)
     \/ AppendId \/ AppendNewline \/ Dispatch
     \/ WriteBack \/ Restart \/ PowerLoss
  /\ UNCHANGED faults

Spec == Init /\ [][Next]_vars

-----------------------------------------------------------------------------
\* The ledger's purpose (Record BEFORE dispatch), as far as it holds: if appends are
\* whole and what is written stays, the actuator is never handed a command a second
\* time, whatever is delivered again and wherever the agent stops.
AtMostOnce == faults = {} => \A c \in Commands : execs[c] <= 1

\* The module's promise without that proviso: "a crash mid-execution never re-runs a
\* remediation", on a host that keeps its power.
CrashNeverReruns == "power_loss" \notin faults => \A c \in Commands : execs[c] <= 1

\* A command in hand is still on an own line of the file when it is dispatched,
\* and so is every command that was ever dispatched: a restart finds them all.
RecordedBeforeDispatch ==
  faults = {} =>
    \A c \in Commands :
      (execs[c] > 0 \/ (pc = "dispatch" /\ c = cur)) => c \in seen /\ c \in Loaded(file)

\* A torn append costs only its successor: a dispatched command that a restart
\* would not find has an own entry, glued to the debris left in front of it.
LostOnlyBehindTear ==
  "power_loss" \notin faults =>
    \A c \in Commands :
      execs[c] > 0 /\ c \notin Loaded(file) =>
        \E i \in 2..Len(file) : file[i] = c /\ file[i - 1] # NL

\* The ids whose line, with its line end, has reached the disk.
Settled == {file[i] : i \in {j \in 1..durable : j < durable /\ OwnLine(file, j)}}

\* A line that has reached the disk whole is never forgotten: no later append, torn
\* or not, no restart and no loss of power takes its id out of file or memory.
DurableLineIsKept == [][Settled \subseteq Settled' \cap seen']_vars
=============================================================================
