----------------------------- MODULE KeyRotation -----------------------------
(***************************************************************************)
(* Rotation of the command-signing key: the control plane's CommandSigner  *)
(* (ravn-server command.rs), the agent's pinned keyring and its refresh    *)
(* before each poll (ravn-agent remediation.rs), and the actuator, which   *)
(* verifies again against the file the agent pins (ravn-actuator lib.rs).  *)
(*                                                                         *)
(* A key is the number of its rotation; a keyring is the set of its kids,  *)
(* the newest of which is its default (which no envelope needs: each is    *)
(* stamped with its kid). Only the trust in the key is verified here, not  *)
(* the expiry.                                                             *)
(***************************************************************************)
EXTENDS Naturals, FiniteSets

CONSTANTS
  Commands,
  MaxKey    \* bound on the rotations: the last key

ASSUME RotationAssumption == MaxKey \in Nat \ {0}

Keys == 1..MaxKey

VARIABLES
  faults,            \* what may fail here: "fetch", "persist", "reload"
  active, previous,  \* CommandSigner: the signing key, and the keys still published
  signed,            \* signed commands waiting on the control plane
  keyOf,             \* command -> the key it was signed with, 0 before that
  krPc,                \* the agent's loop: "refresh", "poll" or "process"
  ring,              \* the agent's keyring in memory
  disk,              \* command_keyring.json
  krBatch,             \* the envelopes of the current poll
  actuatorRing,      \* the actuator's keyring in memory
  outcome            \* command -> what became of it

server == <<active, previous, signed, keyOf>>
krVars == <<faults, active, previous, signed, keyOf, krPc, ring, disk, krBatch, actuatorRing, outcome>>

\* CommandSigner.keyring_json
Published == previous \cup {active}

\* The agent is enrolled: it has pinned the first key.
KrInit ==
  /\ faults \in SUBSET {"fetch", "persist", "reload"}
  /\ active = 1 /\ previous = {}
  /\ signed = {} /\ krBatch = {}
  /\ keyOf = [c \in Commands |-> 0]
  /\ krPc = "refresh"
  /\ ring = {1} /\ disk = {1} /\ actuatorRing = {1}
  /\ outcome = [c \in Commands |-> "none"]

-----------------------------------------------------------------------------
(* The control plane *)

Sign(c) ==
  /\ keyOf[c] = 0
  /\ keyOf' = [keyOf EXCEPT ![c] = active]
  /\ signed' = signed \cup {c}
  /\ UNCHANGED <<active, previous, krPc, ring, disk, krBatch, actuatorRing, outcome>>

\* (mutation of Rotate: the queue survives the restart, the old key does not)
RotateForgets ==
  /\ active < MaxKey
  /\ active' = active + 1
  /\ previous' = {}
  /\ UNCHANGED <<signed, keyOf, krPc, ring, disk, krBatch, actuatorRing, outcome>>

\* A restart with a new signing key and the old public key in the previous-keys
\* directory. The command queue is in memory and goes with the old process.
Rotate ==
  /\ active < MaxKey
  /\ active' = active + 1
  /\ previous' = Published
  /\ signed' = {}
  /\ UNCHANGED <<keyOf, krPc, ring, disk, krBatch, actuatorRing, outcome>>

\* A restart after some of the previous keys were removed, at any time: nothing in
\* the code waits for an overlap window.
Retire ==
  /\ \E kept \in SUBSET previous : kept # previous /\ previous' = kept
  /\ signed' = {}
  /\ UNCHANGED <<active, keyOf, krPc, ring, disk, krBatch, actuatorRing, outcome>>

-----------------------------------------------------------------------------
(* The agent: refresh_keyring, then poll_once, for ever *)

\* (mutation of Refresh: the fetched ring is never written to disk)
RefreshNeverPersists(persisted) ==
  /\ krPc = "refresh"
  /\ ring' = Published
  /\ disk' = disk
  /\ krPc' = "poll"
  /\ UNCHANGED <<server, krBatch, actuatorRing, outcome>>

\* Fetched. An unchanged trust set is neither persisted nor swapped in; a changed
\* one is written to disk first, and used even if that fails.
Refresh(persisted) ==
  /\ krPc = "refresh"
  /\ ring' = Published
  /\ disk' = IF ring # Published /\ persisted THEN Published ELSE disk
  /\ krPc' = "poll"
  /\ UNCHANGED <<server, krBatch, actuatorRing, outcome>>

RefreshPinned == Refresh(TRUE)
RefreshMemoryOnly == "persist" \in faults /\ ring # Published /\ Refresh(FALSE)

\* Fetch or parse failure: keep the ring and poll all the same.
RefreshFailed ==
  /\ "fetch" \in faults
  /\ krPc = "refresh"
  /\ krPc' = "poll"
  /\ UNCHANGED <<server, ring, disk, krBatch, actuatorRing, outcome>>

Poll ==
  /\ krPc = "poll"
  /\ krBatch' = signed /\ signed' = {}
  /\ krPc' = "process"
  /\ UNCHANGED <<active, previous, keyOf, ring, disk, actuatorRing, outcome>>

\* What serve verifies with: the file, reread for every connection unless that
\* fails, then what it had.
Reloads == {disk} \cup (IF "reload" \in faults THEN {actuatorRing} ELSE {})

\* process_command: verified by the agent, then, on its own, by the actuator. A
\* command that is refused is reported and gone.
Process(c) ==
  /\ krPc = "process" /\ c \in krBatch
  /\ krBatch' = krBatch \ {c}
  /\ \/ /\ keyOf[c] \notin ring
        /\ outcome' = [outcome EXCEPT ![c] = "refused_by_agent"]
        /\ UNCHANGED actuatorRing
     \/ /\ keyOf[c] \in ring
        /\ actuatorRing' \in Reloads
        /\ outcome' = [outcome EXCEPT ![c] =
             IF keyOf[c] \in actuatorRing' THEN "executed" ELSE "refused_by_actuator"]
  /\ UNCHANGED <<server, krPc, ring, disk>>

PollDone ==
  /\ krPc = "process" /\ krBatch = {}
  /\ krPc' = "refresh"
  /\ UNCHANGED <<server, ring, disk, krBatch, actuatorRing, outcome>>

\* load_pinned_keyring; envelopes in hand are lost.
AgentRestart ==
  /\ ring' = disk
  /\ krBatch' = {}
  /\ krPc' = "refresh"
  /\ UNCHANGED <<server, disk, actuatorRing, outcome>>

AgentStep ==
  \/ RefreshPinned \/ RefreshMemoryOnly \/ RefreshFailed
  \/ Poll \/ PollDone
  \/ \E c \in Commands : Process(c)

KrNext ==
  /\ \/ \E c \in Commands : Sign(c)
     \/ Rotate \/ Retire
     \/ AgentStep \/ AgentRestart
  /\ UNCHANGED faults

-----------------------------------------------------------------------------
(* Properties *)

\* Rotation is safe for what is already signed: however often the key is rotated
\* and the old ones retired, no command is refused because its key was withdrawn,
\* only because it is newer than what the verifier has pinned.
OnlyNewKeysRefused ==
  [][\A c \in Commands :
       /\ outcome'[c] # outcome[c] /\ outcome'[c] = "refused_by_agent" =>
            \A k \in ring : k < keyOf[c]
       /\ outcome'[c] # outcome[c] /\ outcome'[c] = "refused_by_actuator" =>
            \A k \in actuatorRing' : k < keyOf[c]]_krVars

\* refresh_keyring: once the operator stops rotating, the published keyring comes to
\* be in memory and in the file, which the actuator reads, unless a write of the
\* file failed: an unchanged ring in memory is not written a second time.
FleetConverges ==
  "persist" \notin faults => <>[](ring = Published /\ disk = Published)
=============================================================================
