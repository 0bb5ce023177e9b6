----------------------------- MODULE Enrollment -----------------------------
(***************************************************************************)
(* Enrollment of an agent: ensure_enrolled at the start of the process     *)
(* (ravn-agent enrollment.rs, main.rs), the control plane's /enroll        *)
(* handler with its certificate authority (ravn-server api.rs, ca.rs), and *)
(* the command keyring pinned on the way (ravn-agent remediation.rs).      *)
(*                                                                         *)
(* An attempt is a number: its key pair, and the certificate signed for    *)
(* its CSR, carry it. A credential file is Absent, Torn (created or        *)
(* truncated, not yet written) or the number of the attempt that wrote it. *)
(* A request outlives the agent's 15 s timeout and the agent itself.       *)
(***************************************************************************)
EXTENDS Integers, Sequences

CONSTANT MaxAttempts   \* bound on the key pairs the agent generates

ASSUME EnrollmentAssumption == MaxAttempts \in Nat \ {0}

Attempts == 1..MaxAttempts
Absent == 0
Torn == -1
Refreshed == MaxAttempts + 1   \* a keyring fetched by the poll loop

VARIABLES
  sendsRing,   \* the control plane is new enough to send a keyring
  creds,       \* cred_dir: file name -> its content
  attempt,     \* the number of the last attempt
  enPc,        \* "down", "waiting", "opening", "writing" or "up"
  step,        \* which of the files is next
  pinned,      \* the pull loop of this process has a keyring
  requests,    \* attempt -> where its request is on the control plane
  enrolled,    \* the attempts whose certificate the agents table has recorded
  cut          \* a stop between the CA file and the pinned key has happened

control == <<requests, enrolled>>
enVars == <<sendsRing, creds, attempt, enPc, step, pinned, requests, enrolled, cut>>

\* (mutation of CredentialFiles: the CA certificate is stored first)
CredentialFilesCaFirst == <<"ca", "key", "cert", "pubkey", "ring">>

\* The files in the order ensure_enrolled writes them; the keyring only when the
\* control plane has sent one.
CredentialFiles == <<"key", "cert", "ca", "pubkey", "ring">>

LastStep == IF sendsRing THEN 5 ELSE 4

\* Identity::complete asks only whether the three files exist.
Complete(c) == \A f \in {"key", "cert", "ca"} : c[f] # Absent

\* load_pinned_keyring: the keyring, or else the single key; what is torn does not
\* parse, and counts as nothing.
LoadPinned(c) == c.ring > 0 \/ c.pubkey > 0

EnInit ==
  /\ sendsRing \in BOOLEAN
  /\ creds = [f \in {"key", "cert", "ca", "pubkey", "ring"} |-> Absent]
  /\ attempt = 0
  /\ enPc = "down" /\ step = 1 /\ pinned = FALSE
  /\ requests = [n \in Attempts |-> "none"]
  /\ enrolled = {}
  /\ cut = FALSE

-----------------------------------------------------------------------------
(* The agent *)

\* main goes on after ensure_enrolled, whatever it returned: spawn_remediation.
GoOn(c) == enPc' = "up" /\ pinned' = LoadPinned(c)

\* Credentials present: no request.
StartReuses ==
  /\ enPc = "down" /\ Complete(creds)
  /\ GoOn(creds)
  /\ UNCHANGED <<creds, attempt, step, control, cut>>

\* A new key pair and its CSR.
StartEnrolls ==
  /\ enPc = "down" /\ ~Complete(creds) /\ attempt < MaxAttempts
  /\ attempt' = attempt + 1
  /\ requests' = [requests EXCEPT ![attempt + 1] = "sent"]
  /\ enPc' = "waiting"
  /\ UNCHANGED <<creds, step, pinned, enrolled, cut>>

\* Refused, lost, or not in time (and what an agent comes to that has no endpoint or
\* no token to enroll with).
GiveUp ==
  /\ enPc = "waiting"
  /\ GoOn(creds)
  /\ UNCHANGED <<creds, attempt, step, control, cut>>

ReceiveIdentity ==
  /\ enPc = "waiting" /\ requests[attempt] = "answered"
  /\ enPc' = "opening" /\ step' = 1
  /\ UNCHANGED <<creds, attempt, pinned, control, cut>>

\* Every file is opened with create and truncate, then written.
OpenCredential ==
  /\ enPc = "opening"
  /\ creds' = [creds EXCEPT ![CredentialFiles[step]] = Torn]
  /\ enPc' = "writing"
  /\ UNCHANGED <<attempt, step, pinned, control, cut>>

WriteCredential ==
  /\ enPc = "writing"
  /\ creds' = [creds EXCEPT ![CredentialFiles[step]] = attempt]
  /\ IF step = LastStep
       THEN GoOn(creds') /\ UNCHANGED step
       ELSE enPc' = "opening" /\ step' = step + 1 /\ UNCHANGED pinned
  /\ UNCHANGED <<attempt, control, cut>>

Interrupts == cut' = (cut \/ (creds.ca # Absent /\ creds.pubkey <= 0))

\* An open or a write that fails: the files written so far stay, and the agent goes
\* on as if it were not enrolled.
CredentialFails ==
  /\ enPc \in {"opening", "writing"}
  /\ GoOn(creds) /\ Interrupts
  /\ UNCHANGED <<creds, attempt, step, control>>

EnCrash ==
  /\ enPc # "down"
  /\ enPc' = "down" /\ pinned' = FALSE
  /\ IF enPc \in {"opening", "writing"} THEN Interrupts ELSE UNCHANGED cut
  /\ UNCHANGED <<creds, attempt, step, control>>

\* refresh_keyring, in the loop only: written to a temporary file and renamed.
PersistKeyring ==
  /\ enPc = "up" /\ pinned
  /\ creds' = [creds EXCEPT !.ring = Refreshed]
  /\ UNCHANGED <<attempt, enPc, step, pinned, control, cut>>

-----------------------------------------------------------------------------
(* The control plane: enroll *)

Answer(n, from, to) == requests[n] = from /\ requests' = [requests EXCEPT ![n] = to]

\* No CA configured, a wrong token, a CSR that does not parse, or, once signed, a
\* database that does not record it.
Refuse(n) == (Answer(n, "sent", "refused") \/ Answer(n, "signed", "refused")) /\ UNCHANGED enrolled

\* Ca::sign: for the key of the CSR, with the identity of the request.
SignCsr(n) == Answer(n, "sent", "signed") /\ UNCHANGED enrolled

RecordCertificate(n) == Answer(n, "signed", "answered") /\ enrolled' = enrolled \cup {n}

EnNext ==
  /\ \/ StartReuses \/ StartEnrolls \/ GiveUp \/ ReceiveIdentity
     \/ OpenCredential \/ WriteCredential \/ CredentialFails \/ EnCrash \/ PersistKeyring
     \/ \E n \in Attempts :
          /\ Refuse(n) \/ SignCsr(n) \/ RecordCertificate(n)
          /\ UNCHANGED <<creds, attempt, enPc, step, pinned, cut>>
  /\ UNCHANGED sendsRing

-----------------------------------------------------------------------------
(* Properties *)

\* complete() looks at existence alone, and still never takes up half an identity:
\* whatever was lost, timed out, torn by a crash or left by an earlier attempt, an
\* identity that is reused has a key and a certificate that are whole, belong
\* together, and that the control plane has recorded.
IdentityIsWhole ==
  Complete(creds) =>
    creds.key > 0 /\ creds.key = creds.cert /\ creds.cert \in enrolled

\* An enrolled agent pulls commands, unless a stop fell between the CA file and the
\* pinned key (then it never enrolls again, and has no key); a torn keyring falls
\* back to the single key.
EnrolledCanPull == enPc = "up" /\ Complete(creds) /\ ~cut => pinned

\* Enrollment survives being interrupted anywhere.
EnrollmentHolds == IdentityIsWhole /\ EnrolledCanPull
=============================================================================
