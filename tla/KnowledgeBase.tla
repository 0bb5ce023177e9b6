--------------------------- MODULE KnowledgeBase ---------------------------
(***************************************************************************)
(* The remediation knowledge base (ravn-server knowledge.rs): one markdown *)
(* file per slug of a fault signature, updated by load, modify and store   *)
(* (write a temporary file, rename it) from the result handler and from    *)
(* the prepare tasks, which run concurrently and take no lock.             *)
(*                                                                         *)
(* A signature is a sequence of character classes: "a" and "A" are the two *)
(* cases of a letter, "." a character that stays, ":" and "-" ones that do *)
(* not. Files are modelled down to the inode, since two writers of one     *)
(* slug share the temporary file: fs::write truncates what it opens and    *)
(* then writes to the inode it has open, wherever that has been renamed to.*)
(* The text of an entry is whole or cut short; a text cut short is one     *)
(* from_markdown refuses, and a whole one gives back its fields. Times,    *)
(* parameters and bodies are left out.                                     *)
(***************************************************************************)
EXTENDS Naturals, FiniteSets, SequencesExt

CONSTANTS
  Signatures,  \* the fault signatures that occur
  Recorders,   \* the tasks that may record at the same time
  MaxRecords   \* bound: how many records are made

ASSUME KbAssumption == MaxRecords \in Nat /\ Signatures # {}

VARIABLES
  inode,    \* the text of each inode ever made: Cut or an entry
  file,     \* per slug, the inode of <slug>.md, 0 if there is none
  tmp,      \* per slug, the inode of <slug>.md.tmp, 0 if there is none
  rec,      \* per recorder, its record in progress
  records,  \* history: the records started, in order, with their outcome
  crowded   \* history: the slugs two records of which were under way together

kbVars == <<inode, file, tmp, rec, records, crowded>>

Cut == [cut |-> TRUE]
NoEntry == [none |-> TRUE]

\* slug: kept characters in lowercase, every run of others one dash, and no dash at
\* either end.
SlugStep(out, ch) ==
  IF ch \in {"a", ".", "A"} THEN Append(out, IF ch = "A" THEN "a" ELSE ch)
  ELSE IF out # <<>> /\ Last(out) = "-" THEN out
  ELSE Append(out, "-")
TrimDashes(s) ==
  LET kept == {i \in DOMAIN s : s[i] # "-"} IN
  IF kept = {} THEN <<>> ELSE SubSeq(s, Min(kept), Max(kept))
Slug(signature) == TrimDashes(FoldLeft(SlugStep, <<>>, signature))

Slugs == {Slug(s) : s \in Signatures}

\* load, from_markdown: no file and a text cut short are both no entry.
Load(slug) ==
  IF file[slug] = 0 \/ inode[file[slug]] = Cut THEN NoEntry ELSE inode[file[slug]]

NoRecording == [pc |-> "idle"]

KbInit ==
  /\ inode = <<>>
  /\ file = [s \in Slugs |-> 0] /\ tmp = [s \in Slugs |-> 0]
  /\ rec = [r \in Recorders |-> NoRecording]
  /\ records = <<>> /\ crowded = {}

Busy(slug) == \E r \in Recorders : rec[r].pc # "idle" /\ Slug(records[rec[r].n].sig) = slug
SlugOf(r) == Slug(records[rec[r].n].sig)

\* What record_outcome makes of the loaded entry.
WithOutcome(entry, sig, n) ==
  IF entry = NoEntry THEN [sig |-> sig, template |-> "real", outcomes |-> {n}, occurrences |-> 1]
  ELSE [entry EXCEPT !.template = "real", !.outcomes = @ \cup {n}, !.occurrences = @ + 1]

\* (mutation of WithGap: a gap overwrites the template)
WithGapClobbers(entry, sig) ==
  IF entry = NoEntry THEN [sig |-> sig, template |-> "gap", outcomes |-> {}, occurrences |-> 1]
  ELSE [entry EXCEPT !.template = "gap", !.occurrences = @ + 1]

\* What record_gap makes of it: an entry of a template that once matched stays one.
WithGap(entry, sig) ==
  IF entry = NoEntry THEN [sig |-> sig, template |-> "gap", outcomes |-> {}, occurrences |-> 1]
  ELSE [entry EXCEPT !.occurrences = @ + 1]

\* record_outcome or record_gap begins: the entry is loaded and changed in memory.
RecordLoad(r, sig, kind) ==
  LET n == Len(records) + 1 IN
  /\ rec[r].pc = "idle" /\ n <= MaxRecords
  /\ records' = Append(records, [sig |-> sig, kind |-> kind, done |-> FALSE])
  /\ rec' = [rec EXCEPT ![r] =
       [pc |-> "open", n |-> n,
        entry |-> IF kind = "outcome" THEN WithOutcome(Load(Slug(sig)), sig, n)
                  ELSE WithGap(Load(Slug(sig)), sig)]]
  /\ crowded' = IF Busy(Slug(sig)) THEN crowded \cup {Slug(sig)} ELSE crowded
  /\ UNCHANGED <<inode, file, tmp>>

\* (mutation of StoreOpen: written in place, without a temporary file)
StoreOpenInPlace(r) ==
  LET s == SlugOf(r)
      made == file[s] = 0
      node == IF made THEN Len(inode) + 1 ELSE file[s] IN
  /\ rec[r].pc = "open"
  /\ inode' = IF made THEN Append(inode, Cut) ELSE [inode EXCEPT ![node] = Cut]
  /\ file' = [file EXCEPT ![s] = node]
  /\ tmp' = [tmp EXCEPT ![s] = node]
  /\ rec' = [rec EXCEPT ![r] = [pc |-> "write", n |-> @.n, entry |-> @.entry, fd |-> node]]
  /\ UNCHANGED <<records, crowded>>

\* fs::write, its open: the temporary file is made, or the one that is there truncated.
StoreOpen(r) ==
  LET s == SlugOf(r)
      made == tmp[s] = 0
      node == IF made THEN Len(inode) + 1 ELSE tmp[s] IN
  /\ rec[r].pc = "open"
  /\ inode' = IF made THEN Append(inode, Cut) ELSE [inode EXCEPT ![node] = Cut]
  /\ tmp' = [tmp EXCEPT ![s] = node]
  /\ rec' = [rec EXCEPT ![r] = [pc |-> "write", n |-> @.n, entry |-> @.entry, fd |-> node]]
  /\ UNCHANGED <<file, records, crowded>>

\* fs::write, its write, to the inode that was opened.
StoreWrite(r) ==
  /\ rec[r].pc = "write"
  /\ inode' = [inode EXCEPT ![rec[r].fd] = rec[r].entry]
  /\ rec' = [rec EXCEPT ![r].pc = "rename"]
  /\ UNCHANGED <<file, tmp, records, crowded>>

\* The write fails half-way (the disk is full): store returns, the rename never comes.
StoreWriteFails(r) ==
  /\ rec[r].pc = "write"
  /\ rec' = [rec EXCEPT ![r] = NoRecording]
  /\ UNCHANGED <<inode, file, tmp, records, crowded>>

\* fs::rename: an error where another writer has renamed the file already.
StoreRename(r) ==
  LET s == SlugOf(r) IN
  /\ rec[r].pc = "rename"
  /\ IF tmp[s] # 0
     THEN /\ file' = [file EXCEPT ![s] = tmp[s]]
          /\ tmp' = [tmp EXCEPT ![s] = 0]
          /\ records' = [records EXCEPT ![rec[r].n].done = TRUE]
     ELSE UNCHANGED <<file, tmp, records>>
  /\ rec' = [rec EXCEPT ![r] = NoRecording]
  /\ UNCHANGED <<inode, crowded>>

\* The server stops anywhere; files stay as they are.
KbCrash ==
  /\ \E r \in Recorders : rec[r].pc # "idle"
  /\ rec' = [r \in Recorders |-> NoRecording]
  /\ UNCHANGED <<inode, file, tmp, records, crowded>>

KbNext ==
  \/ \E r \in Recorders :
       \/ \E sig \in Signatures, kind \in {"outcome", "gap"} : RecordLoad(r, sig, kind)
       \/ StoreOpen(r) \/ StoreWrite(r) \/ StoreWriteFails(r) \/ StoreRename(r)
  \/ KbCrash

-----------------------------------------------------------------------------
(* Properties *)

Of(slug, kind) == {n \in DOMAIN records : Slug(records[n].sig) = slug /\ records[n].kind = kind}
Done(slug, kind) == {n \in Of(slug, kind) : records[n].done}

\* A crash or a failed write at any point, of any number of records one after the
\* other, never leaves a partial entry behind, as the temporary file and the rename
\* promise; only two records of one slug under way together can (the second one
\* truncates the file the first one is about to rename).
NoPartialEntry ==
  \A s \in Slugs \ crowded : file[s] # 0 => inode[file[s]] # Cut

\* An entry counts each record once and claims no outcome that was not recorded for
\* its file, even when records overlap; and it holds every completed record, and
\* still names the template of an outcome after later gaps, where none overlapped.
HistoryIsHonest ==
  \A s \in Slugs : LET e == Load(s) IN
    /\ e # NoEntry =>
         /\ e.outcomes \subseteq Of(s, "outcome")
         /\ e.occurrences <= Cardinality(Of(s, "outcome")) + Cardinality(Of(s, "gap"))
         /\ e.occurrences >= Cardinality(e.outcomes)
    /\ s \notin crowded =>
         IF e = NoEntry THEN Done(s, "outcome") \cup Done(s, "gap") = {}
         ELSE /\ e.outcomes = Done(s, "outcome")
              /\ e.occurrences = Cardinality(Done(s, "outcome")) + Cardinality(Done(s, "gap"))
              /\ e.template = IF e.outcomes = {} THEN "gap" ELSE "real"
=============================================================================
