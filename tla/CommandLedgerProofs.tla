------------------------- MODULE CommandLedgerProofs -------------------------
(***************************************************************************)
(* What the ledger guarantees for any number of commands and restarts, and *)
(* what remains of it when appends tear or the host loses power; then the  *)
(* pace of the poll loop that feeds it.                                    *)
(***************************************************************************)
EXTENDS CommandLedger, PollLoop, SequenceTheorems, TLAPS

USE LedgerAssumption

-----------------------------------------------------------------------------
(* The file *)

\* Appending changes nothing but the last place.
LEMMA AppendFacts ==
  ASSUME NEW f \in Seq(Token), NEW t \in Token
  PROVE  /\ Append(f, t) \in Seq(Token) /\ Len(Append(f, t)) = Len(f) + 1 /\ Len(f) \in Nat
         /\ Append(f, t)[Len(f) + 1] = t
         /\ \A i \in 1..Len(f) : Append(f, t)[i] = f[i]
OBVIOUS

\* Appending never makes a line readable, other than that of the id appended.
LEMMA AppendLoaded ==
  ASSUME NEW f \in Seq(Token), NEW t \in Token
  PROVE  Loaded(Append(f, t)) \subseteq Loaded(f) \cup ({t} \cap Commands)
<1> DEFINE g == Append(f, t)
<1>1. SUFFICES ASSUME NEW i \in 1..Len(g), OwnLine(g, i)
               PROVE  g[i] \in Loaded(f) \cup ({t} \cap Commands)
  BY DEF Loaded
<1>2. CASE i = Len(f) + 1
  BY <1>1, <1>2, AppendFacts DEF OwnLine
<1>3. CASE i \in 1..Len(f)
  <2>1. g[i] = f[i] /\ OwnLine(f, i)
    BY <1>1, <1>3, AppendFacts DEF OwnLine
  <2>2. QED
    BY <1>3, <2>1 DEF Loaded
<1>4. QED
  BY <1>2, <1>3, AppendFacts

\* What SubSeq leaves of a file that a power loss cuts: a prefix of it.
LEMMA PrefixFacts ==
  ASSUME NEW f \in Seq(Token), NEW n \in 0..Len(f)
  PROVE  /\ SubSeq(f, 1, n) \in Seq(Token) /\ Len(SubSeq(f, 1, n)) = n
         /\ \A i \in 1..n : SubSeq(f, 1, n)[i] = f[i]
OBVIOUS

-----------------------------------------------------------------------------
(* Types *)

\* The state stays well typed, and a handler that is under way has a command.
THEOREM LedgerTypeCorrect == Spec => []TypeOK
<1>1. Init => TypeOK
  BY DEF Init, TypeOK, Token
<1>2. TypeOK /\ [Next]_vars => TypeOK'
  <2> SUFFICES ASSUME TypeOK, [Next]_vars PROVE TypeOK'
    OBVIOUS
  <2>1. file \in Seq(Token) /\ Len(file) \in Nat /\ durable \in 0..Len(file)
    BY DEF TypeOK
  <2>0. faults' = faults
    BY DEF Next, vars
  <2>2. ASSUME NEW c \in Commands, Receive(c) PROVE TypeOK'
    BY <2>0, <2>2 DEF TypeOK, Receive
  <2>3. ASSUME NEW t \in Token, Write(t) PROVE file' \in Seq(Token) /\ 0..Len(file) \subseteq 0..Len(file')
    BY <2>1, <2>3, AppendFacts DEF Write
  <2>4. CASE AppendId
    <3>1. cur \in Token /\ Junk \in Token
      BY <2>4 DEF TypeOK, AppendId, Token
    <3>2. file' \in Seq(Token) /\ 0..Len(file) \subseteq 0..Len(file')
      BY <2>1, <2>3, <2>4, <3>1 DEF AppendId
    <3>3. QED
      BY <2>0, <2>4, <3>2 DEF TypeOK, AppendId, Return
  <2>5. CASE AppendNewline
    <3>1. NL \in Token
      BY DEF Token
    <3>2. file' \in Seq(Token) /\ 0..Len(file) \subseteq 0..Len(file')
      BY <2>1, <2>3, <2>5, <3>1 DEF AppendNewline
    <3>3. QED
      BY <2>0, <2>5, <3>2 DEF TypeOK, AppendNewline, Return
  <2>6. CASE Dispatch
    BY <2>0, <2>6 DEF TypeOK, Dispatch, Return
  <2>7. CASE WriteBack
    BY <2>0, <2>7, <2>1 DEF TypeOK, WriteBack
  <2>8. ASSUME NEW f \in Seq(Token), StartOver(f), durable' \in 0..Len(f) PROVE TypeOK'
    <3>1. Loaded(f) \subseteq Commands
      BY DEF Loaded, OwnLine
    <3>2. QED
      BY <2>0, <2>8, <3>1 DEF TypeOK, StartOver, Return
  <2>9. CASE Restart
    BY <2>1, <2>8, <2>9 DEF Restart
  <2>10. CASE PowerLoss
    <3>1. PICK n \in durable..Len(file) : StartOver(SubSeq(file, 1, n)) /\ durable' = n
      BY <2>10 DEF PowerLoss
    <3>2. n \in 0..Len(file)
      BY <2>1
    <3>3. n \in 0..n
      BY <3>2
    <3>4. QED
      BY <2>1, <2>8, <3>1, <3>2, <3>3, PrefixFacts
  <2>11. CASE UNCHANGED vars
    BY <2>11 DEF TypeOK, vars
  <2>12. QED
    BY <2>2, <2>4, <2>5, <2>6, <2>7, <2>9, <2>10, <2>11 DEF Next
<1>3. QED
  BY <1>1, <1>2, PTL DEF Spec

-----------------------------------------------------------------------------
(* Durable lines *)

\* Memory knows every id a load of the file would find, and the one in hand.
MemoryOK == Loaded(file) \subseteq seen /\ (pc # "idle" => cur \in seen)

\* Every step of the agent and of the disk keeps MemoryOK: `seen` is filled before
\* the file.
LEMMA MemoryStep == TypeOK /\ MemoryOK /\ [Next]_vars => MemoryOK'
<1> SUFFICES ASSUME TypeOK, MemoryOK, [Next]_vars PROVE MemoryOK'
  OBVIOUS
<1>1. ASSUME NEW t \in Token, t \in seen \/ t \notin Commands, Write(t)
      PROVE  Loaded(file') \subseteq seen
  BY <1>1, AppendLoaded DEF Write, TypeOK, MemoryOK
<1>2. ASSUME NEW c \in Commands, Receive(c) PROVE MemoryOK'
  BY <1>2 DEF MemoryOK, Receive
<1>3. CASE AppendId
  <2>1. cur \in Token /\ cur \in seen /\ Junk \in Token
    BY <1>3 DEF TypeOK, MemoryOK, AppendId, Token
  <2>2. Loaded(file') \subseteq seen
    <3>1. Write(cur) \/ Write(Junk) \/ file' = file
      BY <1>3 DEF AppendId
    <3>2. CASE Write(cur)
      BY <1>1, <2>1, <3>2
    <3>3. CASE Write(Junk)
      BY <1>1, <2>1, <3>3
    <3>4. CASE file' = file
      BY <3>4 DEF MemoryOK
    <3>5. QED
      BY <3>1, <3>2, <3>3, <3>4
  <2>3. seen' = seen /\ (pc' = "idle" \/ cur' = cur)
    BY <1>3 DEF AppendId, Return
  <2>4. QED
    BY <2>1, <2>2, <2>3 DEF MemoryOK
<1>4. CASE AppendNewline
  <2>1. NL \in Token /\ cur \in seen
    BY <1>4 DEF Token, MemoryOK, AppendNewline
  <2>2. Loaded(file') \subseteq seen
    BY <1>1, <1>4, <2>1 DEF AppendNewline, MemoryOK
  <2>3. seen' = seen /\ (pc' = "idle" \/ cur' = cur)
    BY <1>4 DEF AppendNewline, Return
  <2>4. QED
    BY <2>1, <2>2, <2>3 DEF MemoryOK
<1>5. CASE Dispatch \/ WriteBack \/ UNCHANGED vars
  BY <1>5 DEF Dispatch, WriteBack, vars, Return, MemoryOK
<1>6. CASE Restart \/ PowerLoss
  BY <1>6 DEF Restart, PowerLoss, StartOver, Return, MemoryOK
<1>7. QED
  BY <1>2, <1>3, <1>4, <1>5, <1>6 DEF Next

\* Neither an append nor what survives of the file touches a line that is on disk.
LEMMA SettledKept ==
  ASSUME TypeOK, durable' \in Nat, durable <= durable', file' \in Seq(Token), durable' <= Len(file'),
         \A i \in 1..durable : file'[i] = file[i]
  PROVE  Settled \subseteq Settled' /\ Settled' \subseteq Loaded(file')
<1>1. durable \in Nat /\ durable <= Len(file) /\ Len(file') \in Nat /\ Len(file) \in Nat
  BY DEF TypeOK
<1>2. ASSUME NEW j \in 1..durable, j < durable, OwnLine(file, j)
      PROVE  j \in 1..durable' /\ j < durable' /\ OwnLine(file', j) /\ file'[j] = file[j]
  BY <1>1, <1>2 DEF OwnLine
<1>3. Settled \subseteq Settled'
  BY <1>2 DEF Settled
<1>4. Settled' \subseteq Loaded(file')
  <2>1. 1..durable' \subseteq 1..Len(file')
    BY <1>1
  <2>2. QED
    BY <2>1 DEF Settled, Loaded
<1>5. QED
  BY <1>3, <1>4

\* A write appends, so what has reached the disk stays where it is.
LEMMA FileGrows ==
  ASSUME TypeOK, NEW t \in Token, Write(t) \/ file' = file, durable' = durable
  PROVE  /\ file' \in Seq(Token) /\ durable' \in Nat /\ durable <= durable' /\ durable' <= Len(file')
         /\ \A i \in 1..durable : file'[i] = file[i]
<1>1. file \in Seq(Token) /\ Len(file) \in Nat /\ durable \in 0..Len(file)
  BY DEF TypeOK
<1>2. CASE file' = file
  BY <1>1, <1>2
<1>3. CASE Write(t)
  BY <1>1, <1>3, AppendFacts DEF Write
<1>4. QED
  BY <1>2, <1>3

\* Ledger: with any mixture of failed, torn and unsynced appends, restarts and
\* power losses, a line that has reached the disk whole keeps its command known.
THEOREM DurableLinesAreKept == Spec => DurableLineIsKept
<1>1. Init => MemoryOK
  BY DEF Init, MemoryOK, Loaded
<1>2. TypeOK /\ MemoryOK' /\ [Next]_vars => [Settled \subseteq Settled' \cap seen']_vars
  <2> SUFFICES ASSUME TypeOK, MemoryOK', Next PROVE Settled \subseteq Settled' \cap seen'
    OBVIOUS
  <2>1. SUFFICES /\ file' \in Seq(Token) /\ durable' \in Nat /\ durable <= durable'
                 /\ durable' <= Len(file') /\ \A i \in 1..durable : file'[i] = file[i]
    BY SettledKept DEF MemoryOK
  <2>2. file \in Seq(Token) /\ Len(file) \in Nat /\ durable \in 0..Len(file)
    BY DEF TypeOK
  <2>3. CASE \E c \in Commands : Receive(c)
    BY <2>2, <2>3 DEF Receive
  <2>4. CASE AppendId
    <3>1. cur \in Token /\ Junk \in Token /\ durable' = durable
      BY <2>4 DEF TypeOK, AppendId, Token
    <3>2. Write(cur) \/ Write(Junk) \/ file' = file
      BY <2>4 DEF AppendId
    <3>3. QED
      BY <3>1, <3>2, FileGrows
  <2>5. CASE AppendNewline
    <3>1. NL \in Token /\ durable' = durable /\ (Write(NL) \/ file' = file)
      BY <2>5 DEF AppendNewline, Token
    <3>2. QED
      BY <3>1, FileGrows
  <2>6. CASE Dispatch \/ Restart
    BY <2>2, <2>6 DEF Dispatch, Restart, StartOver
  <2>7. CASE WriteBack
    BY <2>2, <2>7 DEF WriteBack
  <2>8. CASE PowerLoss
    <3>1. PICK n \in durable..Len(file) : file' = SubSeq(file, 1, n) /\ durable' = n
      BY <2>8 DEF PowerLoss, StartOver
    <3>2. n \in 0..Len(file) /\ n \in Nat /\ durable <= n
      BY <2>2
    <3>3. QED
      BY <2>2, <3>1, <3>2, PrefixFacts
  <2>9. QED
    BY <2>3, <2>4, <2>5, <2>6, <2>7, <2>8 DEF Next
<1>3. QED
  BY <1>1, <1>2, MemoryStep, LedgerTypeCorrect, PTL DEF Spec, DurableLineIsKept

-----------------------------------------------------------------------------
(* Torn appends *)

\* A command that was dispatched, or is about to be, has an entry that its own
\* line end follows; between the two writes the entry is the last thing written.
Terminated(c) == \E i \in 1..Len(file) : i < Len(file) /\ file[i] = c /\ file[i + 1] = NL

EntryOK ==
  /\ \A c \in Commands : execs[c] > 0 \/ (pc = "dispatch" /\ c = cur) => Terminated(c)
  /\ pc = "newline" => Len(file) > 0 /\ file[Len(file)] = cur

\* An append leaves an entry with its line end where it is.
LEMMA TerminatedStays ==
  ASSUME TypeOK, NEW t \in Token, Write(t) \/ file' = file, NEW c \in Commands, Terminated(c)
  PROVE  Terminated(c)'
<1>1. file \in Seq(Token) /\ Len(file) \in Nat
  BY DEF TypeOK
<1>2. CASE file' = file
  BY <1>2 DEF Terminated
<1>3. CASE Write(t)
  <2>1. PICK i \in 1..Len(file) : i < Len(file) /\ file[i] = c /\ file[i + 1] = NL
    BY DEF Terminated
  <2>2. /\ i \in 1..Len(file') /\ i < Len(file') /\ file'[i] = file[i] /\ file'[i + 1] = file[i + 1]
    BY <1>1, <1>3, <2>1, AppendFacts DEF Write
  <2>3. QED
    BY <2>1, <2>2 DEF Terminated
<1>4. QED
  BY <1>2, <1>3

\* Without power loss, every step keeps the entries of what was dispatched.
LEMMA EntryStep ==
  ASSUME TypeOK, EntryOK, [Next]_vars, "power_loss" \notin faults
  PROVE  EntryOK'
<1>1. file \in Seq(Token) /\ Len(file) \in Nat /\ execs \in [Commands -> Nat]
  BY DEF TypeOK
<1>2. ASSUME NEW c \in Commands, Receive(c) PROVE EntryOK'
  BY <1>2 DEF Receive, EntryOK, Terminated
<1>3. CASE AppendId
  <2>1. cur \in Commands /\ cur \in Token /\ Junk \in Token
    BY <1>3 DEF TypeOK, AppendId, Token
  <2>2. /\ Write(cur) \/ Write(Junk) \/ file' = file
        /\ execs' = execs /\ pc' # "dispatch"
        /\ pc' = "newline" => Write(cur) /\ cur' = cur
    BY <1>3 DEF AppendId, Return
  <2>3. pc' = "newline" => Len(file') > 0 /\ file'[Len(file')] = cur'
    BY <1>1, <2>1, <2>2, AppendFacts DEF Write
  <2>4. \A c \in Commands : Terminated(c) => Terminated(c)'
    BY <2>1, <2>2, TerminatedStays
  <2>5. QED
    BY <2>2, <2>3, <2>4 DEF EntryOK
<1>4. CASE AppendNewline
  <2>1. cur \in Commands /\ NL \in Token /\ Len(file) > 0 /\ file[Len(file)] = cur
    BY <1>4 DEF TypeOK, AppendNewline, Token, EntryOK
  <2>2. /\ execs' = execs /\ pc' # "newline"
        /\ Write(NL) \/ file' = file
        /\ pc' = "dispatch" => Write(NL) /\ cur' = cur
    BY <1>4 DEF AppendNewline, Return
  <2>3. Write(NL) => Terminated(cur)'
    <3>1. SUFFICES ASSUME Write(NL)
                   PROVE  \E i \in 1..Len(file') : i < Len(file') /\ file'[i] = cur /\ file'[i + 1] = NL
      <4>1. cur' = cur \/ pc' = "idle"
        BY <1>4 DEF AppendNewline, Return
      <4>2. Write(NL) => cur' = cur
        BY <1>1, <1>4, AppendFacts, <2>1 DEF AppendNewline, Write
      <4>3. QED
        BY <4>2 DEF Terminated
    <3>2. /\ Len(file) \in 1..Len(file') /\ Len(file) < Len(file')
          /\ file'[Len(file)] = cur /\ file'[Len(file) + 1] = NL
      BY <1>1, <2>1, <3>1, AppendFacts DEF Write
    <3>3. QED
      BY <3>2
  <2>4. \A c \in Commands : Terminated(c) => Terminated(c)'
    BY <2>1, <2>2, TerminatedStays
  <2>5. QED
    BY <2>2, <2>3, <2>4 DEF EntryOK
<1>5. CASE Dispatch
  <2>1. cur \in Commands /\ pc = "dispatch" /\ pc' = "idle" /\ file' = file
    BY <1>5 DEF TypeOK, Dispatch, Return
  <2>2. \A c \in Commands : execs'[c] > 0 => execs[c] > 0 \/ c = cur
    BY <1>1, <1>5, <2>1 DEF Dispatch
  <2>3. \A c \in Commands : Terminated(c) => Terminated(c)'
    BY <2>1 DEF Terminated
  <2>4. QED
    BY <2>1, <2>2, <2>3 DEF EntryOK
<1>6. CASE Restart
  BY <1>6 DEF Restart, StartOver, Return, EntryOK, Terminated
<1>7. CASE UNCHANGED vars
  BY <1>7 DEF vars, EntryOK, Terminated
<1>8. QED
  BY <1>2, <1>3, <1>4, <1>5, <1>6, <1>7 DEF Next, WriteBack, PowerLoss

\* Ledger::record and Ledger::load: as long as no power loss cuts the file, the
\* only commands a restart forgets are those glued to the debris of a torn append.
THEOREM OnlyTearsForget == Spec => []LostOnlyBehindTear
<1> DEFINE Inv == "power_loss" \notin faults => EntryOK
<1>1. Init => Inv
  BY DEF Init, EntryOK
<1>2. TypeOK /\ Inv /\ [Next]_vars => Inv'
  BY EntryStep DEF Next, vars
<1>3. TypeOK /\ Inv => LostOnlyBehindTear
  <2> SUFFICES ASSUME TypeOK, EntryOK, NEW c \in Commands, execs[c] > 0, c \notin Loaded(file)
               PROVE  \E i \in 2..Len(file) : file[i] = c /\ file[i - 1] # NL
    BY DEF LostOnlyBehindTear
  <2>1. PICK i \in 1..Len(file) : i < Len(file) /\ file[i] = c /\ file[i + 1] = NL
    BY DEF EntryOK, Terminated
  <2>2. ~ OwnLine(file, i)
    BY <2>1 DEF Loaded
  <2>3. QED
    BY <2>1, <2>2 DEF OwnLine, TypeOK
<1>4. QED
  <2> HIDE DEF Inv
  <2> QED
    BY <1>1, <1>2, <1>3, LedgerTypeCorrect, PTL DEF Spec

-----------------------------------------------------------------------------
(* Whole appends *)

\* Every line is one id: nothing but ids and line ends, no two ids in a row, and
\* no id at the end except between the two writes of an append.
LinesOK ==
  /\ \A i \in 1..Len(file) : file[i] \in Commands => i = 1 \/ file[i - 1] = NL
  /\ \A i \in 1..Len(file) : i < Len(file) /\ file[i] \in Commands => file[i + 1] = NL
  /\ \A i \in 1..Len(file) : file[i] # Junk
  /\ pc # "newline" /\ Len(file) > 0 => file[Len(file)] = NL

\* What is being recorded has not run, and what is recorded has run at most once.
OnceOK ==
  /\ \A c \in Commands : execs[c] > 0 => c \in seen
  /\ pc # "idle" => cur \in seen /\ execs[cur] = 0
  /\ \A c \in Commands : execs[c] <= 1

\* In a file of whole lines, an id with its line end is found by Ledger::load.
LEMMA OwnLinesLoaded ==
  ASSUME TypeOK, LinesOK, NEW c \in Commands, Terminated(c)
  PROVE  c \in Loaded(file)
<1>1. PICK i \in 1..Len(file) : i < Len(file) /\ file[i] = c /\ file[i + 1] = NL
  BY DEF Terminated
<1>2. OwnLine(file, i)
  BY <1>1 DEF LinesOK, OwnLine
<1>3. QED
  BY <1>1, <1>2 DEF Loaded

\* Without file faults, every step leaves a file of whole lines.
LEMMA LinesStep ==
  ASSUME TypeOK, EntryOK, LinesOK, [Next]_vars, faults = {}
  PROVE  LinesOK'
<1>1. file \in Seq(Token) /\ Len(file) \in Nat
  BY DEF TypeOK
<1>2. CASE AppendId
  <2>1. cur \in Commands /\ cur \in Token /\ pc # "newline"
    BY <1>2 DEF TypeOK, AppendId, Token
  <2>2. \/ file' = Append(file, cur) /\ pc' = "newline"
        \/ file' = file /\ pc' = "idle"
    <3>1. "torn" \notin faults
      OBVIOUS
    <3>2. QED
      BY <1>2, <3>1, Zenon DEF AppendId, Write, Return
  <2>3. CASE file' = file /\ pc' = "idle"
    BY <2>1, <2>3 DEF LinesOK
  <2>4. CASE file' = Append(file, cur) /\ pc' = "newline"
    <3>1. /\ Len(file') = Len(file) + 1 /\ file'[Len(file) + 1] = cur
          /\ \A i \in 1..Len(file) : file'[i] = file[i]
      BY <1>1, <2>1, <2>4, AppendFacts
    <3>2. QED
      BY <1>1, <2>1, <2>4, <3>1 DEF LinesOK
  <2>5. QED
    BY <2>2, <2>3, <2>4
<1>3. CASE AppendNewline
  <2>1. NL \in Token /\ file' = Append(file, NL)
    BY <1>3 DEF AppendNewline, Write, Token
  <2>2. /\ Len(file') = Len(file) + 1 /\ file'[Len(file) + 1] = NL
        /\ \A i \in 1..Len(file) : file'[i] = file[i]
    BY <1>1, <2>1, AppendFacts
  <2>3. QED
    BY <1>1, <2>2 DEF LinesOK
<1>4. CASE Restart
  BY <1>4 DEF Restart, StartOver, Return, LinesOK
<1>5. CASE Dispatch \/ (\E c \in Commands : Receive(c)) \/ UNCHANGED vars
  BY <1>5 DEF Dispatch, Receive, vars, Return, LinesOK
<1>6. QED
  BY <1>2, <1>3, <1>4, <1>5 DEF Next, WriteBack, PowerLoss

\* Without file faults, every step keeps what makes the dispatch at most once.
LEMMA OnceStep ==
  ASSUME TypeOK, EntryOK, LinesOK, OnceOK, [Next]_vars, faults = {}
  PROVE  OnceOK'
<1>1. execs \in [Commands -> Nat]
  BY DEF TypeOK
<1>2. ASSUME NEW c \in Commands, Receive(c) PROVE OnceOK'
  <2>1. execs[c] = 0
    BY <1>1, <1>2 DEF OnceOK, Receive
  <2>2. QED
    BY <1>2, <2>1 DEF OnceOK, Receive
<1>3. CASE AppendId \/ AppendNewline
  <2>1. seen' = seen /\ execs' = execs /\ (pc' = "idle" \/ cur' = cur) /\ pc # "idle"
    BY <1>3 DEF AppendId, AppendNewline, Return
  <2>2. QED
    BY <2>1 DEF OnceOK
<1>4. CASE Dispatch
  <2>1. cur \in Commands /\ cur \in seen /\ execs[cur] = 0 /\ seen' = seen /\ pc' = "idle"
    BY <1>4 DEF TypeOK, OnceOK, Dispatch, Return
  <2>2. \A c \in Commands : execs'[c] = execs[c] \/ (c = cur /\ execs'[c] = 1)
    BY <1>1, <1>4, <2>1 DEF Dispatch
  <2>3. QED
    BY <2>1, <2>2 DEF OnceOK
<1>5. CASE Restart
  <2>1. \A c \in Commands : execs[c] > 0 => c \in Loaded(file)
    BY OwnLinesLoaded DEF EntryOK
  <2>2. QED
    BY <1>5, <2>1 DEF Restart, StartOver, Return, OnceOK
<1>6. CASE UNCHANGED vars
  BY <1>6 DEF vars, OnceOK
<1>7. QED
  BY <1>2, <1>3, <1>4, <1>5, <1>6 DEF Next, WriteBack, PowerLoss

\* process_command and Ledger: if appends are whole and nothing written is lost,
\* no command is handed to the actuator twice, however often it is delivered and
\* wherever the agent stops; and each is on its own line before it is dispatched.
THEOREM LedgerAtMostOnce == Spec => [](AtMostOnce /\ RecordedBeforeDispatch)
<1> DEFINE Inv == faults = {} => EntryOK /\ LinesOK /\ OnceOK
<1>1. Init => Inv
  BY DEF Init, EntryOK, LinesOK, OnceOK
<1>2. TypeOK /\ Inv /\ [Next]_vars => Inv'
  BY EntryStep, LinesStep, OnceStep DEF Next, vars
<1>3. TypeOK /\ Inv => AtMostOnce /\ RecordedBeforeDispatch
  BY OwnLinesLoaded DEF EntryOK, OnceOK, AtMostOnce, RecordedBeforeDispatch
<1>4. QED
  <2> HIDE DEF Inv
  <2> QED
    BY <1>1, <1>2, <1>3, LedgerTypeCorrect, PTL DEF Spec

-----------------------------------------------------------------------------
(* PollLoop *)

PlSpec == PlInit /\ [][PlNext]_plVars

(***************************************************************************)
(* The inductive invariant. A short sleep follows a failed poll, and the   *)
(* failures since the last long sleep are counted by `errors`: as long as  *)
(* the circuit is closed there is a sleep of `base` just before them, and  *)
(* it is still among the last Threshold.                                   *)
(***************************************************************************)
PlTypeOK ==
  /\ base \in Nat \ {0} /\ errors \in 0..MaxErrors
  /\ plPc \in {"sleeping", "refreshing", "asking", "dispatching", "reporting"}
  /\ todo \in Nat /\ (plPc \in {"dispatching", "reporting"} => todo > 0)
  /\ gaps \in Seq(Nat) /\ Len(gaps) <= Threshold

BackoffOK ==
  /\ backoff \in Nat \ {0} /\ (backoff <= base \/ backoff <= MaxBackoff)
  /\ errors = 0 => backoff = base

\* No sleep is empty, nor longer than the longest pause.
GapsOK == \A i \in DOMAIN gaps : gaps[i] > 0 /\ (gaps[i] <= base \/ gaps[i] <= MaxBackoff \/ gaps[i] <= OpenSecs)

Long(d) == d >= base \/ d >= OpenSecs

\* The sleep before the last n ones was long.
LongBefore(n) == Len(gaps) > n /\ gaps[Len(gaps) - n] >= base

RestOK ==
  /\ plPc = "sleeping" /\ errors \in 1..(Threshold - 1) => LongBefore(errors - 1)
  /\ plPc # "sleeping" /\ errors < Threshold => LongBefore(errors)
  /\ gaps # <<>> => \E i \in DOMAIN gaps : Long(gaps[i])

PlInv == PlTypeOK /\ BackoffOK /\ GapsOK /\ RestOK

\* Max and Min of two numbers.
LEMMA MaxOfTwo ==
  ASSUME NEW a \in Nat, NEW b \in Nat PROVE Max({a, b}) = IF a >= b THEN a ELSE b
<1> DEFINE m == IF a >= b THEN a ELSE b
<1>1. m \in {a, b} /\ \A y \in {a, b} : m >= y
  OBVIOUS
<1>2. \A x \in {a, b} : (\A y \in {a, b} : x >= y) => x = m
  OBVIOUS
<1> QED BY <1>1, <1>2 DEF Max

LEMMA MinOfTwo ==
  ASSUME NEW a \in Int, NEW b \in Int PROVE Min({a, b}) = IF a <= b THEN a ELSE b
<1> DEFINE m == IF a <= b THEN a ELSE b
<1>1. m \in {a, b} /\ \A y \in {a, b} : m =< y
  OBVIOUS
<1>2. \A x \in {a, b} : (\A y \in {a, b} : x =< y) => x = m
  OBVIOUS
<1> QED BY <1>1, <1>2 DEF Min

LEMMA MaxOfThree ==
  ASSUME NEW a \in Nat, NEW b \in Nat, NEW c \in Nat
  PROVE  LET m == Max({a, b, c}) IN m \in Nat /\ m >= a /\ m >= b /\ m >= c
<1> DEFINE m == IF a >= b THEN (IF a >= c THEN a ELSE c) ELSE (IF b >= c THEN b ELSE c)
<1>1. m \in {a, b, c} /\ \A y \in {a, b, c} : m >= y
  OBVIOUS
<1>2. \A x \in {a, b, c} : (\A y \in {a, b, c} : x >= y) => x = m
  OBVIOUS
<1>3. Max({a, b, c}) = m
  BY <1>1, <1>2 DEF Max
<1> QED BY <1>3

LEMMA PollConstants ==
  /\ Intervals \subseteq Nat /\ {MinPoll, MaxBackoff, Threshold, OpenSecs} \subseteq Nat \ {0}
  /\ ExpCap \in Nat /\ MaxBatch \in Nat /\ MaxErrors \in Nat /\ MaxErrors > Threshold
  /\ 2 ^ Width \in Nat \ {0}
BY PollAssumption

\* The delay drawn from is at most MAX_BACKOFF_SECS.
LEMMA RawDelayBound ==
  ASSUME base \in Nat, NEW e \in Nat \ {0} PROVE RawDelay(e) \in Int /\ RawDelay(e) <= MaxBackoff
<1> DEFINE x == IF e - 1 < ExpCap THEN e - 1 ELSE ExpCap
           w == (2 ^ x) % (2 ^ Width)
<1>1. x \in Nat
  BY PollConstants
<1>2. 2 ^ x \in Int
  BY <1>1
<1>3. w \in Int
  BY <1>2, PollConstants
<1>4. RawDelay(e) = Min({base * w, MaxBackoff})
  BY DEF RawDelay
<1> HIDE DEF x, w
<1>5. base * w \in Int /\ MaxBackoff \in Int
  BY <1>3, PollConstants
<1> QED BY <1>4, <1>5, MinOfTwo

LEMMA PlInitInv == PlInit => PlInv
<1> SUFFICES ASSUME PlInit PROVE PlInv
  OBVIOUS
<1>1. PICK requested \in Intervals : base = Max({requested, MinPoll})
  BY DEF PlInit
<1>2. base \in Nat \ {0}
  BY <1>1, PollConstants, MaxOfTwo
<1>3. PlTypeOK
  BY <1>2, PollConstants, EmptySeq DEF PlInit, PlTypeOK
<1>4. BackoffOK /\ GapsOK /\ RestOK
  BY <1>2, PollConstants DEF PlInit, BackoffOK, GapsOK, RestOK
<1> QED BY <1>3, <1>4 DEF PlInv

\* A sleep moves the earlier ones back by one place, and drops the first of Threshold.
LEMMA SleptEffect ==
  ASSUME PlTypeOK, NEW d \in Nat, Slept(d)
  PROVE  /\ gaps' \in Seq(Nat) /\ Len(gaps') \in 1..Threshold /\ gaps'[Len(gaps')] = d
         /\ Len(gaps') = (IF Len(gaps) < Threshold THEN Len(gaps) + 1 ELSE Threshold)
         /\ \A i \in DOMAIN gaps' : gaps'[i] = d \/ \E j \in DOMAIN gaps : gaps'[i] = gaps[j]
         /\ \A n \in Nat : n < Len(gaps) /\ n + 1 < Threshold =>
              n + 1 < Len(gaps') /\ gaps'[Len(gaps') - (n + 1)] = gaps[Len(gaps) - n]
<1>0. gaps \in Seq(Nat) /\ Len(gaps) \in Nat /\ Len(gaps) <= Threshold /\ Threshold \in Nat \ {0}
      /\ DOMAIN gaps = 1..Len(gaps)
  BY PollConstants, LenProperties DEF PlTypeOK
<1>1. CASE Len(gaps) < Threshold
  <2>1. gaps' = Append(gaps, d)
    BY <1>1 DEF Slept
  <2>2. /\ gaps' \in Seq(Nat) /\ Len(gaps') = Len(gaps) + 1 /\ gaps'[Len(gaps) + 1] = d
        /\ \A i \in 1..Len(gaps) : gaps'[i] = gaps[i]
    BY <1>0, <2>1, AppendProperties
  <2>3. DOMAIN gaps' = 1..(Len(gaps) + 1)
    BY <2>2, LenProperties
  <2>4. ASSUME NEW n \in Nat, n < Len(gaps), n + 1 < Threshold
        PROVE  n + 1 < Len(gaps') /\ gaps'[Len(gaps') - (n + 1)] = gaps[Len(gaps) - n]
    <3>1. Len(gaps) - n \in 1..Len(gaps) /\ Len(gaps') - (n + 1) = Len(gaps) - n
      BY <1>0, <2>2, <2>4
    <3>2. gaps'[Len(gaps) - n] = gaps[Len(gaps) - n]
      BY <2>2, <3>1
    <3>3. n + 1 < Len(gaps')
      BY <1>0, <2>2, <2>4
    <3> QED BY <3>1, <3>2, <3>3
  <2>5. Len(gaps') \in 1..Threshold /\ gaps'[Len(gaps')] = d
    <3>1. Len(gaps) + 1 \in 1..Threshold
      BY <1>0, <1>1
    <3> QED BY <2>2, <3>1
  <2>6. ASSUME NEW i \in DOMAIN gaps' PROVE gaps'[i] = d \/ \E j \in DOMAIN gaps : gaps'[i] = gaps[j]
    <3>1. i = Len(gaps) + 1 \/ i \in 1..Len(gaps)
      BY <1>0, <2>3
    <3> QED BY <1>0, <2>2, <3>1
  <2> QED BY <1>1, <2>2, <2>4, <2>5, <2>6
<1>2. CASE ~(Len(gaps) < Threshold)
  <2>0. Len(gaps) = Threshold /\ gaps # <<>>
    <3>0. Len(gaps) \in Nat /\ Len(gaps) <= Threshold /\ Threshold \in Nat /\ Threshold # 0
      BY <1>0
    <3>1. Len(gaps) = Threshold /\ Len(gaps) # 0
      BY <3>0, <1>2
    <3> QED BY <3>1
  <2>1. PICK t : t = Tail(gaps)
    OBVIOUS
  <2>2. /\ t \in Seq(Nat) /\ Len(t) = Threshold - 1
        /\ \A i \in 1..(Threshold - 1) : t[i] = gaps[i + 1]
    BY <1>0, <2>0, <2>1, HeadTailProperties
  <2>3. gaps' = Append(t, d)
    BY <1>2, <2>1 DEF Slept
  <2>4. /\ gaps' \in Seq(Nat) /\ Len(gaps') = Threshold /\ gaps'[Threshold] = d
        /\ \A i \in 1..(Threshold - 1) : gaps'[i] = gaps[i + 1]
    <3>1. Len(t) + 1 = Threshold
      BY <1>0, <2>2
    <3> QED BY <2>2, <2>3, <3>1, AppendProperties
  <2>5. DOMAIN gaps' = 1..Threshold
    BY <2>4, LenProperties
  <2>6. ASSUME NEW n \in Nat, n < Len(gaps), n + 1 < Threshold
        PROVE  n + 1 < Len(gaps') /\ gaps'[Len(gaps') - (n + 1)] = gaps[Len(gaps) - n]
    <3>1. Threshold - (n + 1) \in 1..(Threshold - 1) /\ Threshold - (n + 1) + 1 = Threshold - n
      BY <1>0, <2>6
    <3> QED BY <2>0, <2>4, <2>6, <3>1
  <2>7. \A i \in DOMAIN gaps' : gaps'[i] = d \/ \E j \in DOMAIN gaps : gaps'[i] = gaps[j]
    <3> SUFFICES ASSUME NEW i \in 1..Threshold, i # Threshold
                 PROVE  \E j \in DOMAIN gaps : gaps'[i] = gaps[j]
      BY <2>4, <2>5
    <3>1. i \in 1..(Threshold - 1) /\ i + 1 \in DOMAIN gaps
      BY <1>0, <2>0
    <3> QED BY <2>4, <3>1
  <2> QED BY <1>0, <1>2, <2>4, <2>6, <2>7
<1> QED BY <1>1, <1>2

LEMMA WakeInv == ASSUME PlInv, Wake PROVE PlInv'
<1>0. PlTypeOK /\ BackoffOK /\ GapsOK /\ RestOK
  BY DEF PlInv
<1>1. PICK d : d = IF CircuitOpen THEN OpenSecs ELSE backoff
  OBVIOUS
<1>2. /\ plPc = "sleeping" /\ plPc' = "refreshing" /\ Slept(d)
      /\ UNCHANGED <<base, errors, backoff, todo>>
  BY <1>1 DEF Wake
<1>3. d \in Nat \ {0} /\ (d <= base \/ d <= MaxBackoff \/ d <= OpenSecs) /\ base \in Nat
  BY <1>0, <1>1, PollConstants DEF BackoffOK, PlTypeOK
<1>4. /\ gaps' \in Seq(Nat) /\ Len(gaps') \in 1..Threshold /\ gaps'[Len(gaps')] = d
      /\ \A i \in DOMAIN gaps' : gaps'[i] = d \/ \E j \in DOMAIN gaps : gaps'[i] = gaps[j]
      /\ \A n \in Nat : n < Len(gaps) /\ n + 1 < Threshold =>
           n + 1 < Len(gaps') /\ gaps'[Len(gaps') - (n + 1)] = gaps[Len(gaps) - n]
  BY <1>0, <1>2, <1>3, SleptEffect
<1>5. PlTypeOK' /\ BackoffOK'
  BY <1>0, <1>2, <1>4, PollConstants DEF PlTypeOK, BackoffOK
<1>6. GapsOK'
  BY <1>0, <1>2, <1>3, <1>4 DEF GapsOK
<1>7. Len(gaps') \in DOMAIN gaps' /\ Len(gaps') \in Nat
  BY <1>4, PollConstants, LenProperties
<1>8. errors \in Nat /\ Threshold \in Nat
  BY <1>0, PollConstants DEF PlTypeOK
<1>9. CASE errors >= Threshold
  <2>1. d = OpenSecs
    BY <1>1, <1>9 DEF CircuitOpen
  <2>2. OpenSecs \in Nat
    BY PollConstants
  <2> QED BY <1>2, <1>4, <1>5, <1>6, <1>7, <1>8, <1>9, <2>1, <2>2 DEF PlInv, RestOK, Long
<1>10. CASE errors = 0 /\ errors < Threshold
  <2>1. d = base
    BY <1>0, <1>1, <1>8, <1>10 DEF CircuitOpen, BackoffOK
  <2>2. LongBefore(0)'
    BY <1>2, <1>3, <1>4, <1>7, <2>1 DEF LongBefore
  <2>3. Long(d)'
    BY <1>2, <1>3, <2>1 DEF Long
  <2> QED BY <1>2, <1>4, <1>5, <1>6, <1>7, <1>10, <2>2, <2>3 DEF PlInv, RestOK
<1>11. CASE errors # 0 /\ errors < Threshold
  <2>1. errors \in 1..(Threshold - 1)
    BY <1>8, <1>11
  <2>2. Len(gaps) > errors - 1 /\ gaps[Len(gaps) - (errors - 1)] >= base /\ Len(gaps) \in Nat
    BY <1>0, <1>2, <2>1, LenProperties DEF RestOK, LongBefore, PlTypeOK
  <2>3. errors < Len(gaps') /\ gaps'[Len(gaps') - errors] = gaps[Len(gaps) - (errors - 1)]
    <3>1. errors - 1 \in Nat /\ errors - 1 < Len(gaps) /\ (errors - 1) + 1 < Threshold
          /\ (errors - 1) + 1 = errors
      BY <1>8, <1>11, <2>2
    <3> QED BY <1>4, <3>1
  <2>4. LongBefore(errors)'
    BY <1>2, <2>2, <2>3 DEF LongBefore
  <2>5. \E i \in DOMAIN gaps' : Long(gaps[i])'
    <3>1. DOMAIN gaps' = 1..Len(gaps')
      BY <1>4, LenProperties
    <3>2. Len(gaps') - errors \in DOMAIN gaps'
      BY <1>7, <1>8, <2>1, <2>3, <3>1
    <3>3. gaps'[Len(gaps') - errors] >= base'
      BY <1>2, <2>2, <2>3
    <3> QED BY <3>2, <3>3 DEF Long
  <2>6. /\ plPc' # "sleeping" /\ errors' = errors /\ LongBefore(errors)'
    BY <1>2, <2>4
  <2>7. RestOK'
    BY <2>5, <2>6 DEF RestOK
  <2> QED BY <1>5, <1>6, <2>7 DEF PlInv
<1> QED BY <1>8, <1>9, <1>10, <1>11

\* A step that neither sleeps nor ends a poll.
LEMMA SamePace ==
  ASSUME PlInv, UNCHANGED <<base, errors, backoff, gaps>>,
         plPc \notin {"sleeping"} \/ plPc' = "sleeping",
         plPc' \in {"sleeping", "refreshing", "asking", "dispatching", "reporting"},
         plPc' = "sleeping" => plPc = "sleeping",
         todo' \in Nat, plPc' \in {"dispatching", "reporting"} => todo' > 0
  PROVE  PlInv'
<1>1. PlTypeOK' /\ BackoffOK' /\ GapsOK'
  BY DEF PlInv, PlTypeOK, BackoffOK, GapsOK
<1>2. \A n : LongBefore(n)' <=> LongBefore(n)
  BY DEF LongBefore
<1>3. \A d : Long(d)' <=> Long(d)
  BY DEF Long
<1>4. RestOK'
  BY <1>2, <1>3 DEF PlInv, RestOK
<1> QED BY <1>1, <1>4 DEF PlInv

\* A poll that succeeded.
LEMMA SuccessInv ==
  ASSUME PlInv, RecordSuccess, plPc' = "sleeping", todo' \in Nat, UNCHANGED <<base, gaps>>
  PROVE  PlInv'
<1>1. PlTypeOK' /\ BackoffOK' /\ GapsOK'
  BY PollConstants DEF PlInv, PlTypeOK, BackoffOK, GapsOK, RecordSuccess
<1>2. RestOK'
  BY DEF PlInv, RestOK, Long, RecordSuccess
<1> QED BY <1>1, <1>2 DEF PlInv

\* A poll that failed: one short sleep more since the last long one.
LEMMA FailureInv == ASSUME PlInv, PollFails PROVE PlInv'
<1>0. PlTypeOK /\ BackoffOK /\ GapsOK /\ RestOK
  BY DEF PlInv
<1>1. /\ plPc = "asking" /\ plPc' = "sleeping" /\ RecordError
      /\ UNCHANGED <<base, todo, gaps>>
  BY DEF PollFails
<1>2. errors \in 0..MaxErrors /\ MaxErrors \in Nat /\ Threshold \in Nat \ {0} /\ MaxErrors > Threshold
  BY <1>0, PollConstants DEF PlTypeOK
<1>3. /\ errors' \in 1..MaxErrors
      /\ errors' = errors + 1 \/ (errors' = errors /\ errors = MaxErrors)
  BY <1>1, <1>2 DEF RecordError
<1>4. backoff' \in Nat \ {0} /\ backoff' <= MaxBackoff
  <2>1. PICK jitter \in 0..RawDelay(errors)' : backoff' = Max({jitter, 1})
    BY <1>1 DEF RecordError, RawDelay
  <2>2. RawDelay(errors)' \in Int /\ RawDelay(errors)' <= MaxBackoff
    <3>1. RawDelay(errors)' = RawDelay(errors')
      BY <1>1 DEF RawDelay
    <3>2. base \in Nat /\ errors' \in Nat \ {0}
      BY <1>0, <1>3 DEF PlTypeOK
    <3> QED BY <3>1, <3>2, RawDelayBound
  <2> QED BY <2>1, <2>2, MaxOfTwo, PollConstants
<1>5. PlTypeOK' /\ BackoffOK' /\ GapsOK'
  BY <1>0, <1>1, <1>3, <1>4 DEF PlTypeOK, BackoffOK, GapsOK
<1>6. RestOK'
  <2>1. ASSUME errors' \in 1..(Threshold - 1) PROVE LongBefore(errors - 1)'
    <3>1. errors' = errors + 1 /\ errors < Threshold /\ errors' - 1 = errors
      <4>1. errors' \in Int /\ errors' < Threshold
        BY <1>2, <2>1
      <4>2. errors' = errors + 1
        BY <1>2, <1>3, <4>1
      <4> QED BY <1>2, <4>1, <4>2
    <3>2. LongBefore(errors)
      BY <1>0, <1>1, <3>1 DEF RestOK
    <3> QED BY <1>1, <3>1, <3>2 DEF LongBefore
  <2>2. \A d : Long(d)' <=> Long(d)
    BY <1>1 DEF Long
  <2> QED BY <1>0, <1>1, <2>1, <2>2 DEF RestOK
<1> QED BY <1>5, <1>6 DEF PlInv

LEMMA PollAnsweredInv == ASSUME PlInv, PollAnswered PROVE PlInv'
<1>1. PICK n \in 0..MaxBatch :
        /\ todo' = n /\ plPc' = EndOfBatch(n)
        /\ IF n = 0 THEN RecordSuccess ELSE UNCHANGED <<errors, backoff>>
  BY DEF PollAnswered
<1>2. plPc = "asking" /\ UNCHANGED <<base, gaps>> /\ todo' \in Nat /\ n \in Nat
  BY <1>1, PollConstants DEF PollAnswered
<1>3. CASE n = 0
  BY <1>1, <1>2, <1>3, SuccessInv DEF EndOfBatch
<1>4. CASE n # 0
  BY <1>1, <1>2, <1>4, SamePace DEF EndOfBatch
<1> QED BY <1>3, <1>4

LEMMA NextCommandInv ==
  ASSUME PlInv, plPc \in {"dispatching", "reporting"}, NextCommand, UNCHANGED <<base, gaps>>
  PROVE  PlInv'
<1>1. todo \in Nat /\ todo > 0
  BY DEF PlInv, PlTypeOK
<1>2. CASE todo = 1
  <2>1. RecordSuccess /\ plPc' = "sleeping" /\ todo' = 0
    BY <1>2 DEF NextCommand, EndOfBatch
  <2> QED BY <2>1, SuccessInv
<1>3. CASE todo # 1
  <2>1. /\ UNCHANGED <<errors, backoff>> /\ todo' = todo - 1 /\ todo' \in Nat /\ todo' > 0
        /\ plPc' = "dispatching"
    BY <1>1, <1>3 DEF NextCommand, EndOfBatch
  <2> QED BY <2>1, SamePace
<1> QED BY <1>2, <1>3

LEMMA PlStep == PlInv /\ [PlNext]_plVars => PlInv'
<1> SUFFICES ASSUME PlInv, [PlNext]_plVars PROVE PlInv'
  OBVIOUS
<1>0. PlTypeOK
  BY DEF PlInv
<1>1. CASE RefreshReturns
  BY <1>0, <1>1, SamePace DEF RefreshReturns, PlTypeOK
<1>2. CASE Dispatched
  BY <1>0, <1>2, SamePace DEF Dispatched, PlTypeOK
<1>3. CASE ServerChanges
  BY <1>0, <1>3, SamePace DEF ServerChanges, PlTypeOK
<1>4. CASE Skipped \/ Reported
  BY <1>4, NextCommandInv DEF Skipped, Reported
<1>5. CASE UNCHANGED plVars
  BY <1>0, <1>5, SamePace DEF plVars, PlTypeOK
<1> QED
  BY <1>1, <1>2, <1>3, <1>4, <1>5, WakeInv, FailureInv, PollAnsweredInv
     DEF PlNext, AwaitsServer, AwaitsActuator

\* The poll loop (PollState, run): among any CIRCUIT_OPEN_THRESHOLD sleeps in a row one is
\* as long as the poll interval or the pause of an open circuit, whatever fails and
\* whatever the jitter draws; none is empty or beyond the longest pause. For any intervals
\* and constants.
THEOREM PollingIsPaced == PlSpec => []PollIsPaced
<1>1. PlInv => PollIsPaced
  <2> SUFFICES ASSUME PlInv PROVE PollIsPaced
    OBVIOUS
  <2>0. /\ base \in Nat /\ MaxBackoff \in Nat /\ OpenSecs \in Nat /\ gaps \in Seq(Nat)
        /\ \A i \in DOMAIN gaps : gaps[i] \in Nat
    BY PollConstants, ElementOfSeq, LenProperties DEF PlInv, PlTypeOK
  <2>1. PICK m : m = Max({base, MaxBackoff, OpenSecs})
    OBVIOUS
  <2>2. m \in Nat /\ m >= base /\ m >= MaxBackoff /\ m >= OpenSecs
    BY <2>0, <2>1, MaxOfThree
  <2>3. \A i \in DOMAIN gaps : gaps[i] \in 1..m
    BY <2>0, <2>2 DEF PlInv, GapsOK
  <2>4. Len(gaps) = Threshold => \E i \in DOMAIN gaps : gaps[i] >= Min({base, OpenSecs})
    <3> SUFFICES ASSUME Len(gaps) = Threshold
                 PROVE  \E i \in DOMAIN gaps : gaps[i] >= Min({base, OpenSecs})
      OBVIOUS
    <3>1. gaps # <<>>
      BY PollConstants
    <3>2. PICK i \in DOMAIN gaps : Long(gaps[i])
      BY <3>1 DEF PlInv, RestOK
    <3>3. Min({base, OpenSecs}) = IF base <= OpenSecs THEN base ELSE OpenSecs
      BY <2>0, MinOfTwo
    <3> QED BY <2>0, <3>2, <3>3 DEF Long
  <2> QED BY <2>1, <2>3, <2>4 DEF PollIsPaced
<1> QED BY <1>1, PlInitInv, PlStep, PTL DEF PlSpec
=============================================================================
