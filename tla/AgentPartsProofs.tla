-------------------------- MODULE AgentPartsProofs --------------------------
(***************************************************************************)
(* Proofs about parts of the agents that share no state, each with the     *)
(* specification that lets its own next-state relation run: the privileged *)
(* actuator (Actuator), the in-cluster executor (KubeCommands), the        *)
(* rotation of the signing key (KeyRotation), enrollment (Enrollment), the *)
(* digests and heartbeats (DigestWindow), the file, update and journal     *)
(* taps (HostTaps), the pod log scraper (LogDedup) and the watches of the  *)
(* Kubernetes agents (KubeWatch).                                          *)
(***************************************************************************)
EXTENDS Actuator, KeyRotation, Enrollment, KubeCommands, DigestWindow, HostTaps, LogDedup,
        KubeWatch, FiniteSetTheorems, SequenceTheorems, WellFoundedInduction, TLAPS

-----------------------------------------------------------------------------
(* Actuator *)

(***************************************************************************)
(* The inductive invariant: what the log of a connection holds at each     *)
(* point of handle_command, and that the connection the accept loop holds  *)
(* is not one of the running ones.                                         *)
(***************************************************************************)
Unstarted == {"new", "backlog", "refused", "held", "read"}
Running == {"read", "pre", "steps", "verify", "rollback"}

Unrun(c)   == Count(c, "step") = 0 /\ Count(c, "rollback") = 0
Checked(c) == Count(c, "pre") = Shape[c].pre /\ All(c, "pre", "ok")
Stepped(c) == Count(c, "step") = Shape[c].steps /\ All(c, "step", "ok")
Verified(c) == Shape[c].verify => log[c][Len(log[c])] = [cap |-> "verify", out |-> "ok"]

RunOK(c) ==
  /\ pc[c] \in Unstarted => log[c] = << >>
  /\ pc[c] # "closed" => status[c] = "none" /\ Count(c, "rollback") = 0
  /\ pc[c] = "pre" => Unrun(c) /\ All(c, "pre", "ok")
  /\ pc[c] \in {"steps", "verify", "rollback"} => Checked(c) /\ All(c, "step", "ok")
  /\ pc[c] \in {"verify", "rollback"} => Stepped(c)
  /\ Count(c, "step") > 0 => Checked(c)
  /\ status[c] \in {"rejected", "precondition_failed"} => Unrun(c)
  /\ status[c] = "succeeded" =>
       Checked(c) /\ Stepped(c) /\ Verified(c) /\ Count(c, "rollback") = 0
  /\ status[c] = "frozen" <=> Count(c, "rollback") > 0 /\ ~All(c, "rollback", "ok")

HeldOK == held # None => pc[held] = "held"

PermitsOK == IsFiniteSet(Busy) /\ PermitsAreConserved

IInv == TypeOK /\ (\A c \in Conns : RunOK(c)) /\ HeldOK /\ PermitsOK

-----------------------------------------------------------------------------
USE ActuatorAssumption

\* The places where a log s has a capability of kind k.
CapAt(s, k) == {i \in 1..Len(s) : s[i].cap = k}

\* They are finitely many, and an entry appended to the log adds one or none.
LEMMA CountAppend ==
  ASSUME NEW s \in Seq(Ran), NEW e \in Ran, NEW k
  PROVE  /\ Cardinality(CapAt(s, k)) \in Nat
         /\ Cardinality(CapAt(Append(s, e), k)) =
              Cardinality(CapAt(s, k)) + (IF e.cap = k THEN 1 ELSE 0)
<1> DEFINE S == CapAt(s, k)
           t == Append(s, e)
           T == CapAt(t, k)
           n == Len(s) + 1
<1>1. IsFiniteSet(S) /\ Cardinality(S) \in Nat
  <2>1. IsFiniteSet(1..Len(s))
    BY FS_Interval
  <2>2. S \in SUBSET (1..Len(s))
    BY DEF CapAt
  <2>3. QED
    BY <2>1, <2>2, FS_Subset, FS_CardinalityType
<1>2. /\ Len(t) = n /\ Len(s) \in Nat /\ t[n] = e
      /\ \A i \in 1..Len(s) : t[i] = s[i]
  OBVIOUS
<1>3. n \notin S
  BY <1>2 DEF CapAt
<1>4. T = IF e.cap = k THEN S \cup {n} ELSE S
  <2> HIDE DEF t
  <2>1. 1..Len(t) = (1..Len(s)) \cup {n}
    BY <1>2
  <2>2. QED
    BY <1>2, <2>1 DEF CapAt
<1>5. Cardinality(T) = Cardinality(S) + (IF e.cap = k THEN 1 ELSE 0)
  <2> HIDE DEF S, T, n
  <2>1. CASE e.cap = k
    BY <1>1, <1>3, <1>4, <2>1, FS_AddElement
  <2>2. CASE e.cap # k
    BY <1>1, <1>4, <2>2
  <2>3. QED
    BY <2>1, <2>2
<1>6. QED
  BY <1>1, <1>5

\* What executor.run appends to the log of c, seen through Count and All.
LEMMA RunEffect ==
  ASSUME TypeOK, NEW c \in Conns, NEW cap \in {"pre", "step", "verify", "rollback"},
         NEW out \in {"ok", "miss", "err"}, Run(c, cap, out)
  PROVE  /\ log' \in [Conns -> Seq(Ran)]
         /\ \A d \in Conns : d # c => log'[d] = log[d]
         /\ log'[c][Len(log'[c])] = [cap |-> cap, out |-> out]
         /\ \A k : /\ Count(c, k) \in Nat
                   /\ Count(c, k)' = Count(c, k) + (IF cap = k THEN 1 ELSE 0)
         /\ \A k, o : All(c, k, o)' <=> All(c, k, o) /\ (k = cap => o = out)
<1> DEFINE e == [cap |-> cap, out |-> out]
           s == log[c]
<1>1. e \in Ran /\ s \in Seq(Ran) /\ e.cap = cap /\ e.out = out
  BY DEF Ran, TypeOK
<1> HIDE DEF e
<1>2. /\ log' \in [Conns -> Seq(Ran)] /\ log'[c] = Append(s, e)
      /\ \A d \in Conns : d # c => log'[d] = log[d]
  BY <1>1 DEF TypeOK, Run, e
<1>3. log'[c][Len(log'[c])] = e
  BY <1>1, <1>2
<1>4. ASSUME NEW k
      PROVE  /\ Count(c, k) \in Nat
             /\ Count(c, k)' = Count(c, k) + (IF cap = k THEN 1 ELSE 0)
  <2>1. Count(c, k) = Cardinality(CapAt(s, k)) /\ Count(c, k)' = Cardinality(CapAt(log'[c], k))
    BY DEF Count, CapAt
  <2>2. QED
    BY <1>1, <1>2, <2>1, CountAppend
<1>5. ASSUME NEW k, NEW o
      PROVE  All(c, k, o)' <=> All(c, k, o) /\ (k = cap => o = out)
  <2> DEFINE t == log'[c]
  <2>1. /\ Len(t) = Len(s) + 1 /\ Len(s) \in Nat /\ t[Len(s) + 1] = e
        /\ \A i \in 1..Len(s) : t[i] = s[i]
    BY <1>1, <1>2
  <2> HIDE DEF t
  <2>2. 1..Len(t) = (1..Len(s)) \cup {Len(s) + 1}
    BY <2>1
  <2>3. QED
    BY <1>1, <2>1, <2>2 DEF All, t
<1>6. QED
  BY <1>2, <1>3, <1>4, <1>5 DEF e

\* Count is a number, and nothing is counted in an empty log.
LEMMA CountType ==
  ASSUME TypeOK, NEW c \in Conns, NEW k
  PROVE  /\ Count(c, k) \in Nat
         /\ log[c] = << >> => Count(c, k) = 0 /\ \A o : All(c, k, o)
<1> DEFINE S == CapAt(log[c], k)
<1>1. IsFiniteSet(S)
  <2>1. Len(log[c]) \in Nat
    BY DEF TypeOK
  <2>2. PICK n \in Nat : n = Len(log[c])
    BY <2>1
  <2>3. IsFiniteSet(1..n)
    BY FS_Interval
  <2>4. S \in SUBSET (1..n)
    BY <2>2 DEF CapAt
  <2>5. QED
    BY <2>3, <2>4, FS_Subset
<1>2. Count(c, k) \in Nat
  BY <1>1, FS_CardinalityType DEF Count, CapAt
<1>3. ASSUME log[c] = << >> PROVE Count(c, k) = 0 /\ \A o : All(c, k, o)
  <2>1. S = {} /\ Len(log[c]) = 0
    BY <1>3 DEF CapAt
  <2>2. QED
    BY <2>1, FS_EmptySet DEF Count, CapAt, All
<1>4. QED
  BY <1>2, <1>3

\* None of a kind were run, so all of them came out as one likes.
LEMMA NoneOfThem ==
  ASSUME TypeOK, NEW c \in Conns, NEW k, Count(c, k) = 0
  PROVE  \A o : All(c, k, o)
<1>1. Len(log[c]) \in Nat
  BY DEF TypeOK
<1>2. IsFiniteSet(CapAt(log[c], k))
  <2>1. IsFiniteSet(1..Len(log[c])) /\ CapAt(log[c], k) \in SUBSET (1..Len(log[c]))
    BY <1>1, FS_Interval DEF CapAt
  <2>2. QED
    BY <2>1, FS_Subset
<1>3. CapAt(log[c], k) = {}
  BY <1>2, FS_EmptySet DEF Count, CapAt
<1>4. QED
  BY <1>3 DEF CapAt, All

\* Nothing has connected yet.
LEMMA InitIInv == Init => IInv
<1> SUFFICES ASSUME Init PROVE IInv
  OBVIOUS
<1>1. TypeOK
  BY DEF Init, TypeOK, Statuses
<1>2. ASSUME NEW c \in Conns PROVE RunOK(c)
  <2>1. pc[c] = "new" /\ status[c] = "none" /\ log[c] = << >>
    BY DEF Init
  <2>2. \A k : Count(c, k) = 0 /\ \A o : All(c, k, o)
    BY <1>1, <2>1, CountType
  <2>3. QED
    BY <2>1, <2>2 DEF RunOK
<1>3. PermitsOK
  <2>1. Busy = {}
    BY DEF Init, Busy
  <2>2. QED
    BY <2>1, FS_EmptySet DEF Init, PermitsOK, PermitsAreConserved
<1>4. QED
  BY <1>1, <1>2, <1>3 DEF Init, IInv, HeldOK

-----------------------------------------------------------------------------
(* The accept loop *)

\* A step that runs nothing and changes no result keeps what is known of a
\* connection that stays where it was.
LEMMA Untouched ==
  ASSUME NEW d \in Conns, RunOK(d), pc'[d] = pc[d], log'[d] = log[d], status'[d] = status[d]
  PROVE  RunOK(d)'
BY DEF RunOK, Unrun, Checked, Stepped, Verified, Count, All

\* A connection with nothing run and nothing answered is in order wherever it is
\* before its preconditions.
LEMMA EmptyIsOK ==
  ASSUME IInv, NEW c \in Conns, log'[c] = log[c], log[c] = << >>, status'[c] = "none",
         pc'[c] \in Unstarted \cup {"pre"}
  PROVE  RunOK(c)'
<1>1. \A k : Count(c, k) = 0 /\ \A o : All(c, k, o)
  BY CountType DEF IInv
<1>2. \A k : Count(c, k)' = 0 /\ \A o : All(c, k, o)'
  BY <1>1 DEF Count, All
<1>3. QED
  BY <1>2 DEF RunOK, Unrun, Unstarted

\* Connect, Accept and Spawn move one connection, before it runs anything.
LEMMA OutsideMove ==
  ASSUME IInv, NEW c \in Conns, pc[c] \in Unstarted, NEW q \in Unstarted,
         pc' = [pc EXCEPT ![c] = q], UNCHANGED <<log, status>>
  PROVE  /\ \A d \in Conns : pc'[d] = IF d = c THEN q ELSE pc[d]
         /\ \A d \in Conns : RunOK(d)'
<1>1. \A d \in Conns : pc'[d] = IF d = c THEN q ELSE pc[d]
  BY DEF IInv, TypeOK
<1>2. log[c] = << >> /\ status[c] = "none"
  BY DEF IInv, RunOK, Unstarted
<1>3. ASSUME NEW d \in Conns PROVE RunOK(d)'
  <2>1. CASE d # c
    BY <1>1, <2>1, Untouched DEF IInv
  <2>2. CASE d = c
    BY <1>1, <1>2, <2>2, EmptyIsOK
  <2>3. QED
    BY <2>1, <2>2
<1>4. QED
  BY <1>1, <1>3

\* A client connects, and the loop takes it off the backlog or drops it.
LEMMA ConnectStep == ASSUME IInv, NEW c \in Conns, Connect(c) \/ Accept(c) PROVE IInv'
<1>1. PICK q \in {"backlog", "held", "refused"} :
        /\ pc' = [pc EXCEPT ![c] = q]
        /\ held' = held \/ (held' = c /\ q = "held" /\ held = None)
        /\ pc[c] \in {"new", "backlog"} /\ UNCHANGED <<permits, log, status>>
  BY DEF Connect, Accept
<1>2. /\ \A d \in Conns : pc'[d] = IF d = c THEN q ELSE pc[d]
      /\ \A d \in Conns : RunOK(d)'
  <2>1. q \in Unstarted /\ pc[c] \in Unstarted
    BY <1>1 DEF Unstarted
  <2>2. QED
    BY <1>1, <2>1, OutsideMove
<1>3. TypeOK'
  BY <1>1 DEF IInv, TypeOK
<1>4. HeldOK'
  BY <1>1, <1>2 DEF IInv, TypeOK, HeldOK
<1>5. PermitsOK'
  <2>1. Busy' = Busy
    BY <1>1, <1>2 DEF Busy
  <2>2. QED
    BY <1>1, <2>1 DEF IInv, PermitsOK, PermitsAreConserved
<1>6. QED
  BY <1>2, <1>3, <1>4, <1>5 DEF IInv

\* acquire_owned: one permit less, one running connection more.
LEMMA SpawnStep == ASSUME IInv, Spawn PROVE IInv'
<1>1. PICK c \in Conns : c = held
  BY DEF Spawn, IInv, TypeOK
<1>2. /\ pc[c] = "held" /\ pc' = [pc EXCEPT ![c] = "read"] /\ held' = None
      /\ permits > 0 /\ permits' = permits - 1 /\ UNCHANGED <<log, status>>
  BY <1>1 DEF Spawn, IInv, HeldOK
<1>3. /\ \A d \in Conns : pc'[d] = IF d = c THEN "read" ELSE pc[d]
      /\ \A d \in Conns : RunOK(d)'
  BY <1>2, OutsideMove DEF Unstarted
<1>4. TypeOK' /\ HeldOK'
  BY <1>2 DEF IInv, TypeOK, HeldOK
<1>5. PermitsOK'
  <2>1. Busy' = Busy \cup {c} /\ c \notin Busy
    BY <1>2, <1>3 DEF Busy
  <2>2. IsFiniteSet(Busy') /\ Cardinality(Busy') = Cardinality(Busy) + 1 /\ Cardinality(Busy) \in Nat
    BY <2>1, FS_AddElement, FS_CardinalityType DEF IInv, PermitsOK
  <2>3. QED
    BY <1>2, <2>2 DEF IInv, TypeOK, PermitsOK, PermitsAreConserved
<1>6. QED
  BY <1>3, <1>4, <1>5 DEF IInv

-----------------------------------------------------------------------------
(* handle_command *)

\* What a step of the handler of c comes to: c goes on to q (Goto) or ends with a
\* result (Close), having run at most one capability.
LEMMA HandlerMove ==
  ASSUME IInv, NEW c \in Conns, pc[c] \in Running,
         log' \in [Conns -> Seq(Ran)], \A d \in Conns : d # c => log'[d] = log[d],
         RunOK(c)',
         \/ \E q \in Running : Goto(c, q)
         \/ \E r \in Statuses : Close(c, r)
  PROVE  IInv'
<1>1. CASE \E q \in Running : Goto(c, q)
  <2>1. PICK q \in Running : pc' = [pc EXCEPT ![c] = q] /\ UNCHANGED <<held, permits, status>>
    BY <1>1 DEF Goto
  <2>2. \A d \in Conns : pc'[d] = IF d = c THEN q ELSE pc[d]
    BY <2>1 DEF IInv, TypeOK
  <2>3. TypeOK'
    BY <2>1 DEF IInv, TypeOK, Running
  <2>4. ASSUME NEW d \in Conns PROVE RunOK(d)'
    BY <2>1, <2>2, Untouched DEF IInv
  <2>5. HeldOK'
    BY <2>1, <2>2 DEF IInv, TypeOK, HeldOK, Running
  <2>6. Busy' = Busy
    BY <2>2 DEF Busy, Running
  <2>7. PermitsOK'
    BY <2>1, <2>6 DEF IInv, PermitsOK, PermitsAreConserved
  <2>8. QED
    BY <2>3, <2>4, <2>5, <2>7 DEF IInv
<1>2. CASE \E r \in Statuses : Close(c, r)
  <2>1. PICK r \in Statuses : /\ pc' = [pc EXCEPT ![c] = "closed"] /\ held' = held
                              /\ status' = [status EXCEPT ![c] = r] /\ permits' = permits + 1
    BY <1>2 DEF Close
  <2>2. \A d \in Conns : /\ pc'[d] = IF d = c THEN "closed" ELSE pc[d]
                         /\ d # c => status'[d] = status[d]
    BY <2>1 DEF IInv, TypeOK
  <2>3. ASSUME NEW d \in Conns PROVE RunOK(d)'
    BY <2>2, Untouched DEF IInv
  <2>4. HeldOK'
    BY <2>1, <2>2 DEF IInv, TypeOK, HeldOK, Running
  <2>5. Busy' = Busy \ {c} /\ c \in Busy
    BY <2>2 DEF Busy, Running
  <2>6. /\ IsFiniteSet(Busy') /\ Cardinality(Busy') = Cardinality(Busy) - 1
        /\ Cardinality(Busy) \in Nat /\ Cardinality(Busy') \in Nat
    BY <2>5, FS_RemoveElement, FS_CardinalityType DEF IInv, PermitsOK
  <2>7. PermitsOK' /\ permits' \in 0..Slots
    BY <2>1, <2>6 DEF IInv, TypeOK, PermitsOK, PermitsAreConserved
  <2>8. TypeOK'
    BY <2>1, <2>7 DEF IInv, TypeOK
  <2>9. QED
    BY <2>3, <2>4, <2>7, <2>8 DEF IInv
<1>3. QED
  BY <1>1, <1>2

\* Where Goto leaves the connection.
LEMMA GotoEffect ==
  ASSUME IInv, NEW c \in Conns, NEW q, Goto(c, q)
  PROVE  pc'[c] = q /\ status'[c] = status[c]
BY DEF IInv, TypeOK, Goto

\* Where Close leaves it, and with which result.
LEMMA CloseEffect ==
  ASSUME IInv, NEW c \in Conns, NEW r, Close(c, r)
  PROVE  pc'[c] = "closed" /\ status'[c] = r
BY DEF IInv, TypeOK, Close

\* Nothing was run, so Count and All are as they were.
LEMMA SameLog ==
  ASSUME IInv, NEW c \in Conns, UNCHANGED log
  PROVE  /\ log' \in [Conns -> Seq(Ran)] /\ \A d \in Conns : log'[d] = log[d]
         /\ \A k : Count(c, k)' = Count(c, k) /\ \A o : All(c, k, o)' <=> All(c, k, o)
BY DEF IInv, TypeOK, Count, All

\* Envelopes that are not run leave the log empty.
LEMMA ReadStep == ASSUME IInv, NEW c \in Conns, Read(c) PROVE IInv'
<1>1. pc[c] = "read" /\ log[c] = << >> /\ status[c] = "none" /\ UNCHANGED log
  BY DEF Read, IInv, RunOK, Unstarted
<1>2. \A k : Count(c, k) = 0 /\ \A o : All(c, k, o)
  BY <1>1, CountType DEF IInv
<1>3. /\ log' \in [Conns -> Seq(Ran)] /\ \A d \in Conns : log'[d] = log[d]
      /\ \A k : Count(c, k)' = 0 /\ \A o : All(c, k, o)'
  BY <1>1, <1>2, SameLog
<1>4. \/ Goto(c, "pre") \/ Close(c, "none") \/ Close(c, "rejected")
  BY DEF Read
<1>5. /\ status'[c] \in {"none", "rejected"}
      /\ pc'[c] = "closed" \/ (pc'[c] = "pre" /\ status'[c] = "none")
  BY <1>1, <1>4, GotoEffect, CloseEffect
<1>6. RunOK(c)'
  BY <1>3, <1>5 DEF RunOK, Unrun, Unstarted
<1>7. QED
  BY <1>1, <1>3, <1>4, <1>6, HandlerMove DEF Running, Statuses

\* A precondition that holds is counted; any other outcome ends the command.
LEMMA PreconditionStep == ASSUME IInv, NEW c \in Conns, Precondition(c) PROVE IInv'
<1>1. /\ pc[c] = "pre" /\ pc[c] \in Running /\ status[c] = "none"
      /\ Count(c, "step") = 0 /\ Count(c, "rollback") = 0 /\ All(c, "pre", "ok")
      /\ TypeOK
  BY DEF Precondition, IInv, RunOK, Unrun, Running
<1>2. \A k : Count(c, k) \in Nat
  BY <1>1, CountType
<1>3. CASE Goto(c, "steps") /\ UNCHANGED log /\ Count(c, "pre") = Shape[c].pre
  <2>1. /\ log' \in [Conns -> Seq(Ran)] /\ \A d \in Conns : log'[d] = log[d]
        /\ \A k : Count(c, k)' = Count(c, k) /\ \A o : All(c, k, o)' <=> All(c, k, o)
    BY <1>3, SameLog
  <2>2. pc'[c] = "steps" /\ status'[c] = "none"
    BY <1>1, <1>3, GotoEffect
  <2>3. All(c, "step", "ok")
    BY <1>1, NoneOfThem
  <2>4. RunOK(c)'
    BY <1>1, <1>3, <2>1, <2>2, <2>3 DEF RunOK, Unrun, Checked, Unstarted
  <2>5. QED
    BY <1>1, <1>3, <2>1, <2>4, HandlerMove DEF Running
<1>4. ASSUME NEW out \in {"ok", "miss", "err"}, Run(c, "pre", out),
             \/ out = "ok" /\ Goto(c, "pre")
             \/ out = "miss" /\ Close(c, "precondition_failed")
             \/ out = "err" /\ Close(c, "failed")
      PROVE  IInv'
  <2>1. /\ log' \in [Conns -> Seq(Ran)] /\ \A d \in Conns : d # c => log'[d] = log[d]
        /\ \A k : Count(c, k)' = Count(c, k) + (IF "pre" = k THEN 1 ELSE 0)
        /\ \A k, o : All(c, k, o)' <=> All(c, k, o) /\ (k = "pre" => o = out)
    BY <1>1, <1>4, RunEffect
  <2>2. /\ pc'[c] = "pre" => out = "ok" /\ status'[c] = "none"
        /\ pc'[c] \in {"pre", "closed"}
        /\ status'[c] \in {"none", "precondition_failed", "failed"}
    BY <1>1, <1>4, GotoEffect, CloseEffect
  <2>3. Count(c, "step")' = 0 /\ Count(c, "rollback")' = 0 /\ (out = "ok" => All(c, "pre", "ok")')
    BY <1>1, <2>1
  <2>4. RunOK(c)'
    BY <2>2, <2>3 DEF RunOK, Unrun, Unstarted
  <2>5. QED
    BY <1>1, <1>4, <2>1, <2>4, HandlerMove DEF Running, Statuses
<1>5. QED
  BY <1>3, <1>4 DEF Precondition

\* A step that ran is counted, one that failed ends the command; after the last one
\* the command goes on to its post-condition or has succeeded.
LEMMA StepStep == ASSUME IInv, NEW c \in Conns, Step(c) PROVE IInv'
<1>1. /\ pc[c] = "steps" /\ pc[c] \in Running /\ status[c] = "none"
      /\ Count(c, "pre") = Shape[c].pre /\ All(c, "pre", "ok")
      /\ All(c, "step", "ok") /\ Count(c, "rollback") = 0
      /\ TypeOK
  BY DEF Step, IInv, RunOK, Checked, Running
<1>2. \A k : Count(c, k) \in Nat
  BY <1>1, CountType
<1>3. CASE /\ UNCHANGED log /\ Count(c, "step") = Shape[c].steps
           /\ \/ Shape[c].verify /\ Goto(c, "verify")
              \/ ~Shape[c].verify /\ Close(c, "succeeded")
  <2>1. /\ log' \in [Conns -> Seq(Ran)] /\ \A d \in Conns : log'[d] = log[d]
        /\ \A k : Count(c, k)' = Count(c, k) /\ \A o : All(c, k, o)' <=> All(c, k, o)
    BY <1>3, SameLog
  <2>2. \/ pc'[c] = "verify" /\ status'[c] = "none"
        \/ ~Shape[c].verify /\ pc'[c] = "closed" /\ status'[c] = "succeeded"
    BY <1>1, <1>3, GotoEffect, CloseEffect
  <2>3. RunOK(c)'
    BY <1>1, <1>3, <2>1, <2>2 DEF RunOK, Checked, Stepped, Verified, Unstarted
  <2>4. QED
    BY <1>1, <1>3, <2>1, <2>3, HandlerMove DEF Running, Statuses
<1>4. ASSUME NEW out \in {"ok", "err"}, Run(c, "step", out),
             \/ out = "ok" /\ Goto(c, "steps")
             \/ out = "err" /\ Close(c, "failed")
      PROVE  IInv'
  <2>1. /\ log' \in [Conns -> Seq(Ran)] /\ \A d \in Conns : d # c => log'[d] = log[d]
        /\ \A k : Count(c, k)' = Count(c, k) + (IF "step" = k THEN 1 ELSE 0)
        /\ \A k, o : All(c, k, o)' <=> All(c, k, o) /\ (k = "step" => o = out)
    BY <1>1, <1>4, RunEffect
  <2>2. \/ pc'[c] = "steps" /\ status'[c] = "none" /\ out = "ok"
        \/ pc'[c] = "closed" /\ status'[c] = "failed"
    BY <1>1, <1>4, GotoEffect, CloseEffect
  <2>3. /\ Count(c, "pre")' = Shape[c].pre /\ All(c, "pre", "ok")' /\ Count(c, "rollback")' = 0
        /\ out = "ok" => All(c, "step", "ok")'
    BY <1>1, <1>2, <2>1
  <2>4. RunOK(c)'
    BY <2>2, <2>3 DEF RunOK, Checked, Unstarted
  <2>5. QED
    BY <1>1, <1>4, <2>1, <2>4, HandlerMove DEF Running, Statuses
<1>5. QED
  BY <1>3, <1>4 DEF Step

\* A poll of the post-condition: only an observed post-condition is a success.
LEMMA VerifyStep == ASSUME IInv, NEW c \in Conns, Verify(c) PROVE IInv'
<1>1. /\ pc[c] = "verify" /\ pc[c] \in Running /\ status[c] = "none"
      /\ Count(c, "pre") = Shape[c].pre /\ All(c, "pre", "ok")
      /\ Count(c, "step") = Shape[c].steps /\ All(c, "step", "ok") /\ Count(c, "rollback") = 0
      /\ TypeOK
  BY DEF Verify, IInv, RunOK, Checked, Stepped, Running
<1>2. \A k : Count(c, k) \in Nat
  BY <1>1, CountType
<1>3. PICK out \in {"ok", "miss", "err"} :
        /\ Run(c, "verify", out)
        /\ \/ out = "ok" /\ Close(c, "succeeded")
           \/ Goto(c, "verify") \/ Goto(c, "rollback")
  BY DEF Verify
<1>4. /\ log' \in [Conns -> Seq(Ran)] /\ \A d \in Conns : d # c => log'[d] = log[d]
      /\ log'[c][Len(log'[c])] = [cap |-> "verify", out |-> out]
      /\ \A k : Count(c, k)' = Count(c, k) + (IF "verify" = k THEN 1 ELSE 0)
      /\ \A k, o : All(c, k, o)' <=> All(c, k, o) /\ (k = "verify" => o = out)
  BY <1>1, <1>3, RunEffect
<1>5. \/ pc'[c] \in {"verify", "rollback"} /\ status'[c] = "none"
      \/ pc'[c] = "closed" /\ status'[c] = "succeeded" /\ out = "ok"
  BY <1>1, <1>3, GotoEffect, CloseEffect
<1>6. /\ Count(c, "pre")' = Shape[c].pre /\ All(c, "pre", "ok")' /\ Count(c, "rollback")' = 0
      /\ Count(c, "step")' = Shape[c].steps /\ All(c, "step", "ok")'
  BY <1>1, <1>2, <1>4
<1>7. RunOK(c)'
  BY <1>4, <1>5, <1>6 DEF RunOK, Checked, Stepped, Verified, Unstarted
<1>8. QED
  BY <1>1, <1>3, <1>4, <1>7, HandlerMove DEF Running, Statuses

\* perform_rollback: frozen exactly when a declared rollback fails.
LEMMA RollbackStep == ASSUME IInv, NEW c \in Conns, Rollback(c) PROVE IInv'
<1>1. /\ pc[c] = "rollback" /\ pc[c] \in Running
      /\ Count(c, "pre") = Shape[c].pre /\ All(c, "pre", "ok") /\ Count(c, "rollback") = 0
      /\ TypeOK
  BY DEF Rollback, IInv, RunOK, Checked, Running
<1>2. (\A k : Count(c, k) \in Nat) /\ \A o : All(c, "rollback", o)
  BY <1>1, CountType, NoneOfThem
<1>3. CASE UNCHANGED log /\ Close(c, "failed")
  <2>1. /\ log' \in [Conns -> Seq(Ran)] /\ \A d \in Conns : log'[d] = log[d]
        /\ \A k : Count(c, k)' = Count(c, k) /\ \A o : All(c, k, o)' <=> All(c, k, o)
    BY <1>3, SameLog
  <2>2. pc'[c] = "closed" /\ status'[c] = "failed"
    BY <1>3, CloseEffect
  <2>3. RunOK(c)'
    BY <1>1, <2>1, <2>2 DEF RunOK, Checked, Unstarted
  <2>4. QED
    BY <1>1, <1>3, <2>1, <2>3, HandlerMove DEF Statuses
<1>4. ASSUME NEW out \in {"ok", "err"}, Run(c, "rollback", out),
             \/ out = "ok" /\ Close(c, "failed")
             \/ out = "err" /\ Close(c, "frozen")
      PROVE  IInv'
  <2>1. /\ log' \in [Conns -> Seq(Ran)] /\ \A d \in Conns : d # c => log'[d] = log[d]
        /\ \A k : Count(c, k)' = Count(c, k) + (IF "rollback" = k THEN 1 ELSE 0)
        /\ \A k, o : All(c, k, o)' <=> All(c, k, o) /\ (k = "rollback" => o = out)
    BY <1>1, <1>4, RunEffect
  <2>2. /\ pc'[c] = "closed"
        /\ \/ out = "ok" /\ status'[c] = "failed"
           \/ out = "err" /\ status'[c] = "frozen"
    BY <1>4, CloseEffect
  <2>3. /\ Count(c, "pre")' = Shape[c].pre /\ All(c, "pre", "ok")' /\ Count(c, "rollback")' = 1
        /\ All(c, "rollback", "ok")' <=> out = "ok"
    BY <1>1, <1>2, <2>1
  <2>4. RunOK(c)'
    BY <2>2, <2>3 DEF RunOK, Checked, Unstarted
  <2>5. QED
    BY <1>1, <1>4, <2>1, <2>4, HandlerMove DEF Statuses
<1>5. QED
  BY <1>3, <1>4 DEF Rollback

-----------------------------------------------------------------------------
(* The results *)

\* The invariant is inductive, so it holds in every reachable state.
LEMMA Invariance == Spec => []IInv
<1>1. IInv /\ [Next]_vars => IInv'
  <2> SUFFICES ASSUME IInv, [Next]_vars PROVE IInv'
    OBVIOUS
  <2>1. ASSUME NEW c \in Conns, Connect(c) \/ Accept(c) \/ HandlerStep(c) PROVE IInv'
    BY <2>1, ConnectStep, ReadStep, PreconditionStep, StepStep, VerifyStep, RollbackStep DEF HandlerStep
  <2>2. CASE UNCHANGED vars
    <3>1. TypeOK' /\ HeldOK' /\ PermitsOK'
      BY <2>2 DEF vars, IInv, TypeOK, HeldOK, PermitsOK, PermitsAreConserved, Busy
    <3>2. \A c \in Conns : RunOK(c)'
      BY <2>2, Untouched DEF vars, IInv
    <3>3. QED
      BY <3>1, <3>2 DEF IInv
  <2>3. QED
    BY <2>1, <2>2, SpawnStep DEF Next, Serve
<1>2. QED
  BY <1>1, InitIInv, PTL DEF Spec

\* Whatever connects and whatever the capabilities return, the state of the
\* actuator stays well typed: the permits never leave 0..MAX_CONCURRENT_COMMANDS.
THEOREM ActuatorTypeCorrect == Spec => []TypeOK
<1>1. IInv => TypeOK
  BY DEF IInv
<1>2. QED
  BY <1>1, Invariance, PTL

\* The result handle_command answers with is earned: succeeded only after every
\* precondition, every step and the post-condition, frozen exactly when a declared
\* rollback was tried and failed.
THEOREM ResultsAreEarned == Spec => []ResultIsEarned
<1>1. IInv => ResultIsEarned
  BY DEF IInv, RunOK, Checked, Stepped, Verified, ResultIsEarned
<1>2. QED
  BY <1>1, Invariance, PTL

\* handle_command runs no step before all preconditions were seen to hold, and a
\* command it refuses changes nothing.
THEOREM UncheckedNeverRuns == Spec => []NothingRunsUnchecked
<1>1. IInv => NothingRunsUnchecked
  BY DEF IInv, RunOK, Unrun, Checked, NothingRunsUnchecked
<1>2. QED
  BY <1>1, Invariance, PTL

\* However a connection ends, the permit its task took is back: with any number of
\* connections the permits and the running tasks add up to the limit.
THEOREM NoPermitIsLost == Spec => []PermitsAreConserved
<1>1. IInv => PermitsAreConserved
  BY DEF IInv, PermitsOK
<1>2. QED
  BY <1>1, Invariance, PTL

-----------------------------------------------------------------------------
(* KubeCommands *)

KcSpec == KcInit /\ [][KcNext]_kcVars

Phases == {"Absent", "Pending", "Running", "Failed"}
Results == [status : {"succeeded", "failed", "rejected"}, settled : BOOLEAN]

KcTypeOK ==
  /\ hour \in Nat
  /\ sends \in [Orders -> Nat] /\ inbox \in [Orders -> Nat]
  /\ executed \subseteq Orders
  /\ handling \in Orders \cup {NoOrder}
  /\ stage \in {"verify", "steps", "check"}
  /\ pods \in [Replicas -> Phases]
  /\ acted \in [Orders -> [0..MaxLives -> Nat]]
  /\ answers \in [Orders -> SUBSET Results]
  /\ lives \in 0..MaxLives

\* A command this executor may change the cluster for.
Runnable(o) == OrderShape[o].valid /\ OrderShape[o].kind # "host" /\ OrderShape[o].expires > 0

\* A life of the process acts once at most, and never before it has begun; what this
\* life has acted for it remembers, and is done with but for the post-condition.
ActedOK(o) ==
  /\ \A n \in 0..MaxLives :
       /\ acted[o][n] \in {0, 1}
       /\ acted[o][n] = 1 => Runnable(o)
       /\ n > lives => acted[o][n] = 0
  /\ acted[o][lives] = 1 => o \in executed /\ (handling = o => stage = "check")

\* The command in hand.
HandOK ==
  handling # NoOrder =>
    /\ handling \in executed
    /\ stage # "verify" => OrderShape[handling].valid /\ OrderShape[handling].expires > 0
    /\ stage = "check" => acted[handling][lives] = 1

AnswersOK(o) ==
  \A a \in answers[o] :
    a.status = "succeeded" => a.settled /\ \E n \in 0..MaxLives : acted[o][n] = 1

KcInv == KcTypeOK /\ HandOK /\ \A o \in Orders : ActedOK(o) /\ AnswersOK(o)

\* An order's shape has its type, and no order is the absence of one.
LEMMA OrdersType ==
  /\ Orders \subseteq Nat \ {0}
  /\ \A o \in Orders : OrderShape[o] \in
       [kind : {"delete", "restart", "host"}, valid : BOOLEAN, expires : Nat, sends : Nat]
  /\ MaxLives \in Nat /\ MaxHour \in Nat
  <1> DEFINE OrderShapes == [kind : {"delete", "restart", "host"}, valid : BOOLEAN, expires : Nat, sends : Nat]
  <1>1. OrderShape \in Seq(OrderShapes) /\ MaxLives \in Nat /\ MaxHour \in Nat
    BY OrdersAssumption
  <1> HIDE DEF OrderShapes
  <1>2. Len(OrderShape) \in Nat /\ Orders = 1..Len(OrderShape) /\ \A o \in Orders : OrderShape[o] \in OrderShapes
    BY <1>1 DEF Orders
  <1> QED BY <1>1, <1>2 DEF OrderShapes

\* The executor starts with nothing done.
LEMMA KcInitInv == KcInit => KcInv
  <1> SUFFICES ASSUME KcInit PROVE KcInv
    OBVIOUS
  <1>1. KcTypeOK
    BY OrdersType DEF KcInit, KcTypeOK, Phases, NoOrder
  <1>2. HandOK
    BY DEF KcInit, HandOK
  <1>3. \A o \in Orders : ActedOK(o) /\ AnswersOK(o)
    BY OrdersType DEF KcInit, ActedOK, AnswersOK
  <1> QED BY <1>1, <1>2, <1>3 DEF KcInv

\* The result of the command in hand: it is out of hand, and only its answers grew.
LEMMA PublishEffect ==
  ASSUME KcTypeOK, NEW st \in {"succeeded", "failed", "rejected"},
         handling # NoOrder, PublishResult(st)
  PROVE  /\ handling' = NoOrder /\ stage' = stage
         /\ answers' \in [Orders -> SUBSET Results]
         /\ \A o \in Orders : \A a \in answers'[o] :
              \/ a \in answers[o]
              \/ /\ o = handling /\ a.status = st
                 /\ a.settled = (\A r \in Replicas : pods[r] \in {"Absent", "Running"})
  <1> DEFINE all == \A r \in Replicas : pods[r] \in {"Absent", "Running"}
             a0 == [status |-> st, settled |-> all]
  <1>1. a0 \in Results /\ a0.status = st /\ a0.settled = all
    BY DEF Results
  <1>2. handling \in Orders
    BY DEF KcTypeOK
  <1>3. handling' = NoOrder /\ stage' = stage
    BY DEF PublishResult
  <1>4. \/ answers' = [answers EXCEPT ![handling] = @ \cup {a0}]
        \/ answers' = answers
    BY DEF PublishResult
  <1> HIDE DEF a0, all
  <1>5. answers' \in [Orders -> SUBSET Results]
    <2>1. answers[handling] \cup {a0} \in SUBSET Results /\ answers \in [Orders -> SUBSET Results]
      BY <1>1, <1>2 DEF KcTypeOK
    <2> QED BY <1>2, <1>4, <2>1
  <1>6. \A o \in Orders : \A a \in answers'[o] :
              a \in answers[o] \/ (o = handling /\ a = a0)
    BY <1>2, <1>4 DEF KcTypeOK
  <1> QED BY <1>1, <1>3, <1>5, <1>6 DEF all

\* When no matching pod troubles, every one of them runs or is gone.
LEMMA RunningIsSettled ==
  ASSUME "Running" \in PodState
  PROVE  \A r \in Replicas : pods[r] \in {"Absent", "Running"}
  BY DEF PodState

\* A step that leaves the cluster's record, the ids and the command in hand alone.
LEMMA KcOutside ==
  ASSUME KcInv, KcTypeOK',
         UNCHANGED <<executed, handling, stage, acted, answers, lives>>
  PROVE  KcInv'
  BY DEF KcInv, HandOK, ActedOK, AnswersOK, Runnable

\* The sender, the clock, the cluster and a duplicate.
LEMMA KcExternalInv ==
  ASSUME KcInv,
         \/ KcTick
         \/ \E o \in Orders : SendOrder(o) \/ DropDuplicate(o)
         \/ \E r \in Replicas : PhaseMoves(r)
  PROVE  KcInv'
  <1> USE OrdersType
  <1>1. CASE KcTick
    <2>1. KcTypeOK' BY <1>1 DEF KcInv, KcTypeOK, KcTick
    <2> QED BY <1>1, <2>1, KcOutside DEF KcTick
  <1>2. CASE \E o \in Orders : SendOrder(o) \/ DropDuplicate(o)
    <2> PICK o \in Orders : SendOrder(o) \/ DropDuplicate(o) BY <1>2
    <2>0. UNCHANGED <<executed, handling, stage, acted, answers, lives, hour, pods>>
      BY DEF SendOrder, DropDuplicate
    <2>1. sends' \in [Orders -> Nat] /\ inbox' \in [Orders -> Nat]
      <3>1. sends[o] + 1 \in Nat /\ inbox[o] + 1 \in Nat /\ (inbox[o] > 0 => inbox[o] - 1 \in Nat)
        <4>1. sends \in [Orders -> Nat] /\ inbox \in [Orders -> Nat]
          BY DEF KcInv, KcTypeOK
        <4>2. sends[o] \in Nat /\ inbox[o] \in Nat
          BY <4>1
        <4> QED BY <4>2
      <3>2. CASE SendOrder(o)
        BY <3>1, <3>2 DEF SendOrder, KcInv, KcTypeOK
      <3>3. CASE DropDuplicate(o)
        BY <3>1, <3>3 DEF DropDuplicate, Take, KcInv, KcTypeOK
      <3> QED BY <3>2, <3>3
    <2>2. KcTypeOK' BY <2>0, <2>1 DEF KcInv, KcTypeOK
    <2> QED BY <2>0, <2>2, KcOutside
  <1>3. CASE \E r \in Replicas : PhaseMoves(r)
    <2> PICK r \in Replicas : PhaseMoves(r) BY <1>3
    <2>1. pods' \in [Replicas -> Phases]
      BY DEF PhaseMoves, KcInv, KcTypeOK, Phases
    <2>2. KcTypeOK' BY <2>1 DEF KcInv, KcTypeOK, PhaseMoves
    <2> QED BY <2>2, KcOutside DEF PhaseMoves
  <1> QED BY <1>1, <1>2, <1>3

\* An envelope whose id is new: remembered before anything of it is looked at.
LEMMA BeginInv ==
  ASSUME KcInv, NEW o \in Orders, Begin(o)
  PROVE  KcInv'
  <1>1. KcTypeOK'
    <2>1. inbox' \in [Orders -> Nat]
      BY OrdersType DEF Begin, Take, KcInv, KcTypeOK
    <2>2. executed' \subseteq Orders /\ handling' \in Orders /\ stage' = "verify"
      BY DEF Begin, KcInv, KcTypeOK
    <2> QED BY <2>1, <2>2 DEF Begin, KcInv, KcTypeOK
  <1>2. HandOK'
    BY DEF Begin, HandOK
  <1>3. ASSUME NEW p \in Orders PROVE ActedOK(p)' /\ AnswersOK(p)'
    <2>1. acted[o][lives] # 1
      BY DEF KcInv, ActedOK, Begin
    <2> QED BY <2>1 DEF KcInv, KcTypeOK, ActedOK, AnswersOK, Runnable, Begin
  <1> QED BY <1>1, <1>2, <1>3 DEF KcInv

\* A result that is not a success, before anything was done or after.
LEMMA NoSuccessInv ==
  ASSUME KcInv, NEW st \in {"failed", "rejected"}, handling # NoOrder,
         PublishResult(st), UNCHANGED <<executed, acted, lives>>, KcTypeOK'
  PROVE  KcInv'
  <1>1. HandOK'
    BY DEF PublishResult, HandOK
  <1>2. ASSUME NEW o \in Orders PROVE ActedOK(o)' /\ AnswersOK(o)'
    <2>1. \A a \in answers'[o] : a \in answers[o] \/ a.status = st
      BY PublishEffect DEF KcInv
    <2>2. AnswersOK(o)'
      BY <2>1 DEF KcInv, AnswersOK
    <2>3. handling' # o
      BY OrdersType DEF PublishResult, NoOrder
    <2> QED BY <2>2, <2>3 DEF KcInv, ActedOK, Runnable
  <1> QED BY <1>1, <1>2 DEF KcInv

\* Signature, expiry and names.
LEMMA VerifyInv ==
  ASSUME KcInv, VerifyOrder
  PROVE  KcInv'
  <1>1. handling \in Orders /\ hour \in Nat
    BY DEF VerifyOrder, KcInv, KcTypeOK
  <1>2. CASE hour < OrderShape[handling].expires /\ OrderShape[handling].valid
    <2>0. stage' = "steps" /\ UNCHANGED <<hour, sends, inbox, executed, handling, pods, acted, answers, lives>>
      BY <1>2 DEF VerifyOrder
    <2>1. KcTypeOK'
      BY <2>0 DEF KcInv, KcTypeOK
    <2>2. HandOK'
      BY <1>1, <1>2, <2>0, OrdersType DEF KcInv, HandOK
    <2>3. ASSUME NEW o \in Orders PROVE ActedOK(o)' /\ AnswersOK(o)'
      BY <2>0 DEF KcInv, ActedOK, AnswersOK, Runnable, VerifyOrder
    <2> QED BY <2>1, <2>2, <2>3 DEF KcInv
  <1>3. CASE ~(hour < OrderShape[handling].expires /\ OrderShape[handling].valid)
    <2>0. PublishResult("rejected") /\ UNCHANGED <<hour, sends, inbox, executed, pods, acted, lives>>
      BY <1>3 DEF VerifyOrder
    <2>1. answers' \in [Orders -> SUBSET Results] /\ handling' = NoOrder /\ stage' = stage
      BY <2>0, PublishEffect DEF KcInv, VerifyOrder
    <2>2. KcTypeOK'
      BY <2>0, <2>1 DEF KcInv, KcTypeOK
    <2> QED BY <2>0, <2>2, NoSuccessInv DEF VerifyOrder
  <1> QED BY <1>2, <1>3

\* The steps: what the cluster records is the first thing this life does for it.
LEMMA RunInv ==
  ASSUME KcInv, RunOrder
  PROVE  KcInv'
  <1>1. handling \in Orders /\ handling \in executed /\ lives \in 0..MaxLives
    BY DEF RunOrder, KcInv, KcTypeOK, HandOK
  <1>2. CASE PublishResult("failed") /\ UNCHANGED <<pods, acted>>
    <2>0. UNCHANGED <<hour, sends, inbox, executed, pods, acted, lives>>
      BY <1>2 DEF RunOrder
    <2>1. answers' \in [Orders -> SUBSET Results] /\ handling' = NoOrder /\ stage' = stage
      BY <1>2, PublishEffect DEF KcInv, RunOrder
    <2>2. KcTypeOK'
      BY <2>0, <2>1 DEF KcInv, KcTypeOK
    <2> QED BY <1>2, <2>0, <2>2, NoSuccessInv DEF RunOrder
  <1>3. CASE /\ OrderShape[handling].kind # "host"
             /\ \E r \in Replicas :
                  /\ pods[r] # "Absent"
                  /\ pods' = IF OrderShape[handling].kind = "delete" THEN [pods EXCEPT ![r] = "Absent"]
                             ELSE [s \in Replicas |-> "Pending"]
             /\ acted' = [acted EXCEPT ![handling][lives] = @ + 1]
             /\ stage' = "check" /\ UNCHANGED <<handling, answers>>
    <2>0. UNCHANGED <<hour, sends, inbox, executed, handling, answers, lives>> /\ stage' = "check"
      BY <1>3 DEF RunOrder
    <2>1. acted[handling][lives] = 0
      BY <1>1 DEF KcInv, ActedOK, RunOrder
    <2>2. Runnable(handling)
      BY <1>3 DEF KcInv, HandOK, Runnable, RunOrder
    <2>3. acted' \in [Orders -> [0..MaxLives -> Nat]]
      <3>1. acted \in [Orders -> [0..MaxLives -> Nat]]
        BY DEF KcInv, KcTypeOK
      <3>2. acted' = [acted EXCEPT ![handling] = [acted[handling] EXCEPT ![lives] = 1]]
        BY <1>1, <1>3, <2>1, <3>1
      <3>3. [acted[handling] EXCEPT ![lives] = 1] \in [0..MaxLives -> Nat]
        BY <1>1, <3>1
      <3> QED BY <1>1, <3>1, <3>2, <3>3
    <2>4. \A o \in Orders : \A n \in 0..MaxLives :
            acted'[o][n] = IF o = handling /\ n = lives THEN 1 ELSE acted[o][n]
      <3>1. acted \in [Orders -> [0..MaxLives -> Nat]]
        BY DEF KcInv, KcTypeOK
      <3>2. acted' = [acted EXCEPT ![handling] = [acted[handling] EXCEPT ![lives] = 1]]
        BY <1>1, <1>3, <2>1, <3>1
      <3> QED BY <1>1, <3>1, <3>2
    <2>5. pods' \in [Replicas -> Phases]
      BY <1>3 DEF KcInv, KcTypeOK, Phases
    <2>6. KcTypeOK'
      BY <2>0, <2>3, <2>5 DEF KcInv, KcTypeOK
    <2>7. HandOK'
      BY <1>1, <2>0, <2>2, <2>4 DEF HandOK, Runnable
    <2>8. ASSUME NEW o \in Orders PROVE ActedOK(o)' /\ AnswersOK(o)'
      <3>1. ActedOK(o)
        BY DEF KcInv
      <3>2. ActedOK(o)'
        BY <1>1, <2>0, <2>2, <2>4, <3>1, OrdersType DEF ActedOK, Runnable
      <3>3. AnswersOK(o)
        BY DEF KcInv
      <3>4. AnswersOK(o)'
        BY <2>0, <2>4, <3>3 DEF AnswersOK
      <3> QED BY <3>2, <3>4
    <2> QED BY <2>6, <2>7, <2>8 DEF KcInv
  <1> QED BY <1>2, <1>3 DEF RunOrder

\* The post-condition: a success is published of what was done, with the pods settled.
LEMMA CheckInv ==
  ASSUME KcInv, CheckOrder
  PROVE  KcInv'
  <1>0. UNCHANGED <<hour, sends, inbox, executed, pods, acted, lives>>
    BY DEF CheckOrder
  <1>1. handling \in Orders /\ handling # NoOrder /\ acted[handling][lives] = 1
    BY DEF CheckOrder, KcInv, KcTypeOK, HandOK
  <1>2. ASSUME NEW st \in {"succeeded", "failed"}, PublishResult(st) PROVE KcTypeOK'
    <2>1. answers' \in [Orders -> SUBSET Results] /\ handling' = NoOrder /\ stage' = stage
      BY <1>1, <1>2, PublishEffect DEF KcInv
    <2> QED BY <1>0, <2>1 DEF KcInv, KcTypeOK
  <1>3. CASE PublishResult("failed")
    BY <1>0, <1>1, <1>2, <1>3, NoSuccessInv
  <1>4. CASE "Running" \in PodState /\ PublishResult("succeeded")
    <2>1. HandOK'
      BY <1>4 DEF PublishResult, HandOK
    <2>2. ASSUME NEW o \in Orders PROVE ActedOK(o)' /\ AnswersOK(o)'
      <3>1. \A a \in answers'[o] :
              a \in answers[o] \/ (o = handling /\ a.settled = (\A r \in Replicas : pods[r] \in {"Absent", "Running"}))
        BY <1>1, <1>4, PublishEffect DEF KcInv
      <3>2. \A a \in answers'[o] : a \in answers[o] \/ (o = handling /\ a.settled)
        BY <1>4, <3>1, RunningIsSettled
      <3>3. AnswersOK(o)'
        BY <1>0, <1>1, <3>2 DEF KcInv, KcTypeOK, AnswersOK
      <3>4. handling' # o
        BY <1>4, OrdersType DEF PublishResult, NoOrder
      <3> QED BY <1>0, <3>3, <3>4 DEF KcInv, ActedOK, Runnable
    <2> QED BY <1>2, <1>4, <2>1, <2>2 DEF KcInv
  <1> QED BY <1>3, <1>4 DEF CheckOrder

\* The next process knows nothing of the ids, and has done nothing yet.
LEMMA RestartInv ==
  ASSUME KcInv, ExecutorRestart
  PROVE  KcInv'
  <1>0. UNCHANGED <<hour, sends, pods, acted, answers>> /\ lives' = lives + 1 /\ lives' \in 0..MaxLives
        /\ handling' = NoOrder /\ executed' = {} /\ stage' = "verify"
    BY OrdersType DEF ExecutorRestart, KcInv, KcTypeOK
  <1>1. KcTypeOK'
    BY <1>0 DEF ExecutorRestart, KcInv, KcTypeOK
  <1>2. HandOK'
    BY <1>0 DEF HandOK
  <1>3. ASSUME NEW o \in Orders PROVE ActedOK(o)' /\ AnswersOK(o)'
    <2>1. ActedOK(o) /\ AnswersOK(o) /\ lives \in Nat
      BY OrdersType DEF KcInv, KcTypeOK
    <2>2. acted'[o][lives'] = 0
      BY <1>0, <2>1 DEF ActedOK
    <2> QED BY <1>0, <2>1, <2>2, OrdersType DEF ActedOK, AnswersOK, Runnable
  <1> QED BY <1>1, <1>2, <1>3 DEF KcInv

\* Every step of the executor and of its surroundings keeps the invariant.
LEMMA KcStep == KcInv /\ [KcNext]_kcVars => KcInv'
  <1> SUFFICES ASSUME KcInv, [KcNext]_kcVars PROVE KcInv'
    OBVIOUS
  <1>1. CASE UNCHANGED kcVars
    BY <1>1 DEF kcVars, KcInv, KcTypeOK, HandOK, ActedOK, AnswersOK, Runnable
  <1>2. CASE KcNext
    BY <1>2, KcExternalInv, BeginInv, VerifyInv, RunInv, CheckInv, RestartInv DEF KcNext
  <1> QED BY <1>1, <1>2

\* The in-cluster executor: however often an envelope is delivered, one process acts
\* for it at most once, only while it is valid, and success is only reported of what was
\* done, with every matching pod running. For any commands, pods and restarts.
THEOREM ExecutorActsOnce == KcSpec => []OrdersRunOnce
  <1>1. KcInv => OrdersRunOnce
    BY OrdersType DEF KcInv, ActedOK, AnswersOK, Runnable, OrdersRunOnce
  <1> QED BY <1>1, KcInitInv, KcStep, PTL DEF KcSpec

-----------------------------------------------------------------------------
(* KeyRotation *)

KrSpec == KrInit /\ [][KrNext]_krVars

KrTypeOK ==
  /\ active \in Keys /\ previous \subseteq Keys
  /\ signed \subseteq Commands /\ krBatch \subseteq Commands
  /\ keyOf \in [Commands -> Nat]
  /\ krPc \in {"refresh", "poll", "process"}
  /\ ring \subseteq Keys /\ disk \subseteq Keys /\ actuatorRing \subseteq Keys
  /\ outcome \in [Commands -> {"none", "executed", "refused_by_agent", "refused_by_actuator"}]

\* A keyring that lacks a key is behind it: all of its keys are older.
BehindOrKnows(R, k) == k \in R \/ \A j \in R : j < k

AllRings(k) == BehindOrKnows(ring, k) /\ BehindOrKnows(disk, k) /\ BehindOrKnows(actuatorRing, k)

\* Keys are withdrawn only once they are not the newest, and nothing holds a key that
\* was not signed with yet.
KeysOK ==
  /\ \A k \in previous : k < active
  /\ \A k \in ring \cup disk \cup actuatorRing : k <= active
  /\ AllRings(active)

\* What waits is signed with the active key (the queue does not outlive a rotation),
\* and no ring of the verifiers has withdrawn the key of what is in hand: the agent's
\* changes only between polls.
SignedOK ==
  /\ \A c \in signed : keyOf[c] = active
  /\ \A c \in krBatch : keyOf[c] # 0 /\ AllRings(keyOf[c])
  /\ krPc # "process" => krBatch = {}

KrInv == KrTypeOK /\ KeysOK /\ SignedOK

\* A ring that holds the active key knows it.
LEMMA PublishedKnows ==
  ASSUME KrInv
  PROVE  /\ active \in Published /\ Published \subseteq Keys
         /\ \A k \in Published : k <= active
         /\ BehindOrKnows(Published, active)
  BY RotationAssumption DEF KrInv, KrTypeOK, KeysOK, Published, BehindOrKnows, Keys

\* The agent is enrolled with the first key.
LEMMA KrInitInv == KrInit => KrInv
  BY RotationAssumption DEF KrInit, KrInv, KrTypeOK, KeysOK, SignedOK, AllRings, BehindOrKnows, Keys

\* Signing: only the command that had no key gets one, the active one.
LEMMA SignInv ==
  ASSUME KrInv, NEW c \in Commands, Sign(c)
  PROVE  KrInv'
  <1>0. UNCHANGED <<active, previous, krPc, ring, disk, krBatch, actuatorRing, outcome>>
    BY DEF Sign
  <1>1. active \in Nat \ {0} /\ keyOf' = [keyOf EXCEPT ![c] = active] /\ signed' = signed \cup {c}
    BY RotationAssumption DEF Sign, KrInv, KrTypeOK, Keys
  <1>2. KrTypeOK'
    BY <1>0, <1>1 DEF KrInv, KrTypeOK
  <1>3. KeysOK'
    BY <1>0 DEF KrInv, KeysOK, AllRings, BehindOrKnows
  <1>4. c \notin krBatch
    BY DEF Sign, KrInv, SignedOK
  <1>5. \A d \in Commands : keyOf'[d] = IF d = c THEN active ELSE keyOf[d]
    BY <1>1 DEF KrInv, KrTypeOK
  <1>6. \A d \in signed' : keyOf'[d] = active'
    BY <1>0, <1>1, <1>5 DEF KrInv, KrTypeOK, SignedOK
  <1>7. ASSUME NEW d \in krBatch' PROVE keyOf'[d] # 0 /\ AllRings(keyOf'[d])
    <2>1. d \in krBatch /\ keyOf'[d] = keyOf[d]
      BY <1>0, <1>4, <1>5 DEF KrInv, KrTypeOK
    <2> QED BY <2>1 DEF KrInv, SignedOK
  <1>8. SignedOK'
    BY <1>0, <1>6, <1>7 DEF KrInv, SignedOK, AllRings, BehindOrKnows
  <1> QED BY <1>2, <1>3, <1>8 DEF KrInv

\* A new key is newer than every key anyone holds; keys taken away are not the active one.
LEMMA RotationInv ==
  ASSUME KrInv, Rotate \/ Retire
  PROVE  KrInv'
  <1>0. UNCHANGED <<keyOf, krPc, ring, disk, krBatch, actuatorRing, outcome>> /\ signed' = {}
    BY DEF Rotate, Retire
  <1>1. SignedOK'
    BY <1>0 DEF KrInv, SignedOK, AllRings, BehindOrKnows
  <1>2. CASE Rotate
    <2>1. active' \in Keys /\ active' = active + 1 /\ previous' = Published
      BY <1>2, RotationAssumption DEF Rotate, KrInv, KrTypeOK, Keys
    <2>2. KrTypeOK'
      BY <1>0, <2>1, PublishedKnows DEF KrInv, KrTypeOK
    <2>3. \A k \in Keys : k <= active => k < active'
      BY <2>1, RotationAssumption DEF KrInv, KrTypeOK, Keys
    <2>4. KeysOK'
      <3>1. \A k \in previous' : k < active'
        BY <2>1, <2>3, PublishedKnows
      <3>2. \A k \in ring \cup disk \cup actuatorRing : k < active'
        BY <2>3 DEF KrInv, KrTypeOK, KeysOK
      <3>3. \A k \in Keys : k < active' => k <= active'
        BY <2>1, RotationAssumption DEF Keys
      <3> QED BY <1>0, <3>1, <3>2, <3>3 DEF KrInv, KrTypeOK, KeysOK, AllRings, BehindOrKnows
    <2> QED BY <1>1, <2>2, <2>4 DEF KrInv
  <1>3. CASE Retire
    <2>1. active' = active /\ previous' \subseteq previous
      BY <1>3 DEF Retire
    <2>2. KrTypeOK'
      BY <1>0, <2>1 DEF KrInv, KrTypeOK
    <2>3. KeysOK'
      BY <1>0, <2>1 DEF KrInv, KeysOK, AllRings, BehindOrKnows
    <2> QED BY <1>1, <2>2, <2>3 DEF KrInv
  <1> QED BY <1>2, <1>3

\* The rings change to what is published, or to one another, only with nothing in hand.
LEMMA RingsInv ==
  ASSUME KrInv, krBatch' = {},
         UNCHANGED <<server, actuatorRing, outcome>>,
         ring' \in {ring, disk, Published}, disk' \in {disk, Published},
         krPc' \in {"refresh", "poll"}
  PROVE  KrInv'
  <1>1. KrTypeOK'
    BY PublishedKnows DEF KrInv, KrTypeOK, server
  <1>2. KeysOK'
    BY PublishedKnows DEF KrInv, KeysOK, AllRings, BehindOrKnows, server
  <1>3. SignedOK'
    BY DEF KrInv, SignedOK, server
  <1> QED BY <1>1, <1>2, <1>3 DEF KrInv

\* A poll takes everything that waits, all of it signed with the active key.
LEMMA PollInv ==
  ASSUME KrInv, Poll
  PROVE  KrInv'
  <1>0. /\ UNCHANGED <<active, previous, keyOf, ring, disk, actuatorRing, outcome>>
        /\ krBatch' = signed /\ signed' = {} /\ krPc' = "process"
    BY DEF Poll
  <1>1. KrTypeOK'
    BY <1>0 DEF KrInv, KrTypeOK
  <1>2. KeysOK'
    BY <1>0 DEF KrInv, KeysOK, AllRings, BehindOrKnows
  <1>3. ASSUME NEW c \in krBatch' PROVE keyOf[c] # 0 /\ AllRings(keyOf[c])
    BY <1>0, RotationAssumption DEF KrInv, KrTypeOK, KeysOK, SignedOK, Keys
  <1>4. SignedOK'
    BY <1>0, <1>3 DEF SignedOK, AllRings, BehindOrKnows
  <1> QED BY <1>1, <1>2, <1>4 DEF KrInv

\* A command is verified twice, the second time against the file or what was read of
\* it before.
LEMMA ProcessInv ==
  ASSUME KrInv, NEW c \in Commands, Process(c)
  PROVE  KrInv'
  <1>0. /\ UNCHANGED <<active, previous, signed, keyOf, krPc, ring, disk>>
        /\ krBatch' \subseteq krBatch /\ krPc = "process"
    BY DEF Process, server
  <1>1. actuatorRing' \in {disk, actuatorRing}
    BY DEF Process, Reloads
  <1>2. outcome' \in [Commands -> {"none", "executed", "refused_by_agent", "refused_by_actuator"}]
    BY DEF Process, KrInv, KrTypeOK
  <1>3. KrTypeOK'
    BY <1>0, <1>1, <1>2 DEF KrInv, KrTypeOK
  <1>4. KeysOK'
    BY <1>0, <1>1 DEF KrInv, KeysOK, AllRings, BehindOrKnows
  <1>5. SignedOK'
    BY <1>0, <1>1 DEF KrInv, SignedOK, AllRings, BehindOrKnows
  <1> QED BY <1>3, <1>4, <1>5 DEF KrInv

\* Every step of the control plane, the operator and the agent keeps the invariant.
LEMMA KrStep == KrInv /\ [KrNext]_krVars => KrInv'
  <1> SUFFICES ASSUME KrInv, [KrNext]_krVars PROVE KrInv'
    OBVIOUS
  <1>1. CASE UNCHANGED krVars
    BY <1>1 DEF krVars, KrInv, KrTypeOK, KeysOK, SignedOK, AllRings, BehindOrKnows
  <1>2. ASSUME NEW p \in BOOLEAN, Refresh(p) PROVE KrInv'
    <2>1. krBatch' = {} /\ krPc' = "poll" /\ UNCHANGED <<server, actuatorRing, outcome>>
      BY <1>2 DEF Refresh, KrInv, SignedOK
    <2>2. ring' \in {ring, disk, Published} /\ disk' \in {disk, Published}
      BY <1>2 DEF Refresh
    <2> QED BY <2>1, <2>2, RingsInv
  <1>3. CASE RefreshFailed \/ PollDone
    <2>1. krBatch' = {} /\ krPc' \in {"poll", "refresh"} /\ UNCHANGED <<server, ring, disk, actuatorRing, outcome>>
      BY <1>3 DEF RefreshFailed, PollDone, KrInv, SignedOK
    <2> QED BY <2>1, RingsInv
  <1>4. CASE AgentRestart
    <2>1. krBatch' = {} /\ krPc' = "refresh" /\ ring' = disk /\ UNCHANGED <<server, disk, actuatorRing, outcome>>
      BY <1>4 DEF AgentRestart
    <2> QED BY <2>1, RingsInv
  <1>5. CASE KrNext
    BY <1>2, <1>3, <1>4, <1>5, SignInv, RotationInv, PollInv, ProcessInv
       DEF KrNext, AgentStep, RefreshPinned, RefreshMemoryOnly
  <1> QED BY <1>1, <1>5

\* Rotation of the signing key: however often it is rotated and old keys retired, no
\* command is refused because its key was withdrawn, only because it is newer than
\* what the verifier has pinned.
THEOREM RotationIsSafe == KrSpec => OnlyNewKeysRefused
  <1> DEFINE A == \A c \in Commands :
       /\ outcome'[c] # outcome[c] /\ outcome'[c] = "refused_by_agent" =>
            \A k \in ring : k < keyOf[c]
       /\ outcome'[c] # outcome[c] /\ outcome'[c] = "refused_by_actuator" =>
            \A k \in actuatorRing' : k < keyOf[c]
  <1>1. KrInv /\ KrNext => A
    <2> SUFFICES ASSUME KrInv, KrNext, NEW c \in Commands, outcome'[c] # outcome[c]
                 PROVE  /\ outcome'[c] = "refused_by_agent" => \A k \in ring : k < keyOf[c]
                        /\ outcome'[c] = "refused_by_actuator" => \A k \in actuatorRing' : k < keyOf[c]
      OBVIOUS
    <2>1. \E d \in Commands : Process(d)
      BY DEF KrNext, AgentStep, Sign, Rotate, Retire, Refresh, RefreshPinned, RefreshMemoryOnly,
             RefreshFailed, Poll, PollDone, AgentRestart
    <2>2. PICK d \in Commands : Process(d)
      BY <2>1
    <2>3. d = c
      BY <2>2 DEF Process, KrInv, KrTypeOK
    <2>4. BehindOrKnows(ring, keyOf[c]) /\ BehindOrKnows(disk, keyOf[c]) /\ BehindOrKnows(actuatorRing, keyOf[c])
      BY <2>2, <2>3 DEF Process, KrInv, SignedOK, AllRings
    <2>5. actuatorRing' \in {disk, actuatorRing}
      BY <2>2 DEF Process, Reloads
    <2>6. BehindOrKnows(actuatorRing', keyOf[c])
      BY <2>4, <2>5
    <2>7. outcome'[c] = "refused_by_agent" => keyOf[c] \notin ring
      BY <2>2, <2>3 DEF Process, KrInv, KrTypeOK
    <2>8. outcome'[c] = "refused_by_actuator" => keyOf[c] \notin actuatorRing'
      BY <2>2, <2>3 DEF Process, KrInv, KrTypeOK
    <2> QED BY <2>4, <2>6, <2>7, <2>8 DEF BehindOrKnows
  <1>2. KrInv /\ [KrNext]_krVars => [A]_krVars
    BY <1>1
  <1>3. KrSpec => [][A]_krVars
    BY <1>2, KrInitInv, KrStep, PTL DEF KrSpec
  <1> QED BY <1>3 DEF OnlyNewKeysRefused

-----------------------------------------------------------------------------
(* Enrollment *)

EnSpec == EnInit /\ [][EnNext]_enVars

EnFiles == {"key", "cert", "ca", "pubkey", "ring"}
Storing == enPc \in {"opening", "writing"}

EnTypeOK ==
  /\ sendsRing \in BOOLEAN
  /\ creds \in [EnFiles -> Int]
  /\ attempt \in 0..MaxAttempts
  /\ enPc \in {"down", "waiting", "opening", "writing", "up"}
  /\ step \in 1..5
  /\ pinned \in BOOLEAN
  /\ requests \in [Attempts -> {"none", "sent", "signed", "refused", "answered"}]
  /\ enrolled \subseteq Attempts
  /\ cut \in BOOLEAN

\* An answer follows the record of the certificate; while an answer is awaited there
\* is no CA certificate, the file that completes an identity.
RequestsOK ==
  /\ \A n \in Attempts : requests[n] = "answered" => n \in enrolled
  /\ enPc = "waiting" => attempt \in Attempts /\ creds["ca"] = Absent

\* While the files are written, the ones before the current one are this attempt's.
StoringOK ==
  Storing =>
    /\ attempt \in Attempts /\ requests[attempt] = "answered"
    /\ step <= LastStep
    /\ step \in {2, 3} => creds["key"] = attempt
    /\ step = 3 => creds["cert"] = attempt
    /\ step < 3 => creds["ca"] = Absent
    /\ step = 3 /\ enPc = "opening" => creds["ca"] = Absent
    /\ step = 5 => creds["pubkey"] > 0

\* The CA certificate is the last of the three, so its presence says all of it.
WholeOK ==
  creds["ca"] # Absent => creds["key"] > 0 /\ creds["key"] = creds["cert"] /\ creds["cert"] \in enrolled

\* The pinned key follows the CA certificate unless a stop came between.
PinnedOK ==
  creds["ca"] # Absent /\ ~cut =>
    /\ ~Storing => creds["pubkey"] > 0
    /\ enPc = "up" => pinned

EnInv == EnTypeOK /\ RequestsOK /\ StoringOK /\ WholeOK /\ PinnedOK

\* An attempt is a positive number.
LEMMA AttemptsType ==
  /\ MaxAttempts \in Nat \ {0}
  /\ \A n \in Attempts : n \in Int /\ n > 0 /\ n # Absent
  BY EnrollmentAssumption DEF Attempts, Absent

\* The order of the files.
LEMMA FilesInOrder ==
  /\ CredentialFiles[1] = "key" /\ CredentialFiles[2] = "cert" /\ CredentialFiles[3] = "ca"
  /\ CredentialFiles[4] = "pubkey" /\ CredentialFiles[5] = "ring"
  BY DEF CredentialFiles

\* An agent that was never enrolled.
LEMMA EnInitInv == EnInit => EnInv
  <1> SUFFICES ASSUME EnInit PROVE EnInv
    OBVIOUS
  <1>1. creds = [f \in EnFiles |-> Absent] /\ Absent \in Int
    BY DEF EnInit, EnFiles, Absent
  <1>2. creds["ca"] = Absent
    BY <1>1 DEF EnFiles
  <1>3. EnTypeOK
    <2>1. creds \in [EnFiles -> Int]
      BY <1>1
    <2>2. attempt \in 0..MaxAttempts /\ step \in 1..5
      BY AttemptsType DEF EnInit
    <2> QED BY <2>1, <2>2 DEF EnInit, EnTypeOK
  <1> QED BY <1>2, <1>3 DEF EnInit, EnInv, RequestsOK, StoringOK, WholeOK, PinnedOK, Storing

\* Without a CA certificate an identity is not complete, and with one it is.
LEMMA CompleteIsCa ==
  ASSUME EnInv
  PROVE  Complete(creds) <=> creds["ca"] # Absent
  BY DEF EnInv, EnTypeOK, WholeOK, Complete, EnFiles, Absent

\* What a single key or a keyring pins.
LEMMA PubkeyPins ==
  ASSUME NEW c \in [EnFiles -> Int], c["pubkey"] > 0
  PROVE  LoadPinned(c)
  BY DEF LoadPinned, EnFiles

\* The agent starts, gives up waiting, or takes an answer: no file changes.
LEMMA AgentControlInv ==
  ASSUME EnInv, UNCHANGED sendsRing, StartReuses \/ StartEnrolls \/ GiveUp \/ ReceiveIdentity
  PROVE  EnInv'
  <1> USE AttemptsType
  <1>0. creds' = creds /\ enrolled' = enrolled /\ cut' = cut /\ LastStep' = LastStep
    BY DEF StartReuses, StartEnrolls, GiveUp, ReceiveIdentity, control, LastStep
  <1>1. CASE StartReuses
    <2>1. enPc' = "up" /\ pinned' = LoadPinned(creds) /\ UNCHANGED <<attempt, step, requests>> /\ enPc = "down"
      BY <1>1 DEF StartReuses, GoOn, control
    <2>2. LoadPinned(creds) \in BOOLEAN
      BY DEF LoadPinned
    <2>3. EnTypeOK'
      BY <1>0, <2>1, <2>2 DEF EnInv, EnTypeOK
    <2>4. PinnedOK'
      BY <1>0, <2>1, PubkeyPins DEF EnInv, EnTypeOK, PinnedOK, Storing
    <2> QED BY <1>0, <2>1, <2>3, <2>4 DEF EnInv, RequestsOK, StoringOK, Storing, WholeOK
  <1>2. CASE StartEnrolls
    <2>1. /\ enPc' = "waiting" /\ UNCHANGED <<step, pinned>> /\ creds["ca"] = Absent
          /\ attempt' = attempt + 1 /\ attempt' \in Attempts
          /\ requests' = [requests EXCEPT ![attempt + 1] = "sent"]
      BY <1>2, CompleteIsCa DEF StartEnrolls, EnInv, EnTypeOK, Attempts
    <2>2. requests' \in [Attempts -> {"none", "sent", "signed", "refused", "answered"}]
      BY <2>1 DEF EnInv, EnTypeOK
    <2>3. EnTypeOK'
      BY <1>0, <2>1, <2>2 DEF EnInv, EnTypeOK, Attempts
    <2>4. RequestsOK'
      BY <1>0, <2>1 DEF EnInv, EnTypeOK, RequestsOK
    <2> QED BY <1>0, <2>1, <2>3, <2>4 DEF EnInv, StoringOK, Storing, WholeOK, PinnedOK
  <1>3. CASE GiveUp
    <2>1. enPc' = "up" /\ pinned' = LoadPinned(creds) /\ UNCHANGED <<attempt, step, requests>> /\ creds["ca"] = Absent
      BY <1>3 DEF GiveUp, GoOn, control, EnInv, RequestsOK
    <2>2. LoadPinned(creds) \in BOOLEAN
      BY DEF LoadPinned
    <2>3. EnTypeOK'
      BY <1>0, <2>1, <2>2 DEF EnInv, EnTypeOK
    <2> QED BY <1>0, <2>1, <2>3 DEF EnInv, RequestsOK, StoringOK, Storing, WholeOK, PinnedOK
  <1>4. CASE ReceiveIdentity
    <2>1. /\ enPc' = "opening" /\ step' = 1 /\ UNCHANGED <<attempt, pinned, requests>>
          /\ creds["ca"] = Absent /\ attempt \in Attempts /\ requests[attempt] = "answered"
      BY <1>4 DEF ReceiveIdentity, control, EnInv, RequestsOK
    <2>2. EnTypeOK'
      BY <1>0, <2>1 DEF EnInv, EnTypeOK
    <2>3. StoringOK'
      BY <1>0, <2>1 DEF StoringOK, LastStep
    <2> QED BY <1>0, <2>1, <2>2, <2>3 DEF EnInv, RequestsOK, Storing, WholeOK, PinnedOK
  <1> QED BY <1>1, <1>2, <1>3, <1>4

\* Opening a file tears it; none of the identity's is opened once the CA file is there.
LEMMA OpenInv ==
  ASSUME EnInv, UNCHANGED sendsRing, OpenCredential
  PROVE  EnInv'
  <1> USE AttemptsType
  <1>0. /\ UNCHANGED <<sendsRing, attempt, step, pinned, requests, enrolled, cut>>
        /\ enPc = "opening" /\ enPc' = "writing" /\ LastStep' = LastStep
        /\ creds' = [creds EXCEPT ![CredentialFiles[step]] = Torn]
    BY DEF OpenCredential, control, LastStep
  <1>1. step \in 1..5 /\ creds \in [EnFiles -> Int] /\ Torn \in Int /\ Torn # Absent
    BY DEF EnInv, EnTypeOK, Torn, Absent
  <1>2. \A f \in EnFiles : creds'[f] = IF f = CredentialFiles[step] THEN Torn ELSE creds[f]
    BY <1>0, <1>1
  <1>3. creds' \in [EnFiles -> Int]
    BY <1>0, <1>1
  <1>4. EnTypeOK'
    BY <1>0, <1>3 DEF EnInv, EnTypeOK
  <1>5. RequestsOK'
    BY <1>0 DEF EnInv, RequestsOK
  <1>6. StoringOK'
    BY <1>0, <1>1, <1>2, FilesInOrder DEF EnInv, StoringOK, Storing, EnFiles
  <1>7. WholeOK'
    <2>1. CASE step < 3
      BY <1>0, <1>1, <1>2, <2>1, FilesInOrder DEF EnInv, StoringOK, Storing, WholeOK, EnFiles
    <2>2. CASE step = 3
      <3>1. creds'["key"] = attempt /\ creds'["cert"] = attempt
        BY <1>0, <1>2, <2>2, FilesInOrder DEF EnInv, StoringOK, Storing, EnFiles
      <3>2. attempt \in enrolled /\ attempt > 0
        BY <1>0 DEF EnInv, StoringOK, Storing, RequestsOK
      <3> QED BY <1>0, <3>1, <3>2 DEF WholeOK
    <2>3. CASE step > 3
      BY <1>0, <1>1, <1>2, <2>3, FilesInOrder DEF EnInv, WholeOK, EnFiles
    <2> QED BY <1>1, <2>1, <2>2, <2>3
  <1>8. PinnedOK'
    BY <1>0 DEF PinnedOK, Storing
  <1> QED BY <1>4, <1>5, <1>6, <1>7, <1>8 DEF EnInv

\* Writing a file: the next one is opened, or the agent goes on with what it has.
LEMMA WriteInv ==
  ASSUME EnInv, UNCHANGED sendsRing, WriteCredential
  PROVE  EnInv'
  <1> USE AttemptsType
  <1>0. /\ UNCHANGED <<sendsRing, attempt, requests, enrolled, cut>>
        /\ enPc = "writing" /\ LastStep' = LastStep
        /\ creds' = [creds EXCEPT ![CredentialFiles[step]] = attempt]
    BY DEF WriteCredential, control, LastStep
  <1>1. /\ step \in 1..5 /\ creds \in [EnFiles -> Int] /\ attempt \in Attempts /\ attempt \in enrolled
        /\ step <= LastStep /\ LastStep \in {4, 5} /\ requests[attempt] = "answered"
    BY <1>0 DEF EnInv, EnTypeOK, StoringOK, Storing, RequestsOK, LastStep
  <1>2. \A f \in EnFiles : creds'[f] = IF f = CredentialFiles[step] THEN attempt ELSE creds[f]
    BY <1>0, <1>1
  <1>3. creds' \in [EnFiles -> Int]
    BY <1>0, <1>1
  <1>4. /\ step = LastStep => enPc' = "up" /\ step' = step /\ pinned' = LoadPinned(creds')
        /\ step # LastStep => enPc' = "opening" /\ step' = step + 1 /\ pinned' = pinned
    BY DEF WriteCredential, GoOn
  <1>5. EnTypeOK'
    <2>1. LoadPinned(creds') \in BOOLEAN
      BY DEF LoadPinned
    <2> QED BY <1>0, <1>1, <1>3, <1>4, <2>1 DEF EnInv, EnTypeOK
  <1>6. RequestsOK'
    BY <1>0, <1>4 DEF EnInv, RequestsOK
  <1>7. StoringOK'
    BY <1>0, <1>1, <1>2, <1>4, FilesInOrder DEF EnInv, StoringOK, Storing, EnFiles
  <1>8. WholeOK'
    <2>1. CASE step < 3
      BY <1>0, <1>1, <1>2, <2>1, FilesInOrder DEF EnInv, StoringOK, Storing, WholeOK, EnFiles
    <2>2. CASE step = 3
      <3>1. creds'["key"] = attempt /\ creds'["cert"] = attempt
        BY <1>0, <1>2, <2>2, FilesInOrder DEF EnInv, StoringOK, Storing, EnFiles
      <3> QED BY <1>0, <1>1, <3>1 DEF WholeOK
    <2>3. CASE step > 3
      BY <1>0, <1>1, <1>2, <2>3, FilesInOrder DEF EnInv, WholeOK, EnFiles
    <2> QED BY <1>1, <2>1, <2>2, <2>3
  <1>9. PinnedOK'
    <2>1. CASE step = LastStep
      <3>1. creds'["pubkey"] > 0
        BY <1>0, <1>1, <1>2, <2>1, FilesInOrder DEF EnInv, StoringOK, Storing, EnFiles
      <3>2. LoadPinned(creds')
        BY <1>3, <3>1, PubkeyPins
      <3> QED BY <1>4, <2>1, <3>1, <3>2 DEF PinnedOK
    <2>2. CASE step # LastStep
      BY <1>4, <2>2 DEF PinnedOK, Storing
    <2> QED BY <2>1, <2>2
  <1> QED BY <1>5, <1>6, <1>7, <1>8, <1>9 DEF EnInv

\* A failed write and a crash: the files stay as they are, and a stop that leaves no
\* pinned key behind the CA certificate is noted.
LEMMA StopInv ==
  ASSUME EnInv, UNCHANGED sendsRing, CredentialFails \/ EnCrash
  PROVE  EnInv'
  <1>0. UNCHANGED <<sendsRing, creds, attempt, step, requests, enrolled>> /\ LastStep' = LastStep
    BY DEF CredentialFails, EnCrash, control, LastStep
  <1>1. \/ enPc' = "up" /\ pinned' = LoadPinned(creds) /\ Storing
        \/ enPc' = "down" /\ pinned' = FALSE
    BY DEF CredentialFails, EnCrash, GoOn, Storing
  <1>2. cut' = IF Storing THEN cut \/ (creds["ca"] # Absent /\ creds["pubkey"] <= 0) ELSE cut
    BY DEF CredentialFails, EnCrash, Interrupts, Storing
  <1>3. EnTypeOK'
    <2>1. LoadPinned(creds) \in BOOLEAN
      BY DEF LoadPinned
    <2> QED BY <1>0, <1>1, <1>2, <2>1 DEF EnInv, EnTypeOK
  <1>4. PinnedOK'
    <2> SUFFICES ASSUME creds["ca"] # Absent, ~cut' PROVE creds["pubkey"] > 0 /\ (enPc' = "up" => pinned')
      BY <1>0, <1>1 DEF PinnedOK
    <2>1. creds["pubkey"] > 0
      <3>1. creds["pubkey"] \in Int
        BY DEF EnInv, EnTypeOK, EnFiles
      <3>2. CASE Storing
        <4>1. ~(creds["pubkey"] <= 0)
          BY <1>2, <3>2
        <4> QED BY <3>1, <4>1
      <3>3. CASE ~Storing
        BY <1>2, <3>3 DEF EnInv, PinnedOK
      <3> QED BY <3>2, <3>3
    <2> QED BY <1>1, <2>1, PubkeyPins DEF EnInv, EnTypeOK
  <1> QED BY <1>0, <1>1, <1>3, <1>4 DEF EnInv, RequestsOK, StoringOK, Storing, WholeOK

\* The keyring file is none of the identity's.
LEMMA PersistInv ==
  ASSUME EnInv, UNCHANGED sendsRing, PersistKeyring
  PROVE  EnInv'
  <1>0. /\ UNCHANGED <<sendsRing, attempt, enPc, step, pinned, requests, enrolled, cut>>
        /\ LastStep' = LastStep /\ ~Storing
        /\ creds' = [creds EXCEPT !["ring"] = Refreshed]
    BY DEF PersistKeyring, control, LastStep, Storing
  <1>1. creds \in [EnFiles -> Int] /\ Refreshed \in Int
    BY AttemptsType DEF EnInv, EnTypeOK, Refreshed
  <1>2. creds' \in [EnFiles -> Int] /\ \A f \in EnFiles \ {"ring"} : creds'[f] = creds[f]
    BY <1>0, <1>1
  <1>3. /\ creds'["ca"] = creds["ca"] /\ creds'["key"] = creds["key"]
        /\ creds'["cert"] = creds["cert"] /\ creds'["pubkey"] = creds["pubkey"]
    BY <1>2 DEF EnFiles
  <1> QED BY <1>0, <1>2, <1>3 DEF EnInv, EnTypeOK, RequestsOK, StoringOK, Storing, WholeOK, PinnedOK

\* The control plane: an answer is given after the certificate is recorded, and never
\* taken back.
LEMMA ControlPlaneInv ==
  ASSUME EnInv, UNCHANGED <<sendsRing, creds, attempt, enPc, step, pinned, cut>>,
         NEW n \in Attempts, Refuse(n) \/ SignCsr(n) \/ RecordCertificate(n)
  PROVE  EnInv'
  <1>1. /\ requests' \in [Attempts -> {"none", "sent", "signed", "refused", "answered"}]
        /\ enrolled' \subseteq Attempts /\ enrolled \subseteq enrolled'
        /\ \A m \in Attempts : requests[m] = "answered" => requests'[m] = "answered"
        /\ \A m \in Attempts : requests'[m] = "answered" => m \in enrolled' \/ requests[m] = "answered"
    BY DEF Refuse, SignCsr, RecordCertificate, Answer, EnInv, EnTypeOK
  <1>2. EnTypeOK'
    BY <1>1 DEF EnInv, EnTypeOK
  <1>3. RequestsOK'
    BY <1>1 DEF EnInv, RequestsOK
  <1>4. StoringOK'
    BY <1>1 DEF EnInv, StoringOK, Storing, LastStep
  <1>5. WholeOK' /\ PinnedOK'
    BY <1>1 DEF EnInv, WholeOK, PinnedOK, Storing
  <1> QED BY <1>2, <1>3, <1>4, <1>5 DEF EnInv

\* Every step of the agent and the control plane keeps the invariant.
LEMMA EnStep == EnInv /\ [EnNext]_enVars => EnInv'
  <1> SUFFICES ASSUME EnInv, [EnNext]_enVars PROVE EnInv'
    OBVIOUS
  <1>1. CASE UNCHANGED enVars
    BY <1>1 DEF enVars, EnInv, EnTypeOK, RequestsOK, StoringOK, Storing, WholeOK, PinnedOK, LastStep
  <1>2. CASE EnNext
    BY <1>2, AgentControlInv, OpenInv, WriteInv, StopInv, PersistInv, ControlPlaneInv DEF EnNext
  <1> QED BY <1>1, <1>2

\* Enrollment survives being interrupted anywhere: an identity that is found complete is
\* whole and recorded, and the agent that has one can pull commands unless a stop fell
\* between the CA certificate and the pinned key. For any number of attempts.
THEOREM EnrollmentIsSafe == EnSpec => []EnrollmentHolds
  <1>1. EnInv => EnrollmentHolds
    BY CompleteIsCa DEF EnInv, WholeOK, PinnedOK, EnrollmentHolds, IdentityIsWhole, EnrolledCanPull
  <1> QED BY <1>1, EnInitInv, EnStep, PTL DEF EnSpec

-----------------------------------------------------------------------------
(* DigestWindow *)

DgSpec == DgInit /\ [][DgNext]_dgVars

Fates == {"published", "buffered", "lost"}

(***************************************************************************)
(* The inductive invariant. PlacesOK needs that no number beyond the last  *)
(* detected one is anywhere (EventsOK), so that a new event starts in no   *)
(* place; a digest is never empty nor too long because a window in hand is *)
(* neither (WindowOK); and a heartbeat that saw a detection saw a publish  *)
(* (BeatsOK).                                                              *)
(***************************************************************************)
DgTypeOK ==
  /\ severity \in Seq(Nat) /\ \A e \in DOMAIN severity : severity[e] <= MaxSeverity
  /\ accumulator \in Seq(Nat) /\ window \in Seq(Nat)
  /\ explaining \in {"idle", "asking", "publishing"}
  /\ digests \in Seq([events : Seq(Nat), severity : Nat, fate : Fates])
  /\ published \in Nat /\ seenOk \in BOOLEAN
  /\ beats \in Seq([count : Nat, detected : BOOLEAN])

\* The digests an event is in.
ToldIn(e) == {i \in DOMAIN digests : e \in Range(digests[i].events)}

EventsOK ==
  /\ Range(accumulator) \cup Range(window) \cup overflowed \cup forgotten \subseteq DOMAIN severity
  /\ \A i \in DOMAIN digests : Range(digests[i].events) \subseteq DOMAIN severity

WindowOK ==
  /\ Len(accumulator) <= WindowCap /\ Len(window) <= WindowCap
  /\ explaining = "idle" <=> window = <<>>

PlacesOK == \A e \in DOMAIN severity : Places(e) = IF severity[e] >= MinSeverity THEN 1 ELSE 0

MildnessOK ==
  \A i \in DOMAIN digests :
    /\ Len(digests[i].events) \in 1..WindowCap
    /\ \A e \in Range(digests[i].events) : severity[e] <= digests[i].severity

BeatsOK == BeatsAreMonotone /\ (seenOk => published > 0)

DgInv == DgTypeOK /\ EventsOK /\ WindowOK /\ PlacesOK /\ MildnessOK /\ BeatsOK

One(b) == IF b THEN 1 ELSE 0

\* The sum of Places, by its terms.
LEMMA PlacesSum ==
  ASSUME NEW e
  PROVE  Places(e) = One(e \in Range(accumulator)) + One(e \in Range(window)) +
                     One(e \in overflowed) + One(e \in forgotten) + Cardinality(ToldIn(e))
BY DEF Places, One, ToldIn

LEMMA ToldInFinite ==
  ASSUME DgTypeOK, NEW e
  PROVE  IsFiniteSet(ToldIn(e)) /\ Cardinality(ToldIn(e)) \in Nat
<1>1. Len(digests) \in Nat /\ DOMAIN digests = 1..Len(digests)
  BY LenProperties DEF DgTypeOK
<1>2. IsFiniteSet(DOMAIN digests)
  BY <1>1, FS_Interval
<1>3. ToldIn(e) \in SUBSET DOMAIN digests
  BY DEF ToldIn
<1> QED BY <1>2, <1>3, FS_Subset, FS_CardinalityType

\* A bounded set of numbers has a greatest one.
LEMMA MaxIsTop ==
  ASSUME NEW n \in Nat, NEW S, S \subseteq 0..n, S # {}
  PROVE  Max(S) \in S /\ \A y \in S : y <= Max(S)
<1> DEFINE R == OpToRel(<, Nat)
           T == {n - x : x \in S}
<1>1. IsWellFoundedOn(R, Nat)
  BY NatLessThanWellFounded
<1>2. T \subseteq Nat /\ T # {}
  <2>1. \A x \in S : n - x \in Nat
    OBVIOUS
  <2> QED BY <2>1
<1>3. \A y \in Nat, z \in Nat : <<y, z>> \in R <=> y < z
  BY DEF OpToRel
<1> HIDE DEF R
<1>4. PICK t \in T : \A u \in T : ~(<<u, t>> \in R)
  BY <1>1, <1>2, WFMin
<1>5. PICK x \in S : t = n - x
  BY <1>4
<1>6. ASSUME NEW y \in S PROVE x >= y
  <2>1. n - y \in T /\ n - y \in Nat /\ t \in Nat /\ x \in Nat /\ y \in Nat
    BY <1>2, <1>5
  <2>2. ~(n - y < t)
    BY <1>3, <1>4, <2>1
  <2> QED BY <1>5, <2>1, <2>2
<1>7. Max(S) \in S /\ \A y \in S : Max(S) >= y
  <2>1. \E z \in S : \A y \in S : z >= y
    BY <1>6
  <2> QED BY <2>1 DEF Max
<1>8. ASSUME NEW y \in S PROVE y <= Max(S)
  <2>1. Max(S) >= y /\ Max(S) \in 0..n /\ y \in 0..n
    BY <1>7
  <2> QED BY <2>1
<1> QED BY <1>7, <1>8

LEMMA DgInitInv == DgInit => DgInv
<1> SUFFICES ASSUME DgInit PROVE DgInv
  OBVIOUS
<1> USE DEF DgInit
<1>1. DgTypeOK
  <2>1. severity \in Seq(Nat) /\ accumulator \in Seq(Nat) /\ window \in Seq(Nat) /\ DOMAIN severity = {}
    OBVIOUS
  <2>2. /\ digests \in Seq([events : Seq(Nat), severity : Nat, fate : Fates])
        /\ beats \in Seq([count : Nat, detected : BOOLEAN])
    BY EmptySeq
  <2> QED BY <2>1, <2>2 DEF DgTypeOK
<1>2. EventsOK /\ PlacesOK /\ MildnessOK
  BY DEF EventsOK, PlacesOK, MildnessOK, Range
<1>3. WindowOK /\ BeatsOK
  BY DigestAssumption DEF WindowOK, BeatsOK, BeatsAreMonotone
<1> QED BY <1>1, <1>2, <1>3 DEF DgInv

\* What an append adds to a range.
LEMMA AppendRange ==
  ASSUME NEW T, NEW s \in Seq(T), NEW x \in T
  PROVE  /\ Append(s, x) \in Seq(T) /\ Len(Append(s, x)) = Len(s) + 1
         /\ DOMAIN Append(s, x) = DOMAIN s \cup {Len(s) + 1}
         /\ \A i \in DOMAIN s : Append(s, x)[i] = s[i] /\ i # Len(s) + 1
         /\ Append(s, x)[Len(s) + 1] = x
         /\ Range(Append(s, x)) = Range(s) \cup {x}
<1>1. /\ Append(s, x) \in Seq(T) /\ Len(Append(s, x)) = Len(s) + 1 /\ Len(s) \in Nat
      /\ \A i \in 1..Len(s) : Append(s, x)[i] = s[i]
      /\ Append(s, x)[Len(s) + 1] = x
  BY AppendProperties, LenProperties
<1>2. DOMAIN s = 1..Len(s) /\ DOMAIN Append(s, x) = 1..(Len(s) + 1)
  BY <1>1, LenProperties
<1>3. DOMAIN Append(s, x) = DOMAIN s \cup {Len(s) + 1}
  BY <1>1, <1>2
<1>4. \A i \in DOMAIN s : Append(s, x)[i] = s[i] /\ i # Len(s) + 1
  BY <1>1, <1>2
<1>5. Range(Append(s, x)) = Range(s) \cup {x}
  BY <1>1, <1>3, <1>4 DEF Range
<1> QED BY <1>1, <1>3, <1>4, <1>5

\* A number that is not an event is nowhere.
LEMMA NowhereYet ==
  ASSUME DgTypeOK, EventsOK, NEW e, e \notin DOMAIN severity
  PROVE  /\ e \notin Range(accumulator) /\ e \notin Range(window)
         /\ e \notin overflowed /\ e \notin forgotten /\ ToldIn(e) = {}
BY DEF EventsOK, ToldIn

LEMMA DgReceiveInv ==
  ASSUME DgInv, NEW s \in 0..MaxSeverity, DgReceive(s) PROVE DgInv'
<1>0. DgTypeOK /\ EventsOK /\ WindowOK /\ PlacesOK /\ MildnessOK /\ BeatsOK
  BY DEF DgInv
<1>a. WindowCap \in Nat /\ MinSeverity \in Nat /\ MaxSeverity \in Nat
  BY DigestAssumption
<1> DEFINE e == Len(severity) + 1
<1>1. /\ severity' = Append(severity, s)
      /\ UNCHANGED <<window, explaining, digests, forgotten, published, seenOk, beats, crashes>>
      /\ \/ s < MinSeverity /\ UNCHANGED <<accumulator, overflowed>>
         \/ /\ s >= MinSeverity /\ Len(accumulator) < WindowCap
            /\ accumulator' = Append(accumulator, e) /\ UNCHANGED overflowed
         \/ /\ s >= MinSeverity /\ Len(accumulator) >= WindowCap
            /\ overflowed' = overflowed \cup {e} /\ UNCHANGED accumulator
  BY DEF DgReceive
<1>2. /\ severity' \in Seq(Nat) /\ DOMAIN severity' = DOMAIN severity \cup {e}
      /\ \A d \in DOMAIN severity : severity'[d] = severity[d] /\ d # e
      /\ severity'[e] = s /\ e \in Nat
  <2>1. severity \in Seq(Nat) /\ s \in Nat /\ Len(severity) \in Nat
    BY <1>0, <1>a, LenProperties DEF DgTypeOK
  <2> QED BY <1>1, <2>1, AppendRange
<1>3. /\ accumulator' \in Seq(Nat) /\ Len(accumulator') <= WindowCap
      /\ (Range(accumulator'))
           = IF accumulator' = accumulator THEN Range(accumulator) ELSE Range(accumulator) \cup {e}
      /\ accumulator' # accumulator => accumulator' = Append(accumulator, e)
  <2>1. accumulator \in Seq(Nat) /\ Len(accumulator) \in Nat /\ Len(accumulator) <= WindowCap
    BY <1>0, LenProperties DEF DgTypeOK, WindowOK
  <2>2. /\ Append(accumulator, e) \in Seq(Nat) /\ Len(Append(accumulator, e)) = Len(accumulator) + 1
        /\ Range(Append(accumulator, e)) = Range(accumulator) \cup {e}
    BY <1>2, <2>1, AppendRange
  <2>3. CASE accumulator' = accumulator
    BY <2>1, <2>3
  <2>4. CASE accumulator' = Append(accumulator, e) /\ Len(accumulator) < WindowCap
    <3>1. accumulator' # accumulator
      BY <2>1, <2>2, <2>4
    <3>2. Len(accumulator') <= WindowCap
      BY <2>1, <2>2, <2>4, <1>a
    <3> QED BY <2>2, <2>4, <3>1, <3>2
  <2> QED BY <2>3, <2>4, <1>1
<1>4. DgTypeOK'
  <2>1. \A d \in DOMAIN severity' : severity'[d] <= MaxSeverity
    BY <1>0, <1>2, <1>a DEF DgTypeOK
  <2> QED BY <1>0, <1>1, <1>2, <1>3, <2>1 DEF DgTypeOK
<1>5. EventsOK'
  BY <1>0, <1>1, <1>2, <1>3 DEF EventsOK
<1>6. WindowOK'
  BY <1>0, <1>1, <1>3 DEF WindowOK
<1>7. MildnessOK'
  <2>1. \A i \in DOMAIN digests : \A d \in Range(digests[i].events) : severity'[d] = severity[d]
    BY <1>0, <1>2 DEF EventsOK
  <2> QED BY <1>0, <1>1, <2>1 DEF MildnessOK
<1>8. BeatsOK'
  BY <1>0, <1>1 DEF BeatsOK, BeatsAreMonotone
<1>9. PlacesOK'
  <2> SUFFICES ASSUME NEW d \in DOMAIN severity'
               PROVE  Places(d)' = IF severity'[d] >= MinSeverity THEN 1 ELSE 0
    BY DEF PlacesOK
  <2>1. ToldIn(d)' = ToldIn(d)
    BY <1>1 DEF ToldIn
  <2>2. Places(d)' = One(d \in Range(accumulator')) + One(d \in Range(window')) +
                     One(d \in overflowed') + One(d \in forgotten') + Cardinality(ToldIn(d)')
    BY DEF Places, One, ToldIn
  <2>3. CASE d = e
    <3>1. e \notin DOMAIN severity
      BY <1>2
    <3>2. /\ e \notin Range(accumulator) /\ e \notin Range(window)
          /\ e \notin overflowed /\ e \notin forgotten /\ ToldIn(e) = {}
      BY <1>0, <3>1, NowhereYet
    <3>3. Cardinality(ToldIn(d)') = 0
      BY <2>1, <2>3, <3>2, FS_EmptySet
    <3>4. CASE s < MinSeverity
      <4>1. UNCHANGED <<accumulator, overflowed>>
        BY <1>1, <3>4, <1>a
      <4> QED BY <1>1, <1>2, <2>2, <2>3, <3>2, <3>3, <3>4, <4>1, <1>a DEF One
    <3>5. CASE s >= MinSeverity
      <4>1. CASE accumulator' = Append(accumulator, e) /\ UNCHANGED overflowed
        <5>1. accumulator' # accumulator
          <6>1. Len(accumulator') = Len(accumulator) + 1 /\ Len(accumulator) \in Nat
            BY <1>0, <1>2, <4>1, AppendProperties, LenProperties DEF DgTypeOK
          <6> QED BY <6>1
        <5>2. e \in Range(accumulator')
          BY <1>3, <5>1
        <5> QED BY <1>1, <1>2, <2>2, <2>3, <3>2, <3>3, <3>5, <4>1, <5>2 DEF One
      <4>2. CASE UNCHANGED accumulator /\ overflowed' = overflowed \cup {e}
        BY <1>1, <1>2, <2>2, <2>3, <3>2, <3>3, <3>5, <4>2 DEF One
      <4> QED BY <1>1, <3>5, <4>1, <4>2, <1>a
    <3> QED BY <3>4, <3>5, <1>a
  <2>4. CASE d # e
    <3>1. d \in DOMAIN severity /\ severity'[d] = severity[d]
      BY <1>2, <2>4
    <3>2. Places(d) = IF severity[d] >= MinSeverity THEN 1 ELSE 0
      BY <1>0, <3>1 DEF PlacesOK
    <3>3. d \in Range(accumulator') <=> d \in Range(accumulator)
      BY <1>3, <2>4
    <3>4. d \in overflowed' <=> d \in overflowed
      BY <1>1, <2>4
    <3> QED BY <1>1, <2>1, <2>2, <3>1, <3>2, <3>3, <3>4, PlacesSum DEF One
  <2> QED BY <2>3, <2>4
<1> QED BY <1>4, <1>5, <1>6, <1>7, <1>8, <1>9 DEF DgInv
\* A step that moves no event between places.
LEMMA SamePlaces ==
  ASSUME DgInv, UNCHANGED <<severity, accumulator, window, digests, overflowed, forgotten>>
  PROVE  EventsOK' /\ PlacesOK' /\ MildnessOK'
<1>1. \A e : Places(e)' = Places(e)
  BY DEF Places
<1> QED BY <1>1 DEF DgInv, EventsOK, PlacesOK, MildnessOK

LEMMA BeatCounts == ASSUME DgTypeOK PROVE \A i \in DOMAIN beats : beats[i].count \in Nat
<1>1. beats \in Seq([count : Nat, detected : BOOLEAN]) /\ DOMAIN beats = 1..Len(beats)
  BY LenProperties DEF DgTypeOK
<1>2. \A i \in DOMAIN beats : beats[i] \in [count : Nat, detected : BOOLEAN]
  BY <1>1, ElementOfSeq
<1> QED BY <1>2

LEMMA BareInv == ASSUME DgInv, BarePublished \/ BareNotPublished PROVE DgInv'
<1>1. EventsOK' /\ PlacesOK' /\ MildnessOK'
  BY SamePlaces DEF BarePublished, BareNotPublished
<1>2. /\ published' \in Nat /\ published' >= published /\ seenOk' \in BOOLEAN
      /\ seenOk' => published' > 0
      /\ UNCHANGED <<severity, accumulator, window, explaining, digests, beats>>
  <2>1. published \in Nat /\ seenOk \in BOOLEAN /\ (seenOk => published > 0)
    BY DEF DgInv, DgTypeOK, BeatsOK
  <2>2. CASE BarePublished
    BY <2>1, <2>2 DEF BarePublished
  <2>3. CASE BareNotPublished
    BY <2>1, <2>3 DEF BareNotPublished
  <2> QED BY <2>2, <2>3
<1>3. DgTypeOK' /\ WindowOK'
  BY <1>2 DEF DgInv, DgTypeOK, WindowOK
<1>4. BeatsOK'
  <2>1. \A i \in DOMAIN beats : beats[i].count \in Nat
    BY BeatCounts DEF DgInv
  <2> QED BY <1>2, <2>1 DEF DgInv, DgTypeOK, BeatsOK, BeatsAreMonotone
<1> QED BY <1>1, <1>3, <1>4 DEF DgInv

\* The accumulator changes hands: what was in it is in the window.
LEMMA TakeWindowInv == ASSUME DgInv, TakeWindow PROVE DgInv'
<1>0. DgTypeOK /\ EventsOK /\ WindowOK /\ PlacesOK /\ MildnessOK /\ BeatsOK
  BY DEF DgInv
<1>1. /\ window' = accumulator /\ accumulator' = <<>> /\ accumulator # <<>> /\ window = <<>>
      /\ explaining' = "asking"
      /\ UNCHANGED <<severity, digests, overflowed, forgotten, published, seenOk, beats>>
  BY <1>0 DEF TakeWindow, WindowOK
<1>2. Range(window) = {} /\ Range(accumulator') = {} /\ Range(window') = Range(accumulator)
  BY <1>1 DEF Range
<1>3. DgTypeOK' /\ MildnessOK' /\ BeatsOK'
  BY <1>0, <1>1 DEF DgTypeOK, MildnessOK, BeatsOK, BeatsAreMonotone
<1>4. WindowOK'
  BY <1>0, <1>1, DigestAssumption DEF WindowOK
<1>5. EventsOK'
  BY <1>0, <1>1, <1>2 DEF EventsOK
<1>6. ASSUME NEW e PROVE Places(e)' = Places(e)
  <2>1. Cardinality(ToldIn(e)) \in Nat /\ ToldIn(e)' = ToldIn(e)
    BY <1>0, <1>1, ToldInFinite DEF ToldIn
  <2>2. Places(e)' = One(e \in Range(accumulator')) + One(e \in Range(window')) +
                     One(e \in overflowed') + One(e \in forgotten') + Cardinality(ToldIn(e)')
    BY DEF Places, One, ToldIn
  <2> QED BY <1>1, <1>2, <2>1, <2>2, PlacesSum DEF One
<1>7. PlacesOK'
  BY <1>0, <1>1, <1>6 DEF PlacesOK
<1> QED BY <1>3, <1>4, <1>5, <1>7 DEF DgInv

LEMMA ExplainedInv == ASSUME DgInv, Explained PROVE DgInv'
<1>1. EventsOK' /\ PlacesOK' /\ MildnessOK'
  BY SamePlaces DEF Explained
<1> QED BY <1>1 DEF Explained, DgInv, DgTypeOK, WindowOK, BeatsOK, BeatsAreMonotone

\* The window goes into one digest, which is as severe as the worst of it.
LEMMA PublishDigestInv ==
  ASSUME DgInv, NEW fate \in Fates, PublishDigest(fate) PROVE DgInv'
<1>0. DgTypeOK /\ EventsOK /\ WindowOK /\ PlacesOK /\ MildnessOK /\ BeatsOK
  BY DEF DgInv
<1>a. WindowCap \in Nat /\ MaxSeverity \in Nat /\ MinSeverity \in Nat
  BY DigestAssumption
<1> DEFINE D == [events : Seq(Nat), severity : Nat, fate : Fates]
           S == {severity[window[i]] : i \in DOMAIN window}
<1>1. /\ explaining = "publishing" /\ explaining' = "idle" /\ window' = <<>>
      /\ UNCHANGED <<severity, accumulator, overflowed, forgotten, seenOk, beats>>
      /\ published' \in Nat /\ published' >= published
  BY <1>0 DEF PublishDigest, DgTypeOK
<1>2. /\ window \in Seq(Nat) /\ Len(window) \in 1..WindowCap
      /\ DOMAIN window = 1..Len(window) /\ Range(window) \subseteq DOMAIN severity
  <2>1. window \in Seq(Nat) /\ window # <<>> /\ Len(window) <= WindowCap
    BY <1>0, <1>1 DEF DgTypeOK, WindowOK
  <2>2. Len(window) \in Nat /\ Len(window) # 0 /\ DOMAIN window = 1..Len(window)
    BY <2>1, EmptySeq, LenProperties
  <2> QED BY <1>0, <1>a, <2>1, <2>2 DEF EventsOK
<1>3. S \subseteq 0..MaxSeverity /\ S # {}
  <2>1. \A i \in DOMAIN window : window[i] \in DOMAIN severity
    BY <1>2 DEF Range
  <2>2. \A e \in DOMAIN severity : severity[e] \in 0..MaxSeverity
    <3>1. \A e \in DOMAIN severity : severity[e] \in Nat
      BY <1>0, LenProperties DEF DgTypeOK
    <3> QED BY <1>0, <3>1, <1>a DEF DgTypeOK
  <2> QED BY <1>2, <2>1, <2>2
<1>4. Max(S) \in Nat /\ \A y \in S : y <= Max(S)
  <2>1. Max(S) \in S /\ \A y \in S : y <= Max(S)
    BY <1>3, <1>a, MaxIsTop
  <2> QED BY <1>3, <2>1
<1>5. PICK b : b = BuildDigest(fate)
  OBVIOUS
<1>6. b \in D /\ b.events = window /\ b.severity = Max(S)
  BY <1>2, <1>4, <1>5 DEF BuildDigest
<1>7. /\ digests' \in Seq(D) /\ DOMAIN digests' = DOMAIN digests \cup {Len(digests) + 1}
      /\ \A i \in DOMAIN digests : digests'[i] = digests[i] /\ i # Len(digests) + 1
      /\ digests'[Len(digests) + 1] = b
  <2>1. digests \in Seq(D) /\ digests' = Append(digests, b)
    BY <1>0, <1>5 DEF DgTypeOK, PublishDigest
  <2> HIDE DEF D
  <2> QED BY <1>6, <2>1, AppendRange
<1> HIDE DEF D
<1>8. Range(window') = {}
  BY <1>1 DEF Range
<1>9. DgTypeOK'
  BY <1>0, <1>1, <1>7 DEF DgTypeOK, D
<1>10. EventsOK'
  BY <1>0, <1>1, <1>2, <1>6, <1>7, <1>8 DEF EventsOK
<1>11. WindowOK'
  BY <1>0, <1>1, <1>a DEF WindowOK
<1>12. MildnessOK'
  <2> SUFFICES ASSUME NEW i \in DOMAIN digests'
               PROVE  /\ Len(digests'[i].events) \in 1..WindowCap
                      /\ \A e \in Range(digests'[i].events) : severity'[e] <= digests'[i].severity
    BY DEF MildnessOK
  <2>1. CASE i \in DOMAIN digests
    BY <1>0, <1>1, <1>7, <2>1 DEF MildnessOK
  <2>2. CASE i = Len(digests) + 1
    <3>1. digests'[i].events = window /\ digests'[i].severity = Max(S)
      BY <1>6, <1>7, <2>2
    <3>2. \A e \in Range(window) : severity[e] \in S
      BY DEF Range
    <3> HIDE DEF S
    <3> QED BY <1>1, <1>2, <1>4, <3>1, <3>2
  <2> QED BY <1>7, <2>1, <2>2
<1>13. BeatsOK'
  <2>1. \A i \in DOMAIN beats : beats[i].count \in Nat
    BY <1>0, BeatCounts
  <2>2. published \in Nat
    BY <1>0 DEF DgTypeOK
  <2> QED BY <1>0, <1>1, <2>1, <2>2 DEF BeatsOK, BeatsAreMonotone
<1>14. PlacesOK'
  <2> SUFFICES ASSUME NEW e \in DOMAIN severity PROVE Places(e)' = Places(e)
    BY <1>0, <1>1 DEF PlacesOK
  <2>1. Places(e)' = One(e \in Range(accumulator')) + One(e \in Range(window')) +
                     One(e \in overflowed') + One(e \in forgotten') + Cardinality(ToldIn(e)')
    BY DEF Places, One, ToldIn
  <2>2. IsFiniteSet(ToldIn(e)) /\ Cardinality(ToldIn(e)) \in Nat
    BY <1>0, ToldInFinite
  <2>3. Len(digests) + 1 \notin ToldIn(e)
    BY <1>7 DEF ToldIn
  <2>4. ToldIn(e)' = IF e \in Range(window) THEN ToldIn(e) \cup {Len(digests) + 1} ELSE ToldIn(e)
    <3>1. ToldIn(e)' = {i \in DOMAIN digests' : e \in Range(digests'[i].events)}
      BY DEF ToldIn
    <3> QED BY <1>6, <1>7, <3>1 DEF ToldIn
  <2>5. Cardinality(ToldIn(e)') = Cardinality(ToldIn(e)) + One(e \in Range(window))
    <3>1. CASE e \in Range(window)
      <4>1. Cardinality(ToldIn(e) \cup {Len(digests) + 1}) = Cardinality(ToldIn(e)) + 1
        BY <2>2, <2>3, FS_AddElement
      <4> QED BY <2>4, <3>1, <4>1 DEF One
    <3>2. CASE e \notin Range(window)
      BY <2>2, <2>4, <3>2 DEF One
    <3> QED BY <3>1, <3>2
  <2> QED BY <1>1, <1>8, <2>1, <2>2, <2>5, PlacesSum DEF One
<1> QED BY <1>9, <1>10, <1>11, <1>12, <1>13, <1>14 DEF DgInv

LEMMA HeartbeatInv == ASSUME DgInv, SendHeartbeat PROVE DgInv'
<1>0. DgTypeOK /\ WindowOK /\ BeatsOK
  BY DEF DgInv
<1> DEFINE B == [count : Nat, detected : BOOLEAN]
<1>1. PICK b : b = [count |-> published, detected |-> seenOk]
  OBVIOUS
<1>2. /\ beats' = Append(beats, b)
      /\ UNCHANGED <<severity, accumulator, window, explaining, digests, overflowed, forgotten,
                     published, seenOk>>
  BY <1>1 DEF SendHeartbeat
<1>3. EventsOK' /\ PlacesOK' /\ MildnessOK'
  BY <1>2, SamePlaces
<1>4. b \in B /\ beats \in Seq(B) /\ b.count = published /\ b.detected = seenOk
  BY <1>0, <1>1 DEF DgTypeOK
<1>5. /\ beats' \in Seq(B) /\ Len(beats) \in Nat /\ DOMAIN beats = 1..Len(beats)
      /\ DOMAIN beats' = DOMAIN beats \cup {Len(beats) + 1}
      /\ \A i \in DOMAIN beats : beats'[i] = beats[i]
      /\ beats'[Len(beats) + 1] = b
  <2> HIDE DEF B
  <2> QED BY <1>2, <1>4, AppendRange, LenProperties
<1>6. DgTypeOK' /\ WindowOK'
  BY <1>0, <1>2, <1>5 DEF DgTypeOK, WindowOK
<1>7. BeatsOK'
  <2> SUFFICES ASSUME NEW i \in DOMAIN beats'
               PROVE  /\ beats'[i].count <= published
                      /\ i > 1 => beats'[i - 1].count <= beats'[i].count
                      /\ beats'[i].detected => beats'[i].count > 0
    BY <1>0, <1>2 DEF BeatsOK, BeatsAreMonotone
  <2>1. CASE i \in DOMAIN beats
    <3>1. i > 1 => i - 1 \in DOMAIN beats
      BY <1>5, <2>1
    <3> QED BY <1>0, <1>5, <2>1, <3>1 DEF BeatsOK, BeatsAreMonotone
  <2>2. CASE i = Len(beats) + 1
    <3>1. i > 1 => i - 1 \in DOMAIN beats
      BY <1>5, <2>2
    <3>2. beats'[i] = b /\ published \in Nat
      BY <1>0, <1>5, <2>2 DEF DgTypeOK
    <3> QED BY <1>0, <1>4, <1>5, <3>1, <3>2 DEF BeatsOK, BeatsAreMonotone
  <2> QED BY <1>5, <2>1, <2>2
<1> QED BY <1>3, <1>6, <1>7 DEF DgInv

\* What was in memory is forgotten, and nothing else is.
LEMMA DgRestartInv == ASSUME DgInv, DgRestart PROVE DgInv'
<1>0. DgTypeOK /\ EventsOK /\ WindowOK /\ PlacesOK /\ MildnessOK /\ BeatsOK
  BY DEF DgInv
<1>1. /\ forgotten' = forgotten \cup Range(accumulator) \cup Range(window)
      /\ accumulator' = <<>> /\ window' = <<>> /\ explaining' = "idle"
      /\ published' = 0 /\ seenOk' = FALSE /\ beats' = <<>>
      /\ UNCHANGED <<severity, digests, overflowed>>
  BY DEF DgRestart
<1>2. Range(accumulator') = {} /\ Range(window') = {} /\ Len(accumulator') = 0 /\ Len(window') = 0
  BY <1>1 DEF Range
<1>3. DgTypeOK'
  <2>1. beats' \in Seq([count : Nat, detected : BOOLEAN])
    BY <1>1, EmptySeq
  <2>2. accumulator' \in Seq(Nat) /\ window' \in Seq(Nat)
    BY <1>1, EmptySeq
  <2> QED BY <1>0, <1>1, <2>1, <2>2 DEF DgTypeOK
<1>4. EventsOK' /\ MildnessOK' /\ BeatsOK'
  BY <1>0, <1>1, <1>2 DEF EventsOK, MildnessOK, BeatsOK, BeatsAreMonotone
<1>5. WindowOK'
  BY <1>1, <1>2, DigestAssumption DEF WindowOK
<1>6. PlacesOK'
  <2> SUFFICES ASSUME NEW e \in DOMAIN severity PROVE Places(e)' = Places(e)
    BY <1>0, <1>1 DEF PlacesOK
  <2>1. Places(e)' = One(e \in Range(accumulator')) + One(e \in Range(window')) +
                     One(e \in overflowed') + One(e \in forgotten') + Cardinality(ToldIn(e)')
    BY DEF Places, One, ToldIn
  <2>2. Cardinality(ToldIn(e)) \in Nat /\ ToldIn(e)' = ToldIn(e)
    BY <1>0, <1>1, ToldInFinite DEF ToldIn
  <2>3. Places(e) <= 1
    BY <1>0 DEF PlacesOK
  <2> QED BY <1>1, <1>2, <2>1, <2>2, <2>3, PlacesSum DEF One
<1> QED BY <1>3, <1>4, <1>5, <1>6 DEF DgInv

LEMMA DgStep == DgInv /\ [DgNext]_dgVars => DgInv'
<1> SUFFICES ASSUME DgInv, [DgNext]_dgVars PROVE DgInv'
  OBVIOUS
<1>1. CASE DgNext
  BY <1>1, DgReceiveInv, BareInv, TakeWindowInv, ExplainedInv, PublishDigestInv, HeartbeatInv,
     DgRestartInv DEF DgNext, Fates
<1>2. CASE UNCHANGED dgVars
  <2>1. EventsOK' /\ PlacesOK' /\ MildnessOK'
    BY <1>2, SamePlaces DEF dgVars
  <2> QED BY <1>2, <2>1 DEF dgVars, DgInv, DgTypeOK, WindowOK, BeatsOK, BeatsAreMonotone
<1> QED BY <1>1, <1>2

\* Digest mode (run_detection, spawn_digest, spawn_heartbeat): every event worth a digest
\* waits, is in hand, is in exactly one digest, or is accounted for as dropped, and no
\* digest is empty, too long or milder than what it tells; a heartbeat never overstates.
\* For any window, severities, number of events and restarts.
THEOREM DigestsLoseNothing == DgSpec => []DigestHolds
<1>1. DgInv => DigestHolds
  BY DEF DgInv, PlacesOK, MildnessOK, BeatsOK, DigestHolds, DigestsAreComplete
<1> QED BY <1>1, DgInitInv, DgStep, PTL DEF DgSpec

-----------------------------------------------------------------------------
(* HostTaps *)

HtSpec == HtInit /\ [][HtNext]_htVars

(***************************************************************************)
(* The inductive invariant. A baseline is read anew only before the first  *)
(* notification is worked off (SeedOK), so that it cannot break the chain  *)
(* of a file's events; and the settings of the journal tap are ones for    *)
(* which the widened stream reaches down to info (StreamOK).               *)
(***************************************************************************)
DriftTypeOK ==
  /\ content \in [Files -> Contents \cup {Gone}] /\ baseline \in [Files -> Contents \cup {Gone}]
  /\ start \in [Files -> 0..3]
  /\ notified \in Seq(Files)
  /\ drifts \in Seq([file : Files, old : Contents \cup {Gone}, new : Contents \cup {Gone}])

SeedOK == (\E f \in Files : start[f] < 2) => drifts = <<>>

UpdateTypeOK == updates \in Seq(Nat \X Nat) /\ {current, latest, profile} \subseteq Nat

StreamOK ==
  /\ settings \in [min_priority : {3, 4, 7}, auth_enable : BOOLEAN, skip_kernel : BOOLEAN]
  /\ DOMAIN journal = Records

DriftInv == DriftTypeOK /\ SeedOK /\ DriftIsTrue
UpdateInv == UpdateTypeOK /\ UpdatesLinkUp
JournalInv == StreamOK /\ AccessIsReported

LEMMA HtInitInv == HtInit => DriftInv /\ UpdateInv /\ JournalInv
<1> SUFFICES ASSUME HtInit PROVE DriftInv /\ UpdateInv /\ JournalInv
  OBVIOUS
<1>1. DriftTypeOK
  <2>1. notified \in Seq(Files)
        /\ drifts \in Seq([file : Files, old : Contents \cup {Gone}, new : Contents \cup {Gone}])
    BY EmptySeq DEF HtInit
  <2>2. content \in [Files -> Contents \cup {Gone}]
    BY DEF HtInit
  <2>3. start \in [Files -> 0..3] /\ baseline \in [Files -> Contents \cup {Gone}]
    BY DEF HtInit
  <2> QED BY <2>1, <2>2, <2>3 DEF DriftTypeOK
<1>2. SeedOK /\ DriftIsTrue
  BY DEF HtInit, SeedOK, DriftIsTrue, OfFile
<1>3. UpdateInv
  <2>1. updates = <<>> /\ updates \in Seq(Nat \X Nat) /\ Len(updates) = 0
    BY EmptySeq DEF HtInit
  <2>2. current \in Nat /\ latest \in Nat /\ profile \in Nat
    BY TapsAssumption DEF HtInit
  <2> QED BY <2>1, <2>2 DEF UpdateInv, UpdateTypeOK, UpdatesLinkUp
<1>4. StreamOK
  <2>1. journal = [r \in Records |-> "unread"]
    BY DEF HtInit
  <2>2. settings \in [min_priority : {3, 4, 7}, auth_enable : BOOLEAN, skip_kernel : BOOLEAN]
    <3>1. CASE tap = "journal"
      BY <3>1 DEF HtInit
    <3>2. CASE tap # "journal"
      <4>1. settings = [min_priority |-> 4, auth_enable |-> FALSE, skip_kernel |-> FALSE]
        BY <3>2 DEF HtInit
      <4> QED BY <4>1
    <3> QED BY <3>1, <3>2
  <2> QED BY <2>1, <2>2 DEF StreamOK
<1>5. AccessIsReported
  <2>1. \A r \in Records : journal[r] = "unread" /\ r.priority \in Nat
    BY TapsAssumption DEF HtInit
  <2>2. settings.auth_enable => StreamPriority(settings) \in {6, 7}
    BY <1>4 DEF StreamOK, StreamPriority
  <2> QED BY <2>1, <2>2 DEF AccessIsReported
<1> QED BY <1>1, <1>2, <1>3, <1>4, <1>5 DEF DriftInv, JournalInv

-----------------------------------------------------------------------------

\* The chain of a file's events, while neither they nor its baseline change.
LEMMA SameChain ==
  ASSUME DriftInv, UNCHANGED drifts, NEW f \in Files, baseline'[f] = baseline[f]
  PROVE  /\ \A i, j \in OfFile(f)' : Neighbours(i, j, OfFile(f)') => drifts'[i].new = drifts'[j].old
         /\ \A i \in OfFile(f)' : (\A k \in OfFile(f)' : k <= i) => drifts'[i].new = baseline'[f]
<1>1. OfFile(f)' = OfFile(f)
  BY DEF OfFile
<1> QED BY <1>1 DEF DriftInv, DriftIsTrue

LEMMA ChangeFileInv ==
  ASSUME DriftInv, NEW f \in Files, NEW c \in Contents \cup {Gone}, ChangeFile(f, c) PROVE DriftInv'
<1>0. DriftTypeOK /\ SeedOK /\ DriftIsTrue
  BY DEF DriftInv
<1>1. /\ content' = [content EXCEPT ![f] = c]
      /\ notified' = IF Watched(f) THEN Append(notified, f) ELSE notified
      /\ UNCHANGED <<start, baseline, drifts>>
  BY DEF ChangeFile
<1>2. /\ notified' \in Seq(Files)
      /\ Range(notified) \subseteq Range(notified') /\ (Watched(f) => f \in Range(notified'))
  BY <1>0, <1>1, AppendRange DEF DriftTypeOK
<1>3. /\ content' \in [Files -> Contents \cup {Gone}]
      /\ \A g \in Files : g # f => content'[g] = content[g]
  BY <1>0, <1>1 DEF DriftTypeOK
<1>4. DriftTypeOK' /\ SeedOK'
  BY <1>0, <1>1, <1>2, <1>3 DEF DriftTypeOK, SeedOK
<1>5. ASSUME NEW g \in Files, start'[g] = 2, g \in Explicit, g \notin Range(notified')
      PROVE  baseline'[g] = content'[g]
  <2>1. g # f
    <3>1. start[g] = 2 => Watched(g)
      BY DEF Watched, StartOrder
    <3> QED BY <1>1, <1>2, <1>5, <3>1
  <2>2. baseline[g] = content[g]
    BY <1>0, <1>1, <1>2, <1>5 DEF DriftIsTrue
  <2> QED BY <1>1, <1>3, <2>1, <2>2
<1>6. DriftIsTrue'
  BY <1>1, <1>5, SameChain DEF DriftIsTrue
<1> QED BY <1>4, <1>6 DEF DriftInv

LEMMA HtStartInv ==
  ASSUME DriftInv, NEW f \in Files, StartStep(f) \/ CannotWatch(f) PROVE DriftInv'
<1>0. DriftTypeOK /\ SeedOK /\ DriftIsTrue
  BY DEF DriftInv
<1>1. /\ start[f] < 2 /\ drifts = <<>> /\ UNCHANGED <<content, notified, drifts>>
      /\ start' \in [Files -> 0..3] /\ baseline' \in [Files -> Contents \cup {Gone}]
      /\ \A g \in Files : g # f => start'[g] = start[g] /\ baseline'[g] = baseline[g]
      /\ start'[f] = 2 /\ f \in Explicit => baseline'[f] = content[f]
  <2>1. CASE StartStep(f)
    <3>1. /\ start[f] \in {0, 1} /\ start' = [start EXCEPT ![f] = start[f] + 1]
          /\ baseline' = [baseline EXCEPT ![f] =
               IF f \in Explicit /\ StartOrder[start[f] + 1] = "seed" THEN content[f] ELSE baseline[f]]
          /\ UNCHANGED <<content, notified, drifts>>
      BY <1>0, <2>1 DEF StartStep, DriftTypeOK
    <3>2. start[f] = 1 => StartOrder[start[f] + 1] = "seed"
      BY DEF StartOrder
    <3> QED BY <1>0, <3>1, <3>2 DEF DriftTypeOK, SeedOK
  <2>2. CASE CannotWatch(f)
    <3>1. /\ start[f] = 0 /\ start' = [start EXCEPT ![f] = 3]
          /\ UNCHANGED <<content, notified, baseline, drifts>>
      BY <2>2 DEF CannotWatch
    <3> QED BY <1>0, <3>1 DEF DriftTypeOK, SeedOK
  <2> QED BY <2>1, <2>2
<1>2. DriftTypeOK' /\ SeedOK'
  BY <1>0, <1>1 DEF DriftTypeOK, SeedOK
<1>3. DriftIsTrue'
  BY <1>0, <1>1 DEF DriftIsTrue, OfFile
<1> QED BY <1>2, <1>3 DEF DriftInv

\* A notification worked off: an event that starts where the last one of its file ended.
LEMMA HtProcessInv == ASSUME DriftInv, ProcessNotification PROVE DriftInv'
<1>0. DriftTypeOK /\ SeedOK /\ DriftIsTrue
  BY DEF DriftInv
<1> DEFINE State == Contents \cup {Gone}
           D == [file : Files, old : State, new : State]
<1>1. PICK f : f = Head(notified)
  OBVIOUS
<1>2. /\ notified # <<>> /\ notified' = Tail(notified) /\ UNCHANGED <<content, start>>
      /\ \A g \in Files : start[g] >= 2
      /\ baseline' = [baseline EXCEPT ![f] = content[f]]
      /\ drifts' = IF baseline[f] = content[f] THEN drifts
                   ELSE Append(drifts, [file |-> f, old |-> baseline[f], new |-> content[f]])
  BY <1>1 DEF ProcessNotification, Evaluate
<1>3. f \in Files /\ notified' \in Seq(Files) /\ Range(notified) \subseteq Range(notified') \cup {f}
  <2>1. /\ notified \in Seq(Files) /\ notified # <<>>
        /\ Head(notified) \in Files /\ Tail(notified) \in Seq(Files)
        /\ Len(Tail(notified)) = Len(notified) - 1
        /\ \A i \in 1..Len(Tail(notified)) : Tail(notified)[i] = notified[i + 1]
    BY <1>0, <1>2, HeadTailProperties DEF DriftTypeOK
  <2>2. ASSUME NEW i \in DOMAIN notified PROVE notified[i] \in Range(notified') \cup {f}
    <3>1. Len(notified) \in Nat /\ DOMAIN notified = 1..Len(notified)
          /\ DOMAIN Tail(notified) = 1..Len(Tail(notified)) /\ notified[1] = Head(notified)
      BY <2>1, LenProperties
    <3>2. CASE i = 1
      BY <1>1, <3>1, <3>2
    <3>3. CASE i # 1
      <4>1. i - 1 \in DOMAIN Tail(notified) /\ i - 1 + 1 = i
        BY <2>1, <3>1, <3>3
      <4>2. Tail(notified)[i - 1] = notified[i]
        BY <2>1, <3>1, <4>1
      <4> QED BY <1>2, <4>1, <4>2 DEF Range
    <3> QED BY <3>2, <3>3
  <2> QED BY <1>1, <1>2, <2>1, <2>2 DEF Range
<1>4. /\ content[f] \in State /\ baseline[f] \in State /\ baseline' \in [Files -> State]
      /\ baseline'[f] = content[f] /\ \A g \in Files : g # f => baseline'[g] = baseline[g]
  BY <1>0, <1>2, <1>3 DEF DriftTypeOK
<1>5. SeedOK'
  BY <1>0, <1>2 DEF SeedOK, DriftTypeOK
<1>6. ASSUME NEW g \in Files, start'[g] = 2, g \in Explicit, g \notin Range(notified')
      PROVE  baseline'[g] = content'[g]
  BY <1>0, <1>2, <1>3, <1>4, <1>6 DEF DriftIsTrue
<1>7. CASE baseline[f] = content[f]
  <2>1. drifts' = drifts /\ \A g \in Files : baseline'[g] = baseline[g]
    BY <1>2, <1>4, <1>7
  <2>2. DriftTypeOK'
    BY <1>0, <1>2, <1>3, <1>4, <2>1 DEF DriftTypeOK
  <2> QED BY <1>5, <1>6, <2>1, <2>2, SameChain DEF DriftInv, DriftIsTrue
<1>8. CASE baseline[f] # content[f]
  <2>1. PICK d : d = [file |-> f, old |-> baseline[f], new |-> content[f]]
    OBVIOUS
  <2>2. d \in D /\ d.file = f /\ d.old = baseline[f] /\ d.new = content[f]
    BY <1>3, <1>4, <2>1
  <2>3. PICK n : n = Len(drifts) + 1
    OBVIOUS
  <2>4. /\ drifts' \in Seq(D) /\ DOMAIN drifts' = DOMAIN drifts \cup {n} /\ drifts'[n] = d
        /\ \A i \in DOMAIN drifts : drifts'[i] = drifts[i] /\ i # n
        /\ n \in Nat /\ \A i \in DOMAIN drifts : i \in Nat /\ i < n
    <3>1. drifts \in Seq(D) /\ drifts' = Append(drifts, d)
      BY <1>0, <1>2, <1>8, <2>1 DEF DriftTypeOK
    <3> HIDE DEF D
    <3>2. Len(drifts) \in Nat /\ DOMAIN drifts = 1..Len(drifts)
      BY <3>1, LenProperties
    <3>3. n \in Nat /\ \A i \in DOMAIN drifts : i \in Nat /\ i < n
      BY <2>3, <3>2
    <3> QED BY <2>2, <2>3, <3>1, <3>3, AppendRange
  <2>5. DriftTypeOK'
    BY <1>0, <1>2, <1>3, <1>4, <2>4 DEF DriftTypeOK
  <2>6. OfFile(f)' = OfFile(f) \cup {n} /\ n \notin OfFile(f)
    BY <2>2, <2>4 DEF OfFile
  <2>7. \A g \in Files : g # f => OfFile(g)' = OfFile(g)
    BY <2>2, <2>4 DEF OfFile
  <2>8. ASSUME NEW g \in Files, NEW i \in OfFile(g)', NEW j \in OfFile(g)',
               Neighbours(i, j, OfFile(g)')
        PROVE  drifts'[i].new = drifts'[j].old
    <3>1. i < j /\ \A k \in OfFile(g)' : k <= i \/ k >= j
      BY <2>8 DEF Neighbours
    <3>2. CASE i \in OfFile(g) /\ j \in OfFile(g)
      <4>1. Neighbours(i, j, OfFile(g))
        BY <2>6, <2>7, <3>1 DEF Neighbours
      <4>2. drifts[i].new = drifts[j].old
        BY <1>0, <3>2, <4>1 DEF DriftIsTrue
      <4> QED BY <2>4, <3>2, <4>2 DEF OfFile
    <3>3. CASE g = f /\ j = n
      <4>1. i \in OfFile(f)
        BY <2>4, <2>6, <3>1, <3>3
      <4>2. ASSUME NEW k \in OfFile(f) PROVE k <= i
        <5>1. k \in OfFile(g)' /\ ~(k >= n)
          BY <2>4, <2>6, <3>3 DEF OfFile
        <5> QED BY <3>1, <3>3, <5>1
      <4>3. drifts[i].new = baseline[f]
        BY <1>0, <1>3, <4>1, <4>2 DEF DriftIsTrue
      <4> QED BY <2>2, <2>4, <3>3, <4>1, <4>3 DEF OfFile
    <3>4. CASE g = f /\ i = n
      BY <2>4, <2>6, <3>1, <3>4 DEF OfFile
    <3> QED BY <2>6, <2>7, <3>2, <3>3, <3>4
  <2>9. ASSUME NEW g \in Files, NEW i \in OfFile(g)', \A k \in OfFile(g)' : k <= i
        PROVE  drifts'[i].new = baseline'[g]
    <3>1. CASE g # f
      <4>1. drifts[i].new = baseline[g]
        BY <1>0, <2>7, <2>9, <3>1 DEF DriftIsTrue
      <4> QED BY <1>4, <2>4, <2>7, <3>1, <4>1 DEF OfFile
    <3>2. CASE g = f
      <4>1. i = n
        BY <2>4, <2>6, <2>9, <3>2 DEF OfFile
      <4> QED BY <1>4, <2>2, <2>4, <3>2, <4>1
    <3> QED BY <3>1, <3>2
  <2> QED BY <1>5, <1>6, <2>5, <2>8, <2>9 DEF DriftInv, DriftIsTrue
<1> QED BY <1>7, <1>8

LEMMA UpdateStepInv == ASSUME UpdateInv, UpdateNext PROVE UpdateInv'
<1>0. UpdateTypeOK /\ UpdatesLinkUp
  BY DEF UpdateInv
<1>1. CASE \E g \in 0..MaxGeneration : SwitchGeneration(g)
  BY <1>0, <1>1, TapsAssumption DEF SwitchGeneration, UpdateInv, UpdateTypeOK, UpdatesLinkUp
<1>2. CASE GenerationChanged
  BY <1>0, <1>2 DEF GenerationChanged, UpdateInv, UpdateTypeOK, UpdatesLinkUp
<1>3. CASE SendUpdate
  <2>1. PICK u : u = <<current, latest>>
    OBVIOUS
  <2>2. updates' = Append(updates, u) /\ current' = latest /\ latest' = 0 /\ profile' = profile
    BY <1>3, <2>1 DEF SendUpdate
  <2>3. updates \in Seq(Nat \X Nat) /\ u \in Nat \X Nat /\ u[1] = current /\ u[2] = latest
    BY <1>0, <2>1 DEF UpdateTypeOK
  <2>4. PICK n : n = Len(updates)
    OBVIOUS
  <2>5. /\ updates' \in Seq(Nat \X Nat) /\ Len(updates') = n + 1 /\ n \in Nat
        /\ updates'[n + 1] = u /\ \A i \in 1..n : updates'[i] = updates[i]
    BY <2>2, <2>3, <2>4, AppendProperties, LenProperties
  <2>6. Last(updates')[2] = current'
    BY <2>2, <2>3, <2>5 DEF Last
  <2>7. ASSUME NEW i \in 1..(Len(updates') - 1) PROVE updates'[i][2] = updates'[i + 1][1]
    <3>1. i \in 1..n
      BY <2>5
    <3>2. CASE i = n
      <4>1. n # 0 /\ updates # <<>>
        BY <2>3, <2>4, <3>1, <3>2, EmptySeq
      <4>2. updates[n][2] = current
        BY <1>0, <2>4, <4>1 DEF UpdatesLinkUp, Last
      <4> QED BY <2>3, <2>5, <3>1, <3>2, <4>2
    <3>3. CASE i # n
      <4>1. i \in 1..(Len(updates) - 1) /\ i + 1 \in 1..n
        BY <2>4, <2>5, <3>1, <3>3
      <4> QED BY <1>0, <2>5, <3>1, <4>1 DEF UpdatesLinkUp
    <3> QED BY <3>2, <3>3
  <2> QED BY <1>0, <2>2, <2>5, <2>6, <2>7 DEF UpdateInv, UpdateTypeOK, UpdatesLinkUp
<1> QED BY <1>1, <1>2, <1>3 DEF UpdateNext

LEMMA ReadRecordInv == ASSUME JournalInv, NEW r \in Records, ReadRecord(r) PROVE JournalInv'
<1>0. StreamOK /\ AccessIsReported
  BY DEF JournalInv
<1>1. PICK v : v = IF settings.auth_enable /\ ClassifyAuth(r) # "none"
                     THEN ClassifyAuth(r) ELSE ClassifyGeneric(r, settings)
  OBVIOUS
<1>2. settings' = settings /\ journal' = [journal EXCEPT ![r] = v]
  BY <1>1 DEF ReadRecord
<1>3. DOMAIN journal' = Records /\ \A q \in Records : journal'[q] = IF q = r THEN v ELSE journal[q]
  BY <1>0, <1>2 DEF StreamOK
<1>4. settings.auth_enable /\ ClassifyAuth(r) = "warning" => v = "warning"
  BY <1>1
<1>5. v \notin {"unread", "none"} /\ r.priority > settings.min_priority =>
        settings.auth_enable /\ ClassifyAuth(r) # "none"
  BY <1>1 DEF ClassifyGeneric
<1> QED BY <1>0, <1>2, <1>3, <1>4, <1>5 DEF JournalInv, StreamOK, AccessIsReported

LEMMA HtStep ==
  DriftInv /\ UpdateInv /\ JournalInv /\ [HtNext]_htVars => (DriftInv /\ UpdateInv /\ JournalInv)'
<1> SUFFICES ASSUME DriftInv, UpdateInv, JournalInv, [HtNext]_htVars
             PROVE  DriftInv' /\ UpdateInv' /\ JournalInv'
  OBVIOUS
<1>1. UNCHANGED driftVars => DriftInv'
  BY DEF driftVars, DriftInv, DriftTypeOK, SeedOK, DriftIsTrue, OfFile
<1>2. UNCHANGED updateVars => UpdateInv'
  BY DEF updateVars, UpdateInv, UpdateTypeOK, UpdatesLinkUp
<1>3. UNCHANGED journalVars => JournalInv'
  BY DEF journalVars, JournalInv, StreamOK, AccessIsReported
<1>4. CASE DriftNext /\ UNCHANGED <<updateVars, journalVars>>
  BY <1>2, <1>3, <1>4, ChangeFileInv, HtStartInv, HtProcessInv DEF DriftNext
<1>5. CASE UpdateNext /\ UNCHANGED <<driftVars, journalVars>>
  BY <1>1, <1>3, <1>5, UpdateStepInv
<1>6. CASE (\E r \in Records : ReadRecord(r)) /\ UNCHANGED <<changes, driftVars, updateVars>>
  BY <1>1, <1>2, <1>6, ReadRecordInv
<1>7. CASE UNCHANGED htVars
  BY <1>1, <1>2, <1>3, <1>7 DEF htVars
<1> QED BY <1>4, <1>5, <1>6, <1>7 DEF HtNext

\* The host's taps (config_drift.rs, update.rs, journald.rs with auth.rs): the events of a
\* file link up and end with what it holds, the updates of the system link up, and a failed
\* access is reported as a warning down to info. For any files, generations and records.
THEOREM TapsTellTheTruth == HtSpec => []TapsReportTruly
<1>1. DriftInv /\ UpdateInv /\ JournalInv => TapsReportTruly
  BY DEF DriftInv, UpdateInv, JournalInv, TapsReportTruly
<1> QED BY <1>1, HtInitInv, HtStep, PTL DEF HtSpec

-----------------------------------------------------------------------------
(* LogDedup *)

LdSpec == LdInit /\ [][LdNext]_ldVars

(***************************************************************************)
(* The inductive invariant. The cache of a pod has one entry per line,     *)
(* with the time at which the line was told, and what is behind an entry   *)
(* was looked up after it (RecencyOK); a line that was told and is not in  *)
(* the cache was pushed out by Cap others (EvictedOK).                     *)
(***************************************************************************)
Entry == [line : Lines, at : Nat]

LdTypeOK ==
  /\ now \in 0..MaxNow
  /\ cache \in [Pods -> Seq(Entry)]
  /\ reading.lines # <<>> => reading.pod \in Pods
  /\ reading.lines \in Seq(Lines) /\ reading = [pod |-> reading.pod, lines |-> reading.lines]
  /\ told \in [Pods -> [Lines -> Nat]]
  /\ others \in [Pods -> [Lines -> SUBSET Lines]]

LineAt(p, i) == cache[p][i].line

ToldOK == \A p \in Pods, l \in Lines :
  /\ told[p][l] = Never \/ told[p][l] <= now
  /\ IsFiniteSet(others[p][l])

RecencyOK == \A p \in Pods :
  /\ Len(cache[p]) <= Cap
  /\ \A i \in DOMAIN cache[p] :
       cache[p][i].at = told[p][LineAt(p, i)] /\ told[p][LineAt(p, i)] # Never
  /\ \A i, j \in DOMAIN cache[p] : i < j =>
       LineAt(p, i) # LineAt(p, j) /\ LineAt(p, j) \in others[p][LineAt(p, i)]

EvictedOK == \A p \in Pods, l \in Lines :
  ~Holds(p, l) /\ told[p][l] # Never => Cardinality(others[p][l]) >= Cap

DecisionOK ==
  /\ ~decision.fresh => decision.age < Ttl
  /\ decision.fresh /\ decision.age < Ttl => Cardinality(decision.others) >= Cap

LdInv == LdTypeOK /\ ToldOK /\ RecencyOK /\ EvictedOK /\ DecisionOK

LEMMA DedupConstants == Cap \in Nat \ {0} /\ Ttl \in Nat \ {0} /\ MaxNow \in Nat /\ Never = MaxNow + 1
BY DedupAssumption DEF Never

LEMMA LdInitInv == LdInit => LdInv
<1> SUFFICES ASSUME LdInit PROVE LdInv
  OBVIOUS
<1>1. /\ now = 0 /\ cache = [p \in Pods |-> <<>>]
      /\ reading.lines = <<>> /\ reading = [pod |-> reading.pod, lines |-> reading.lines]
      /\ told = [p \in Pods |-> [l \in Lines |-> Never]]
      /\ others = [p \in Pods |-> [l \in Lines |-> {}]]
      /\ decision.fresh = TRUE /\ decision.age = Ttl
  BY DEF LdInit, Idle, NoDecision
<1>2. LdTypeOK
  <2>1. cache \in [Pods -> Seq(Entry)] /\ reading.lines \in Seq(Lines)
    BY <1>1, EmptySeq
  <2>2. told \in [Pods -> [Lines -> Nat]] /\ others \in [Pods -> [Lines -> SUBSET Lines]]
    BY <1>1, DedupConstants
  <2> QED BY <1>1, <2>1, <2>2, DedupConstants DEF LdTypeOK
<1>3. ToldOK /\ EvictedOK
  BY <1>1, FS_EmptySet DEF ToldOK, EvictedOK
<1>4. RecencyOK
  BY <1>1, DedupConstants DEF RecencyOK
<1>5. DecisionOK
  BY <1>1, DedupConstants DEF DecisionOK
<1> QED BY <1>2, <1>3, <1>4, <1>5 DEF LdInv

-----------------------------------------------------------------------------
(* The cache of one pod *)

\* What RemoveAt leaves of a sequence.
LEMMA RemoveAtFacts ==
  ASSUME NEW T, NEW s \in Seq(T), NEW i \in 1..Len(s), NEW t, t = RemoveAt(s, i)
  PROVE  /\ t \in Seq(T) /\ Len(t) = Len(s) - 1
         /\ \A k \in 1..(Len(s) - 1) : t[k] = IF k < i THEN s[k] ELSE s[k + 1]
<1> DEFINE n == Len(s)
           a == SubSeq(s, 1, i - 1)
           b == SubSeq(s, i + 1, n)
<1>1. n \in Nat /\ i \in Nat /\ 1 <= i /\ i <= n /\ \A k \in 1..n : s[k] \in T
  BY LenProperties, ElementOfSeq
<1>2. a \in Seq(T) /\ Len(a) = i - 1 /\ \A k \in 1..(i - 1) : a[k] = s[k]
  <2>1. /\ a \in Seq(T) /\ Len(a) = IF 1 <= i - 1 THEN (i - 1) - 1 + 1 ELSE 0
        /\ \A k \in 1..((i - 1) - 1 + 1) : a[k] = s[1 + k - 1]
    <3>1. 1 \in Int /\ i - 1 \in Int /\ \A k \in 1..(i - 1) : s[k] \in T
      BY <1>1
    <3> QED BY <3>1, SubSeqProperties
  <2> QED BY <1>1, <2>1
<1>3. b \in Seq(T) /\ Len(b) = n - i /\ \A k \in 1..(n - i) : b[k] = s[i + k]
  <2>1. /\ b \in Seq(T) /\ Len(b) = IF i + 1 <= n THEN n - (i + 1) + 1 ELSE 0
        /\ \A k \in 1..(n - (i + 1) + 1) : b[k] = s[(i + 1) + k - 1]
    <3>1. i + 1 \in Int /\ n \in Int /\ \A k \in (i + 1)..n : s[k] \in T
      BY <1>1
    <3> QED BY <3>1, SubSeqProperties
  <2> QED BY <1>1, <2>1
<1>4. t = a \o b
  BY DEF RemoveAt
<1> HIDE DEF a, b
<1>5. /\ t \in Seq(T) /\ Len(t) = Len(a) + Len(b)
      /\ \A k \in 1..(Len(a) + Len(b)) : t[k] = IF k <= Len(a) THEN a[k] ELSE b[k - Len(a)]
  <2>1. a \in Seq(T) /\ b \in Seq(T)
    BY <1>2, <1>3
  <2>2. /\ a \o b \in Seq(T) /\ Len(a \o b) = Len(a) + Len(b)
        /\ \A k \in 1..(Len(a) + Len(b)) : (a \o b)[k] = IF k <= Len(a) THEN a[k] ELSE b[k - Len(a)]
    BY <2>1, ConcatProperties
  <2> QED BY <1>4, <2>2
<1>6. Len(a) + Len(b) = n - 1 /\ Len(a) = i - 1
  BY <1>1, <1>2, <1>3
<1>7. ASSUME NEW k \in 1..(n - 1), k < i PROVE t[k] = s[k]
  <2>1. k \in 1..(i - 1) /\ k <= Len(a)
    BY <1>1, <1>6, <1>7
  <2> QED BY <1>2, <1>5, <1>6, <2>1
<1>8. ASSUME NEW k \in 1..(n - 1), ~(k < i) PROVE t[k] = s[k + 1]
  <2>1. ~(k <= Len(a)) /\ k - Len(a) \in 1..(n - i) /\ i + (k - Len(a)) = k + 1
    BY <1>1, <1>6, <1>8
  <2> QED BY <1>3, <1>5, <1>6, <2>1
<1> QED BY <1>5, <1>6, <1>7, <1>8

\* A cache whose lines are apart, each looked up after the ones before it.
Ordered(c, o) ==
  \A i, j \in DOMAIN c : i < j => c[i].line # c[j].line /\ c[j].line \in o[c[i].line]

HasLine(c, l) == \E i \in DOMAIN c : c[i].line = l

\* What Without leaves: the other entries, in their order.
LEMMA WithoutFacts ==
  ASSUME LdTypeOK, RecencyOK, NEW p \in Pods, NEW l \in Lines, NEW rest, rest = Without(p, l)
  PROVE  /\ rest \in Seq(Entry) /\ Len(rest) <= Cap
         /\ Holds(p, l) => Len(rest) < Cap
         /\ \A i \in DOMAIN rest : rest[i].line # l /\ \E j \in DOMAIN cache[p] : rest[i] = cache[p][j]
         /\ \A m \in Lines : m # l => (HasLine(rest, m) <=> Holds(p, m))
         /\ Ordered(rest, others[p])
<1> DEFINE c == cache[p]
<1>1. c \in Seq(Entry) /\ Len(c) \in Nat /\ DOMAIN c = 1..Len(c) /\ Len(c) <= Cap /\ Cap \in Nat
  BY LenProperties, DedupConstants DEF LdTypeOK, RecencyOK
<1>2. Ordered(c, others[p])
  BY DEF RecencyOK, Ordered, LineAt
<1>3. CASE ~Holds(p, l)
  <2>1. rest = c
    BY <1>3 DEF Without
  <2> QED BY <1>1, <1>2, <1>3, <2>1 DEF Holds, HasLine
<1>4. CASE Holds(p, l)
  <2>1. PICK s : s = Slot(p, l)
    OBVIOUS
  <2>2. s \in 1..Len(c) /\ c[s].line = l
    BY <1>1, <1>4, <2>1 DEF Holds, Slot
  <2>3. rest = RemoveAt(c, s)
    BY <1>4, <2>1 DEF Without
  <2>4. /\ rest \in Seq(Entry) /\ Len(rest) = Len(c) - 1
        /\ \A k \in 1..(Len(c) - 1) : rest[k] = IF k < s THEN c[k] ELSE c[k + 1]
    <3>1. c \in Seq(Entry) /\ s \in 1..Len(c)
      BY <1>1, <2>2
    <3> HIDE DEF c
    <3> QED BY <2>3, <3>1, RemoveAtFacts
  <2>5. DOMAIN rest = 1..(Len(c) - 1)
    BY <2>4, LenProperties
  <2> DEFINE at(k) == IF k < s THEN k ELSE k + 1
  <2>6. \A k \in DOMAIN rest : at(k) \in DOMAIN c /\ at(k) # s /\ rest[k] = c[at(k)]
    BY <1>1, <2>2, <2>4, <2>5
  <2>7. \A k, m \in DOMAIN rest : k < m => at(k) < at(m)
    BY <1>1, <2>2, <2>5
  <2>8. ASSUME NEW j \in DOMAIN c, j # s PROVE c[j].line # l /\ \E k \in DOMAIN rest : rest[k] = c[j]
    <3>1. c[j].line # l
      <4>1. j < s \/ s < j
        BY <1>1, <2>2, <2>8
      <4> QED BY <1>1, <1>2, <2>2, <4>1 DEF Ordered
    <3>2. CASE j < s
      <4>1. j \in DOMAIN rest /\ rest[j] = c[j]
        BY <1>1, <2>2, <2>4, <2>5, <3>2
      <4> QED BY <3>1, <4>1
    <3>3. CASE j > s
      <4>1. j - 1 \in DOMAIN rest /\ ~(j - 1 < s) /\ j - 1 + 1 = j
        BY <1>1, <2>2, <2>5, <3>3
      <4>2. rest[j - 1] = c[j]
        BY <2>4, <2>5, <4>1
      <4> QED BY <3>1, <4>1, <4>2
    <3> QED BY <1>1, <2>2, <2>8, <3>2, <3>3
  <2> HIDE DEF at
  <2>9. \A i \in DOMAIN rest : rest[i].line # l /\ \E j \in DOMAIN c : rest[i] = c[j]
    BY <2>6, <2>8
  <2>10. Ordered(rest, others[p])
    BY <1>2, <2>6, <2>7 DEF Ordered
  <2>11. ASSUME NEW m \in Lines, m # l PROVE HasLine(rest, m) <=> Holds(p, m)
    <3>1. HasLine(rest, m) => Holds(p, m)
      BY <2>9 DEF HasLine, Holds
    <3>2. ASSUME Holds(p, m) PROVE HasLine(rest, m)
      <4>1. PICK j \in DOMAIN c : c[j].line = m
        BY <3>2 DEF Holds
      <4>2. j # s
        BY <2>2, <2>11, <4>1
      <4> QED BY <2>8, <4>1, <4>2 DEF HasLine
    <3> QED BY <3>1, <3>2
  <2>12. Len(rest) < Cap
    BY <1>1, <2>4
  <2> QED BY <1>1, <2>4, <2>9, <2>10, <2>11, <2>12
<1> QED BY <1>3, <1>4

\* The pod and the line of a look-up, and when the line was told after it.
LEMMA LookUpEffect ==
  ASSUME LdInv, LookUp, NEW p, NEW l, p = reading.pod, l = Head(reading.lines)
  PROVE  /\ p \in Pods /\ l \in Lines /\ Tail(reading.lines) \in Seq(Lines)
         /\ told'[p][l] = IF Live(p, l) THEN told[p][l] ELSE now
         /\ now' = now
<1>0. LdTypeOK
  BY DEF LdInv
<1>1. p \in Pods /\ l \in Lines /\ Tail(reading.lines) \in Seq(Lines)
  <2>1. reading.lines \in Seq(Lines) /\ reading.lines # <<>> /\ reading.pod \in Pods
    BY <1>0 DEF LdTypeOK, LookUp
  <2> QED BY <2>1, HeadTailProperties
<1>2. told' = [told EXCEPT ![p] = [told[p] EXCEPT ![l] = IF Live(p, l) THEN told[p][l] ELSE now]]
  BY <1>0, <1>1 DEF LookUp, LdTypeOK
<1>3. told'[p][l] = IF Live(p, l) THEN told[p][l] ELSE now
  BY <1>0, <1>1, <1>2 DEF LdTypeOK
<1> QED BY <1>1, <1>3 DEF LookUp

\* What is left of the other entries: when the cache is full, the oldest goes.
Room(rest) == IF Len(rest) = Cap THEN Tail(rest) ELSE rest

\* The entry that a look-up leaves at the end of the cache, and what is before it: the
\* entries of other lines that Room leaves.
LEMMA LookUpEntry ==
  ASSUME LdInv, LookUp, NEW p, NEW l, p = reading.pod, l = Head(reading.lines)
  PROVE  \E x \in Entry : /\ x.line = l /\ x.at = told'[p][l] /\ x.at <= now
                          /\ cache' = [cache EXCEPT ![p] = Append(Room(Without(p, l)), x)]
<1>0. LdTypeOK /\ ToldOK /\ RecencyOK
  BY DEF LdInv
<1>1. /\ p \in Pods /\ l \in Lines
      /\ told'[p][l] = IF Live(p, l) THEN told[p][l] ELSE now
  BY LookUpEffect
<1>2. cache' = [cache EXCEPT ![p] = IF Live(p, l) THEN Promoted(p, l) ELSE Put(p, l)]
  BY DEF LookUp
<1>3. PICK rest : rest = Without(p, l)
  OBVIOUS
<1>4. now \in Nat
  BY <1>0, DedupConstants DEF LdTypeOK
<1>7. CASE Live(p, l)
  <2>1. PICK x : x = cache[p][Slot(p, l)]
    OBVIOUS
  <2>2. PICK i \in DOMAIN cache[p] : i = Slot(p, l) /\ cache[p][i].line = l /\ x = cache[p][i]
    BY <1>7, <2>1 DEF Live, Holds, Slot
  <2>3. x \in Entry /\ x.line = l /\ x.at = told[p][l] /\ told[p][l] # Never
    <3>1. cache[p] \in Seq(Entry) /\ i \in 1..Len(cache[p])
      BY <1>0, <1>1, <2>2, LenProperties DEF LdTypeOK
    <3>2. x \in Entry
      BY <2>2, <3>1, ElementOfSeq
    <3> QED BY <1>0, <1>1, <2>2, <3>2 DEF RecencyOK, LineAt
  <2>4. Len(rest) < Cap /\ Len(rest) \in Nat
    <3>1. Holds(p, l)
      BY <1>7 DEF Live
    <3>2. rest \in Seq(Entry) /\ Len(rest) < Cap
      BY <1>0, <1>1, <1>3, <3>1, WithoutFacts
    <3> QED BY <3>2, LenProperties
  <2>5. Room(rest) = rest
    BY <2>4, DedupConstants DEF Room
  <2>6. cache' = [cache EXCEPT ![p] = Append(Room(rest), x)]
    BY <1>2, <1>3, <1>7, <2>1, <2>5 DEF Promoted
  <2>7. told[p][l] <= now
    BY <1>0, <1>1, <2>3 DEF ToldOK
  <2>8. x.at = told'[p][l] /\ x.at <= now
    BY <1>1, <1>7, <2>3, <2>7
  <2> QED BY <1>3, <2>3, <2>6, <2>8
<1>8. CASE ~Live(p, l)
  <2>1. PICK x : x = [line |-> l, at |-> now]
    OBVIOUS
  <2>2. x \in Entry /\ x.line = l /\ x.at = now
    BY <1>1, <1>4, <2>1 DEF Entry
  <2>3. cache' = [cache EXCEPT ![p] = Append(Room(rest), x)]
    BY <1>2, <1>3, <1>8, <2>1 DEF Put, Room
  <2>4. x.at = told'[p][l] /\ x.at <= now
    BY <1>1, <1>4, <1>8, <2>2
  <2> QED BY <1>3, <2>2, <2>3, <2>4
<1> QED BY <1>7, <1>8

LEMMA LookUpInv == ASSUME LdInv, LookUp PROVE LdInv'
<1>0. LdTypeOK /\ ToldOK /\ RecencyOK /\ EvictedOK /\ DecisionOK
  BY DEF LdInv
<1>1. PICK p, l : p = reading.pod /\ l = Head(reading.lines)
  OBVIOUS
<1>2. /\ p \in Pods /\ l \in Lines /\ Tail(reading.lines) \in Seq(Lines)
      /\ told' = [told EXCEPT ![p] = [told[p] EXCEPT ![l] = IF Live(p, l) THEN told[p][l] ELSE now]]
      /\ told'[p][l] = IF Live(p, l) THEN told[p][l] ELSE now
      /\ others' = [others EXCEPT ![p] =
           [m \in Lines |-> IF m = l THEN {} ELSE others[p][m] \cup {l}]]
      /\ now' = now /\ reading' = [reading EXCEPT !.lines = Tail(reading.lines)]
  <2>1. /\ p \in Pods /\ l \in Lines /\ Tail(reading.lines) \in Seq(Lines)
        /\ told'[p][l] = IF Live(p, l) THEN told[p][l] ELSE now
        /\ now' = now
    BY <1>1, LookUpEffect
  <2>2. reading' = [reading EXCEPT !.lines = Tail(reading.lines)]
    BY <1>1 DEF LookUp
  <2>3. told' = [told EXCEPT ![p] = [told[p] EXCEPT ![l] = IF Live(p, l) THEN told[p][l] ELSE now]]
    BY <1>0, <1>1, <2>1 DEF LookUp, LdTypeOK
  <2>4. others' = [others EXCEPT ![p] =
             [m \in Lines |-> IF m = l THEN {} ELSE others[p][m] \cup {l}]]
    BY <1>1 DEF LookUp
  <2> QED BY <2>1, <2>2, <2>3, <2>4
<1>r. PICK rest : rest = Without(p, l)
  OBVIOUS
<1>s. PICK room : room = Room(rest)
  OBVIOUS
<1>3. PICK x \in Entry : /\ x.line = l /\ x.at = told'[p][l] /\ x.at <= now
                         /\ cache' = [cache EXCEPT ![p] = Append(room, x)]
  <2>1. \E x \in Entry : /\ x.line = l /\ x.at = told'[p][l] /\ x.at <= now
                          /\ cache' = [cache EXCEPT ![p] = Append(Room(Without(p, l)), x)]
    BY <1>1, LookUpEntry
  <2> QED BY <1>r, <1>s, <2>1
<1>x. told'[p][l] \in Nat /\ told'[p][l] <= now
  BY <1>3 DEF Entry
<1>4. /\ rest \in Seq(Entry) /\ Len(rest) <= Cap
      /\ Holds(p, l) => Len(rest) < Cap
      /\ \A i \in DOMAIN rest : rest[i].line # l /\ \E j \in DOMAIN cache[p] : rest[i] = cache[p][j]
      /\ \A m \in Lines : m # l => (HasLine(rest, m) <=> Holds(p, m))
      /\ Ordered(rest, others[p])
  <2>1. p \in Pods /\ l \in Lines
    BY <1>2
  <2> QED BY <1>0, <1>r, <2>1, WithoutFacts
<1>5. Cap \in Nat \ {0} /\ Len(rest) \in Nat /\ DOMAIN rest = 1..Len(rest)
  BY <1>4, DedupConstants, LenProperties
<1> DEFINE d == IF Len(rest) = Cap THEN 1 ELSE 0
\* The entry i of room is the entry i + d of rest.
<1>6. /\ room \in Seq(Entry) /\ Len(room) = Len(rest) - d /\ Len(room) < Cap /\ Len(room) \in Nat
      /\ \A i \in 1..Len(room) : i + d \in DOMAIN rest /\ room[i] = rest[i + d]
  <2>1. CASE Len(rest) = Cap
    <3>1. rest # <<>>
      BY <1>5, <2>1
    <3>2. /\ Tail(rest) \in Seq(Entry) /\ Len(Tail(rest)) = Len(rest) - 1
          /\ \A i \in 1..Len(Tail(rest)) : Tail(rest)[i] = rest[i + 1]
      BY <1>4, <3>1, HeadTailProperties
    <3> QED BY <1>s, <1>5, <2>1, <3>2 DEF Room
  <2>2. CASE Len(rest) # Cap
    <3>1. room = rest
      BY <1>s, <2>2 DEF Room
    <3>2. d = 0
      BY <2>2
    <3> HIDE DEF d
    <3>3. Len(rest) < Cap
      <4>1. Len(rest) <= Cap /\ Len(rest) \in Nat /\ Cap \in Nat
        BY <1>4, <1>5
      <4> QED BY <2>2, <4>1
    <3>4. Len(room) = Len(rest) - d /\ Len(room) < Cap /\ Len(room) \in Nat
      BY <1>5, <3>1, <3>2, <3>3
    <3>5. \A i \in 1..Len(room) : i + d \in DOMAIN rest /\ room[i] = rest[i + d]
      BY <1>5, <3>1, <3>2
    <3> QED BY <1>4, <3>1, <3>4, <3>5
  <2> QED BY <2>1, <2>2
<1>d. d \in {0, 1}
  OBVIOUS
<1> HIDE DEF d
<1>7. PICK c : c = Append(room, x)
  OBVIOUS
<1>8. PICK n : n = Len(room) + 1
  OBVIOUS
<1>9. /\ c \in Seq(Entry) /\ Len(c) = n /\ n \in 1..Cap /\ DOMAIN c = 1..n /\ c[n] = x
      /\ \A i \in 1..(n - 1) : i + d \in DOMAIN rest /\ c[i] = rest[i + d]
  <2>1. /\ c \in Seq(Entry) /\ Len(c) = Len(room) + 1 /\ c[Len(room) + 1] = x
        /\ \A i \in 1..Len(room) : c[i] = room[i]
    BY <1>3, <1>6, <1>7, AppendProperties
  <2>2. DOMAIN c = 1..n
    BY <1>8, <2>1, LenProperties
  <2>3. n - 1 = Len(room) /\ n \in 1..Cap
    BY <1>5, <1>6, <1>8
  <2> QED BY <1>6, <1>8, <2>1, <2>2, <2>3
<1>10. cache' = [cache EXCEPT ![p] = c] /\ cache'[p] = c /\ \A q \in Pods : q # p => cache'[q] = cache[q]
  BY <1>0, <1>2, <1>3, <1>7 DEF LdTypeOK
<1>11. /\ told' \in [Pods -> [Lines -> Nat]]
       /\ \A q \in Pods, m \in Lines : q # p \/ m # l => told'[q][m] = told[q][m]
  <2>1. told[p] \in [Lines -> Nat] /\ now \in Nat
    BY <1>0, <1>2, DedupConstants DEF LdTypeOK
  <2> QED BY <1>0, <1>2, <2>1 DEF LdTypeOK
<1>12. /\ others' \in [Pods -> [Lines -> SUBSET Lines]] /\ others'[p][l] = {}
       /\ \A q \in Pods : q # p => others'[q] = others[q]
       /\ \A m \in Lines : m # l => others'[p][m] = others[p][m] \cup {l}
  <2>1. others[p] \in [Lines -> SUBSET Lines]
    BY <1>0, <1>2 DEF LdTypeOK
  <2>2. PICK o : o = [m \in Lines |-> IF m = l THEN {} ELSE others[p][m] \cup {l}]
    OBVIOUS
  <2>3. /\ o \in [Lines -> SUBSET Lines] /\ o[l] = {}
        /\ \A m \in Lines : m # l => o[m] = others[p][m] \cup {l}
    BY <1>2, <2>1, <2>2
  <2>4. others' = [others EXCEPT ![p] = o]
    BY <1>2, <2>2
  <2> QED BY <1>0, <1>2, <2>3, <2>4 DEF LdTypeOK
<1>13. LdTypeOK'
  <2>1. cache' \in [Pods -> Seq(Entry)]
    BY <1>0, <1>2, <1>9, <1>10 DEF LdTypeOK
  <2>2. /\ reading'.lines \in Seq(Lines) /\ reading'.pod = p
        /\ reading' = [pod |-> reading'.pod, lines |-> reading'.lines]
    BY <1>0, <1>1, <1>2 DEF LdTypeOK
  <2> QED BY <1>0, <1>2, <1>11, <1>12, <2>1, <2>2 DEF LdTypeOK
<1>14. ToldOK'
  <2>1. ASSUME NEW q \in Pods, NEW m \in Lines PROVE IsFiniteSet(others'[q][m])
    <3>1. IsFiniteSet(others[q][m])
      BY <1>0 DEF ToldOK
    <3>2. IsFiniteSet(others[q][m] \cup {l}) /\ IsFiniteSet({})
      BY <3>1, FS_AddElement, FS_EmptySet
    <3> QED BY <1>12, <3>1, <3>2
  <2>2. ASSUME NEW q \in Pods, NEW m \in Lines PROVE told'[q][m] = Never \/ told'[q][m] <= now'
    BY <1>0, <1>2, <1>x, <1>11 DEF ToldOK
  <2> QED BY <2>1, <2>2 DEF ToldOK, Never
<1>15. \A i \in 1..(n - 1) : /\ c[i].line \in Lines /\ c[i].line # l
                              /\ c[i].at = told'[p][c[i].line] /\ told'[p][c[i].line] # Never
  <2> SUFFICES ASSUME NEW i \in 1..(n - 1)
               PROVE  /\ c[i].line \in Lines /\ c[i].line # l
                      /\ c[i].at = told'[p][c[i].line] /\ told'[p][c[i].line] # Never
    OBVIOUS
  <2>1. i + d \in DOMAIN rest /\ c[i] = rest[i + d] /\ c[i].line # l
    BY <1>4, <1>9
  <2>2. PICK j \in DOMAIN cache[p] : c[i] = cache[p][j]
    BY <1>4, <2>1
  <2>3. c[i] \in Entry
    <3>1. i \in 1..Len(c)
      BY <1>9
    <3> QED BY <1>9, <3>1, ElementOfSeq
  <2>4. c[i].line \in Lines
    BY <2>3 DEF Entry
  <2>5. c[i].at = told[p][c[i].line] /\ told[p][c[i].line] # Never
    BY <1>0, <1>2, <2>2 DEF RecencyOK, LineAt
  <2> QED BY <1>2, <1>11, <2>1, <2>4, <2>5
<1>16. Ordered(c, others'[p])
  <2> SUFFICES ASSUME NEW i \in 1..n, NEW j \in 1..n, i < j
               PROVE  c[i].line # c[j].line /\ c[j].line \in others'[p][c[i].line]
    BY <1>9 DEF Ordered
  <2>1. i \in 1..(n - 1)
    BY <1>9
  <2>2. others'[p][c[i].line] = others[p][c[i].line] \cup {l}
    BY <1>12, <1>15, <2>1
  <2>3. CASE j = n
    BY <1>3, <1>9, <1>15, <2>1, <2>2, <2>3
  <2>4. CASE j # n
    <3>1. j \in 1..(n - 1) /\ i + d < j + d
      BY <1>9, <1>d, <2>4
    <3> QED BY <1>4, <1>9, <2>1, <2>2, <3>1 DEF Ordered
  <2> QED BY <2>3, <2>4
<1>17. RecencyOK'
  <2> SUFFICES ASSUME NEW q \in Pods
               PROVE  /\ Len(cache'[q]) <= Cap
                      /\ \A i \in DOMAIN cache'[q] :
                           /\ cache'[q][i].at = told'[q][cache'[q][i].line]
                           /\ told'[q][cache'[q][i].line] # Never
                      /\ Ordered(cache'[q], others'[q])
    BY DEF RecencyOK, Ordered, LineAt, Never
  <2>1. CASE q = p
    <3>1. x.at = told'[p][x.line] /\ told'[p][x.line] # Never
      <4>1. now <= MaxNow /\ now \in Nat /\ Never = MaxNow + 1 /\ MaxNow \in Nat
        BY <1>0, DedupConstants DEF LdTypeOK
      <4> QED BY <1>x, <1>3, <4>1
    <3>2. \A i \in 1..n : c[i].at = told'[p][c[i].line] /\ told'[p][c[i].line] # Never
      <4>1. \A i \in 1..n : i = n \/ i \in 1..(n - 1)
        BY <1>9
      <4> QED BY <1>9, <1>15, <3>1, <4>1
    <3> QED BY <1>9, <1>10, <1>16, <2>1, <3>2
  <2>2. CASE q # p
    <3>1. cache'[q] = cache[q] /\ others'[q] = others[q]
      BY <1>10, <1>12, <2>2
    <3>2. \A i \in DOMAIN cache[q] : told'[q][cache[q][i].line] = told[q][cache[q][i].line]
      <4>1. ASSUME NEW i \in DOMAIN cache[q] PROVE cache[q][i].line \in Lines
        <5>1. cache[q] \in Seq(Entry) /\ i \in 1..Len(cache[q])
          BY <1>0, LenProperties DEF LdTypeOK
        <5>2. cache[q][i] \in Entry
          BY <5>1, ElementOfSeq
        <5> QED BY <5>2 DEF Entry
      <4> QED BY <1>11, <2>2, <4>1
    <3> QED BY <1>0, <3>1, <3>2 DEF RecencyOK, Ordered, LineAt
  <2> QED BY <2>1, <2>2
<1>18. EvictedOK'
  <2> SUFFICES ASSUME NEW q \in Pods, NEW m \in Lines, ~HasLine(cache'[q], m), told'[q][m] # Never
               PROVE  Cardinality(others'[q][m]) >= Cap
    BY DEF EvictedOK, Holds, HasLine, Never
  <2>1. CASE q # p
    <3>1. ~Holds(q, m) /\ told[q][m] # Never /\ others'[q] = others[q]
      BY <1>10, <1>11, <1>12, <2>1 DEF Holds, HasLine
    <3> QED BY <1>0, <3>1 DEF EvictedOK
  <2>2. CASE q = p
    <3>0. ~HasLine(c, m)
      BY <1>10, <2>2
    <3>1. m # l
      BY <1>3, <1>9, <3>0 DEF HasLine
    <3>2. others'[p][m] = others[p][m] \cup {l} /\ told[p][m] # Never
      BY <1>11, <1>12, <2>2, <3>1
    <3>3. IsFiniteSet(others'[p][m]) /\ IsFiniteSet(others[p][m])
      BY <1>0, <1>2, <1>14 DEF ToldOK
    <3>4. CASE ~Holds(p, m)
      <4>1. Cardinality(others[p][m]) >= Cap
        BY <1>0, <1>2, <3>2, <3>4 DEF EvictedOK
      <4>2. Cardinality(others[p][m]) <= Cardinality(others'[p][m])
        BY <3>2, <3>3, FS_Subset
      <4>3. Cardinality(others[p][m]) \in Nat /\ Cardinality(others'[p][m]) \in Nat
        BY <3>3, FS_CardinalityType
      <4> QED BY <1>5, <2>2, <4>1, <4>2, <4>3
    <3>5. CASE Holds(p, m)
      \* It was the oldest: all that is now in the cache came after it.
      <4>1. PICK k \in DOMAIN rest : rest[k].line = m
        BY <1>4, <3>1, <3>5 DEF HasLine
      <4>2. k = 1 /\ d = 1 /\ Len(rest) = Cap /\ n = Cap
        <5>1. ~(k - d \in 1..(n - 1))
          <6> SUFFICES ASSUME k - d \in 1..(n - 1) PROVE FALSE
            OBVIOUS
          <6>1. (k - d) + d = k /\ k - d \in DOMAIN c
            BY <1>5, <1>9, <1>d
          <6>2. c[k - d] = rest[k]
            BY <1>9, <6>1
          <6> QED BY <3>0, <4>1, <6>1, <6>2 DEF HasLine
        <5>2. n - 1 = Len(rest) - d /\ k \in 1..Len(rest)
          BY <1>5, <1>6, <1>8, <4>1
        <5>3. k = 1 /\ d = 1
          BY <1>5, <1>9, <1>d, <5>1, <5>2
        <5>4. Len(rest) = Cap
          BY <5>3 DEF d
        <5> QED BY <1>5, <1>9, <5>2, <5>3, <5>4
      <4>3. \A i \in 1..Cap : c[i].line \in others'[p][m]
        <5> SUFFICES ASSUME NEW i \in 1..Cap PROVE c[i].line \in others'[p][m]
          OBVIOUS
        <5>1. CASE i = Cap
          BY <1>3, <1>9, <3>2, <4>2, <5>1
        <5>2. CASE i # Cap
          <6>1. i \in 1..(n - 1) /\ 1 < i + d
            BY <1>5, <4>2, <5>2
          <6>2. i + d \in DOMAIN rest /\ c[i] = rest[i + d] /\ 1 \in DOMAIN rest
            BY <1>9, <4>1, <4>2, <6>1
          <6>3. rest[i + d].line \in others[p][m]
            BY <1>4, <4>1, <4>2, <6>1, <6>2 DEF Ordered
          <6> QED BY <3>2, <6>2, <6>3
        <5> QED BY <5>1, <5>2
      <4>4. PICK f : f = [i \in 1..Cap |-> c[i].line]
        OBVIOUS
      <4>5. f \in Injection(1..Cap, others'[p][m])
        <5>1. f \in [1..Cap -> others'[p][m]]
          BY <4>3, <4>4
        <5>2. ASSUME NEW i \in 1..Cap, NEW j \in 1..Cap, f[i] = f[j] PROVE i = j
          <6>1. c[i].line = c[j].line /\ i \in DOMAIN c /\ j \in DOMAIN c /\ i \in Int /\ j \in Int
            BY <1>9, <4>2, <4>4, <5>2
          <6>2. ~(i < j) /\ ~(j < i)
            BY <1>16, <6>1 DEF Ordered
          <6> QED BY <6>1, <6>2
        <5> QED BY <5>1, <5>2 DEF Injection, IsInjective
      <4>6. Cardinality(1..Cap) = Cap
        BY <1>5, FS_Interval
      <4>7. Cardinality(1..Cap) <= Cardinality(others'[p][m]) /\ Cardinality(others'[p][m]) \in Nat
        BY <3>3, <4>5, FS_Injection, FS_CardinalityType
      <4> QED BY <1>5, <2>2, <4>6, <4>7
    <3> QED BY <3>4, <3>5
  <2> QED BY <2>1, <2>2
<1>19. DecisionOK'
  <2>1. /\ decision'.fresh = ~Live(p, l)
        /\ decision'.age = IF told[p][l] = Never THEN Ttl ELSE now - told[p][l]
        /\ decision'.others = others[p][l]
    BY <1>1 DEF LookUp
  <2>2. told[p][l] \in Nat /\ now \in Nat /\ Ttl \in Nat
    BY <1>0, <1>2, DedupConstants DEF LdTypeOK
  <2>3. ASSUME Holds(p, l)
        PROVE  cache[p][Slot(p, l)].at = told[p][l] /\ told[p][l] # Never
    <3>1. PICK i \in DOMAIN cache[p] : i = Slot(p, l) /\ cache[p][i].line = l
      BY <2>3 DEF Holds, Slot
    <3> QED BY <1>0, <1>2, <3>1 DEF RecencyOK, LineAt
  <2>4. CASE Live(p, l)
    BY <2>1, <2>2, <2>3, <2>4 DEF Live, DecisionOK
  <2>5. CASE ~Live(p, l)
    <3> SUFFICES ASSUME decision'.age < Ttl PROVE Cardinality(others[p][l]) >= Cap
      BY <2>1, <2>5 DEF DecisionOK
    <3>1. told[p][l] # Never /\ now - told[p][l] < Ttl
      BY <2>1, <2>2
    <3>2. ~Holds(p, l)
      BY <2>3, <2>5, <3>1 DEF Live
    <3> QED BY <1>0, <1>2, <3>1, <3>2 DEF EvictedOK
  <2> QED BY <2>4, <2>5
<1> QED BY <1>13, <1>14, <1>17, <1>18, <1>19 DEF LdInv

\* A step that leaves the cache, what was told and the last decision alone.
LEMMA SameCache ==
  ASSUME LdInv, UNCHANGED <<cache, told, others, decision>>, now' \in 0..MaxNow, now' >= now,
         reading'.lines # <<>> => reading'.pod \in Pods,
         reading'.lines \in Seq(Lines), reading' = [pod |-> reading'.pod, lines |-> reading'.lines]
  PROVE  LdInv'
<1>1. LdTypeOK'
  BY DEF LdInv, LdTypeOK
<1>2. ToldOK'
  <2>1. now \in Nat /\ now' \in Nat
    BY DedupConstants DEF LdInv, LdTypeOK
  <2>2. \A p \in Pods, l \in Lines : told[p][l] \in Nat
    BY DEF LdInv, LdTypeOK
  <2> QED BY <2>1, <2>2 DEF LdInv, ToldOK, Never
<1>3. RecencyOK'
  BY DEF LdInv, RecencyOK, LineAt, Never
<1>4. EvictedOK' /\ DecisionOK'
  BY DEF LdInv, EvictedOK, DecisionOK, Holds, Never
<1> QED BY <1>1, <1>2, <1>3, <1>4 DEF LdInv

LEMMA DeletePodInv == ASSUME LdInv, NEW p \in Pods, DeletePod(p) PROVE LdInv'
<1>0. LdTypeOK /\ ToldOK /\ RecencyOK /\ EvictedOK
  BY DEF LdInv
<1>1. /\ cache' = [cache EXCEPT ![p] = <<>>]
      /\ told' = [told EXCEPT ![p] = [l \in Lines |-> Never]]
      /\ others' = [others EXCEPT ![p] = [l \in Lines |-> {}]]
      /\ decision' = NoDecision /\ UNCHANGED <<now, reading>>
  BY DEF DeletePod
<1>2. /\ cache' \in [Pods -> Seq(Entry)] /\ cache'[p] = <<>>
      /\ \A q \in Pods : q # p => cache'[q] = cache[q]
  <2>1. <<>> \in Seq(Entry)
    BY EmptySeq
  <2> QED BY <1>0, <1>1, <2>1 DEF LdTypeOK
<1>3. /\ told' \in [Pods -> [Lines -> Nat]] /\ \A l \in Lines : told'[p][l] = Never
      /\ \A q \in Pods : q # p => told'[q] = told[q]
  BY <1>0, <1>1, DedupConstants DEF LdTypeOK
<1>4. /\ others' \in [Pods -> [Lines -> SUBSET Lines]] /\ \A l \in Lines : others'[p][l] = {}
      /\ \A q \in Pods : q # p => others'[q] = others[q]
  BY <1>0, <1>1 DEF LdTypeOK
<1>5. LdTypeOK'
  BY <1>0, <1>1, <1>2, <1>3, <1>4 DEF LdTypeOK
<1>6. ToldOK'
  <2> SUFFICES ASSUME NEW q \in Pods, NEW l \in Lines
               PROVE  (told'[q][l] = Never \/ told'[q][l] <= now) /\ IsFiniteSet(others'[q][l])
    BY <1>1 DEF ToldOK, Never
  <2>1. CASE q = p
    BY <1>3, <1>4, <2>1, FS_EmptySet
  <2>2. CASE q # p
    BY <1>0, <1>3, <1>4, <2>2 DEF ToldOK
  <2> QED BY <2>1, <2>2
<1>7. RecencyOK'
  <2> SUFFICES ASSUME NEW q \in Pods
               PROVE  /\ Len(cache'[q]) <= Cap
                      /\ \A i \in DOMAIN cache'[q] :
                           /\ cache'[q][i].at = told'[q][cache'[q][i].line]
                           /\ told'[q][cache'[q][i].line] # Never
                      /\ Ordered(cache'[q], others'[q])
    BY DEF RecencyOK, Ordered, LineAt, Never
  <2>1. CASE q = p
    BY <1>2, <2>1, DedupConstants DEF Ordered
  <2>2. CASE q # p
    <3>1. cache'[q] = cache[q] /\ told'[q] = told[q] /\ others'[q] = others[q]
      BY <1>2, <1>3, <1>4, <2>2
    <3> QED BY <1>0, <3>1 DEF RecencyOK, Ordered, LineAt
  <2> QED BY <2>1, <2>2
<1>8. EvictedOK'
  BY <1>0, <1>2, <1>3, <1>4 DEF EvictedOK, Holds, Never
<1>9. DecisionOK'
  BY <1>1, DedupConstants DEF DecisionOK, NoDecision
<1> QED BY <1>5, <1>6, <1>7, <1>8, <1>9 DEF LdInv

LEMMA LdStep == LdInv /\ [LdNext]_ldVars => LdInv'
<1> SUFFICES ASSUME LdInv, [LdNext]_ldVars PROVE LdInv'
  OBVIOUS
<1>0. /\ now \in 0..MaxNow /\ MaxNow \in Nat
      /\ reading.lines # <<>> => reading.pod \in Pods
      /\ reading.lines \in Seq(Lines) /\ reading = [pod |-> reading.pod, lines |-> reading.lines]
  BY DedupConstants DEF LdInv, LdTypeOK
<1>1. CASE LdTick
  BY <1>0, <1>1, SameCache DEF LdTick
<1>2. CASE SkipLine
  <2>1. /\ reading.lines # <<>> /\ reading' = [reading EXCEPT !.lines = Tail(reading.lines)]
        /\ UNCHANGED <<now, cache, told, others, decision>>
    BY <1>2 DEF SkipLine
  <2>2. Tail(reading.lines) \in Seq(Lines)
    BY <1>0, <2>1, HeadTailProperties
  <2>3. /\ reading'.pod = reading.pod /\ reading'.lines = Tail(reading.lines)
        /\ reading' = [pod |-> reading'.pod, lines |-> reading'.lines]
    BY <1>0, <2>1
  <2> QED BY <1>0, <2>1, <2>2, <2>3, SameCache
<1>3. ASSUME NEW p \in Pods, NEW lines \in UNION {[1..n -> Lines] : n \in 1..TailLines},
             ReadTail(p, lines)
      PROVE  LdInv'
  <2>1. PICK n \in 1..TailLines : lines \in [1..n -> Lines]
    OBVIOUS
  <2>2. lines \in Seq(Lines)
    <3>1. n \in Nat
      BY DedupAssumption
    <3> QED BY <2>1, <3>1, IsASeq
  <2>3. /\ reading' = [pod |-> p, lines |-> lines] /\ reading'.pod = p /\ reading'.lines = lines
        /\ UNCHANGED <<now, cache, told, others, decision>>
    BY <1>3 DEF ReadTail
  <2> QED BY <1>0, <2>2, <2>3, SameCache
<1>4. CASE UNCHANGED ldVars
  BY <1>0, <1>4, SameCache DEF ldVars
<1> QED BY <1>1, <1>2, <1>3, <1>4, LookUpInv, DeletePodInv DEF LdNext

\* LogDeduper::is_new: the cache of a pod never outgrows its cap, a line is held back only
\* within its time to live, and one told again within it had been pushed out by as many
\* other lines as the cap. For any pods, lines, cap, time to live and length of a tail.
THEOREM DedupIsAMemory == LdSpec => []DedupRemembers
<1>1. LdInv => DedupRemembers
  BY DEF LdInv, RecencyOK, DecisionOK, DedupRemembers
<1> QED BY <1>1, LdInitInv, LdStep, PTL DEF LdSpec
-----------------------------------------------------------------------------
(* KubeWatch *)

HIDE ActuatorAssumption

KwSpec == KwInit /\ [][KwNext]_kwVars

EventSignals == Uids \X (0..MaxCount)
NodeSignals == (Nodes \X Conditions) \X (1..MaxEpisodes)
Counts == [Uids -> -1..MaxCount]
Episodes == [Conditions -> 0..MaxEpisodes]

\* The variables hold values of the types of the watch that runs.
EventTypes ==
  /\ object \in Counts /\ seen \in Counts
  /\ stream \in Seq([key : Uids, value : 0..MaxCount])
  /\ sendingNow \in Seq(EventSignals)
  /\ signalled \in [EventSignals -> Nat]

NodeTypes ==
  /\ object \in [Nodes -> Episodes] /\ episode \in [Nodes -> Episodes]
  /\ stream \in Seq([key : Nodes, value : Episodes])
  /\ raised \subseteq Nodes \X Conditions
  /\ sendingNow \in Seq(NodeSignals)
  /\ signalled \in [NodeSignals -> Nat]

KwTypeOK ==
  /\ watch \in {"events", "nodes"}
  /\ watch = "events" => EventTypes
  /\ watch = "nodes" => NodeTypes

\* The signals that have been decided on, one way or another.
KwKnown == {s \in Signals : signalled[s] > 0 \/ s \in unsent \/ s \in Range(sendingNow) \/ s \in passedOver}

\* What is about to be published has not been before.
SendsOnce ==
  /\ IsInjective(sendingNow)
  /\ \A s \in Range(sendingNow) : signalled[s] = 0 /\ s \notin unsent
  /\ \A s \in Signals : signalled[s] <= 1 /\ (signalled[s] = 1 => s \notin unsent)

\* One Event: the stream is in order and ahead of what was last seen; up to that every
\* count has been decided on, and the later ones are in the stream.
EventLine(u) ==
  /\ seen[u] <= object[u]
  /\ \A i \in DOMAIN stream : stream[i].key = u => seen[u] <= stream[i].value /\ stream[i].value <= object[u]
  /\ \A i, j \in DOMAIN stream :
       i < j /\ stream[i].key = u /\ stream[j].key = u => stream[i].value <= stream[j].value
  /\ \A c \in 0..MaxCount :
       /\ <<u, c>> \in KwKnown => c <= seen[u]
       /\ c <= seen[u] /\ u \notin Routine => <<u, c>> \in KwKnown
       /\ seen[u] < c /\ c <= object[u] => \E i \in DOMAIN stream : stream[i].key = u /\ stream[i].value = c

\* What the stream w says of one condition of one node (the episode, 0 when it is not
\* active, and -1 where it is about another node), the object's own value o, the number
\* e of its episodes, those decided on, K, and whether the agent holds it raised.
Clears(w, i, j) == \E l \in 1..Len(w) : i < l /\ l < j /\ w[l] = 0

ConditionLine(w, o, e, K, up) ==
  /\ o = 0 \/ o = e
  /\ \A x \in K : x <= e
  /\ \A x \in 1..e : x \in K \/ \E i \in 1..Len(w) : w[i] = x
  /\ \A i, j \in 1..Len(w) : i < j /\ w[i] > 0 /\ w[j] > 0 =>
       IF Clears(w, i, j) THEN w[i] < w[j] ELSE w[i] = w[j]
  /\ \A i \in 1..Len(w) : w[i] > 0 =>
       /\ w[i] <= e
       /\ IF Clears(w, i, Len(w) + 1) THEN o = 0 \/ w[i] < o ELSE o = w[i]
       /\ \A x \in K : x <= w[i]
       /\ w[i] \in K <=> up /\ ~Clears(w, 0, i)
  /\ up /\ ~Clears(w, 0, Len(w) + 1) => o # 0
  /\ o # 0 => (o \in K <=> up /\ ~Clears(w, 0, Len(w) + 1))

NodeApplies == [key : Nodes, value : Episodes]
Sayings(q, n, k) == [i \in 1..Len(q) |-> IF q[i].key = n THEN q[i].value[k] ELSE -1]
KnownOf(n, k) == {x \in 1..MaxEpisodes : <<<<n, k>>, x>> \in KwKnown}
NodeLine(n, k) ==
  ConditionLine(Sayings(stream, n, k), object[n][k], episode[n][k], KnownOf(n, k), <<n, k>> \in raised)

KwInv ==
  /\ KwTypeOK /\ SendsOnce
  /\ watch = "events" => \A u \in Uids : EventLine(u)
  /\ watch = "nodes" => \A n \in Nodes, k \in Conditions : NodeLine(n, k)
-----------------------------------------------------------------------------
(* One condition of one node *)

\* Something more in the stream clears the condition only if it says so.
LEMMA ClearsAppend ==
  ASSUME NEW w \in Seq(Int), NEW x \in Int, NEW i \in Int
  PROVE  /\ \A j \in Int : j <= Len(w) + 1 => (Clears(Append(w, x), i, j) <=> Clears(w, i, j))
         /\ Clears(Append(w, x), i, Len(w) + 2) <=> Clears(w, i, Len(w) + 1) \/ (i <= Len(w) /\ x = 0)
<1>1. /\ Len(w) \in Nat /\ Len(Append(w, x)) = Len(w) + 1
      /\ \A l \in 1..Len(w) : Append(w, x)[l] = w[l]
      /\ Append(w, x)[Len(w) + 1] = x
  BY AppendProperties, LenProperties
<1>2. PICK v : v = Append(w, x)
  OBVIOUS
<1>3. \A l \in 1..Len(v) : l \in 1..Len(w) \/ l = Len(w) + 1
  BY <1>1, <1>2
<1>4. ASSUME NEW j \in Int, j <= Len(w) + 1 PROVE Clears(v, i, j) <=> Clears(w, i, j)
  <2>1. ASSUME NEW l \in 1..Len(v), i < l, l < j, v[l] = 0 PROVE l \in 1..Len(w) /\ w[l] = 0
    BY <1>1, <1>2, <1>3, <1>4, <2>1
  <2>2. ASSUME NEW l \in 1..Len(w), w[l] = 0 PROVE l \in 1..Len(v) /\ v[l] = 0
    BY <1>1, <1>2, <2>2
  <2> QED BY <2>1, <2>2 DEF Clears
<1>5. Clears(v, i, Len(w) + 2) <=> Clears(w, i, Len(w) + 1) \/ (i <= Len(w) /\ x = 0)
  <2>1. ASSUME NEW l \in 1..Len(v), i < l, v[l] = 0
        PROVE  (l \in 1..Len(w) /\ l < Len(w) + 1 /\ w[l] = 0) \/ (i <= Len(w) /\ x = 0)
    BY <1>1, <1>2, <1>3, <2>1
  <2>2. ASSUME NEW l \in 1..Len(w), w[l] = 0 PROVE l \in 1..Len(v) /\ l < Len(w) + 2 /\ v[l] = 0
    BY <1>1, <1>2, <2>2
  <2>3. ASSUME i <= Len(w), x = 0
        PROVE  LET l == Len(w) + 1 IN l \in 1..Len(v) /\ i < l /\ l < Len(w) + 2 /\ v[l] = 0
    BY <1>1, <1>2, <2>3
  <2> QED BY <2>1, <2>2, <2>3 DEF Clears
<1> QED BY <1>2, <1>4, <1>5

\* Without its head the stream clears what it did after it.
LEMMA ClearsTail ==
  ASSUME NEW w \in Seq(Int), w # << >>, NEW i \in Nat, NEW j \in Nat
  PROVE  /\ Clears(Tail(w), i, j) <=> Clears(w, i + 1, j + 1)
         /\ Clears(w, 0, j + 1) <=> (j > 0 /\ w[1] = 0) \/ Clears(w, 1, j + 1)
<1>1. /\ Len(w) \in Nat /\ Len(w) > 0 /\ Len(Tail(w)) = Len(w) - 1
      /\ \A l \in 1..Len(Tail(w)) : Tail(w)[l] = w[l + 1]
  BY HeadTailProperties, LenProperties, EmptySeq
<1>2. PICK v : v = Tail(w)
  OBVIOUS
<1>3. Clears(v, i, j) => Clears(w, i + 1, j + 1)
  <2>1. ASSUME NEW l \in 1..Len(v), i < l, l < j, v[l] = 0
        PROVE  l + 1 \in 1..Len(w) /\ i + 1 < l + 1 /\ l + 1 < j + 1 /\ w[l + 1] = 0
    BY <1>1, <1>2, <2>1
  <2> QED BY <2>1 DEF Clears
<1>4. Clears(w, i + 1, j + 1) => Clears(v, i, j)
  <2>1. ASSUME NEW l \in 1..Len(w), i + 1 < l, l < j + 1, w[l] = 0
        PROVE  l - 1 \in 1..Len(v) /\ i < l - 1 /\ l - 1 < j /\ v[l - 1] = 0
    <3>1. l - 1 \in 1..Len(v) /\ i < l - 1 /\ l - 1 < j /\ (l - 1) + 1 = l
      BY <1>1, <1>2, <2>1
    <3> QED BY <1>1, <1>2, <2>1, <3>1
  <2> QED BY <2>1 DEF Clears
<1>5. Clears(w, 0, j + 1) <=> (j > 0 /\ w[1] = 0) \/ Clears(w, 1, j + 1)
  <2>1. 1 \in 1..Len(w)
    BY <1>1
  <2>2. \A l \in 1..Len(w) : 0 < l /\ (l = 1 \/ 1 < l) /\ (1 < l => 0 < l)
    BY <1>1
  <2>3. j > 0 <=> 1 < j + 1
    OBVIOUS
  <2> QED BY <2>1, <2>2, <2>3 DEF Clears
<1> QED BY <1>2, <1>3, <1>4, <1>5
\* The object is applied once more, or its condition clears, or becomes active.
LEMMA LineApply ==
  ASSUME NEW w \in Seq(Int), NEW o \in Nat, NEW e \in Nat, NEW K \in SUBSET Nat, NEW up \in BOOLEAN,
         NEW o2 \in Nat, NEW e2 \in Nat,
         ConditionLine(w, o, e, K, up),
         (o2 = o /\ e2 = e) \/ (o2 = 0 /\ e2 = e) \/ (o = 0 /\ o2 = e + 1 /\ e2 = e + 1)
  PROVE  ConditionLine(Append(w, o2), o2, e2, K, up)
<1>1. /\ Len(w) \in Nat /\ Len(Append(w, o2)) = Len(w) + 1
      /\ \A l \in 1..Len(w) : Append(w, o2)[l] = w[l] /\ w[l] \in Int
      /\ Append(w, o2)[Len(w) + 1] = o2
  BY AppendProperties, LenProperties, ElementOfSeq
<1>2. PICK v : v = Append(w, o2)
  OBVIOUS
<1>3. PICK m : m = Len(w) + 1
  OBVIOUS
<1>4. /\ m \in Nat /\ m > 0 /\ Len(v) = m /\ v[m] = o2
      /\ \A l \in 1..Len(v) : (l = m) \/ (l \in 1..Len(w) /\ v[l] = w[l] /\ l < m)
      /\ \A l \in 1..Len(w) : l \in 1..Len(v) /\ v[l] = w[l] /\ l < m /\ w[l] \in Int
  BY <1>1, <1>2, <1>3
<1>5. /\ \A i \in Int : \A j \in Int : j <= m => (Clears(v, i, j) <=> Clears(w, i, j))
      /\ \A i \in Int : Clears(v, i, m + 1) <=> Clears(w, i, m) \/ (i < m /\ o2 = 0)
  <2>1. Len(w) + 2 = m + 1 /\ (\A i \in Int : i < m <=> i <= Len(w))
    BY <1>1, <1>3
  <2> QED BY <1>2, <1>3, <2>1, ClearsAppend
<1>6. /\ o = 0 \/ o = e
      /\ \A x \in K : x <= e
      /\ \A x \in 1..e : x \in K \/ \E i \in 1..Len(w) : w[i] = x
  BY DEF ConditionLine
<1>7. \A i, j \in 1..Len(w) : i < j /\ w[i] > 0 /\ w[j] > 0 =>
        IF Clears(w, i, j) THEN w[i] < w[j] ELSE w[i] = w[j]
  BY DEF ConditionLine
<1>8. \A i \in 1..Len(w) : w[i] > 0 =>
        /\ w[i] <= e
        /\ IF Clears(w, i, m) THEN o = 0 \/ w[i] < o ELSE o = w[i]
        /\ \A x \in K : x <= w[i]
        /\ w[i] \in K <=> up /\ ~Clears(w, 0, i)
  BY <1>3 DEF ConditionLine
<1>9. /\ up /\ ~Clears(w, 0, m) => o # 0
      /\ o # 0 => (o \in K <=> up /\ ~Clears(w, 0, m))
  BY <1>3 DEF ConditionLine
<1>a. /\ o2 = 0 \/ o2 = e2
      /\ \A x \in K : x <= e2 /\ x # e + 1
  BY <1>6
<1>b. \A x \in 1..e2 : x \in K \/ \E i \in 1..Len(v) : v[i] = x
  <2> SUFFICES ASSUME NEW x \in 1..e2, x \notin K PROVE \E i \in 1..Len(v) : v[i] = x
    OBVIOUS
  <2>1. CASE x <= e
    <3>1. PICK i \in 1..Len(w) : w[i] = x
      BY <1>6, <2>1
    <3> QED BY <1>4, <3>1
  <2>2. CASE ~(x <= e)
    <3>1. x = o2 /\ m \in 1..Len(v)
      BY <1>4, <2>2
    <3> QED BY <1>4, <3>1
  <2> QED BY <2>1, <2>2
<1>c. ASSUME NEW i \in 1..Len(v), NEW j \in 1..Len(v), i < j, v[i] > 0, v[j] > 0
      PROVE  IF Clears(v, i, j) THEN v[i] < v[j] ELSE v[i] = v[j]
  <2>1. i \in 1..Len(w) /\ v[i] = w[i] /\ i \in Int /\ j \in Int /\ j <= m /\ w[i] \in Int
    BY <1>4, <1>c
  <2>2. Clears(v, i, j) <=> Clears(w, i, j)
    BY <1>5, <2>1
  <2>3. CASE j = m
    <3>1. v[j] = o2 /\ o2 > 0 /\ w[i] <= e
      BY <1>4, <1>8, <1>c, <2>1, <2>3
    <3>2. IF Clears(w, i, m) THEN o = 0 \/ w[i] < o ELSE o = w[i]
      BY <1>8, <1>c, <2>1
    <3>3. IF Clears(w, i, m) THEN w[i] < o2 ELSE w[i] = o2
      BY <1>c, <2>1, <3>1, <3>2
    <3> QED BY <2>1, <2>2, <2>3, <3>1, <3>3
  <2>4. CASE j # m
    BY <1>4, <1>7, <1>c, <2>1, <2>2, <2>4
  <2> QED BY <2>3, <2>4
<1>d. ASSUME NEW i \in 1..Len(v), v[i] > 0
      PROVE  /\ v[i] <= e2
             /\ IF Clears(v, i, Len(v) + 1) THEN o2 = 0 \/ v[i] < o2 ELSE o2 = v[i]
             /\ \A x \in K : x <= v[i]
             /\ v[i] \in K <=> up /\ ~Clears(v, 0, i)
  <2>1. CASE i = m
    <3>1. v[i] = o2 /\ o2 > 0 /\ ~(m < m) /\ m \in Int /\ 0 \in Int
      BY <1>4, <1>d, <2>1
    <3>2. ~Clears(w, m, m) /\ ~Clears(v, i, Len(v) + 1)
      <4>1. ~Clears(w, m, m)
        BY <1>1, <1>3 DEF Clears
      <4> QED BY <1>4, <1>5, <2>1, <3>1, <4>1
    <3>3. Clears(v, 0, i) <=> Clears(w, 0, m)
      BY <1>4, <1>5, <2>1, <3>1
    <3>4. o2 \in K <=> up /\ ~Clears(w, 0, m)
      BY <1>6, <1>9, <1>a, <3>1
    <3>5. \A x \in K : x <= o2
      BY <1>6, <1>a, <3>1
    <3> QED BY <1>a, <3>1, <3>2, <3>3, <3>4, <3>5
  <2>2. CASE i # m
    <3>1. i \in 1..Len(w) /\ v[i] = w[i] /\ i \in Int /\ i <= m /\ i < m /\ w[i] \in Int /\ w[i] > 0 /\ 0 \in Int
      BY <1>4, <1>d, <2>2
    <3>2. /\ Clears(v, 0, i) <=> Clears(w, 0, i)
          /\ Clears(v, i, Len(v) + 1) <=> Clears(w, i, m) \/ o2 = 0
      BY <1>4, <1>5, <3>1
    <3>3. /\ w[i] <= e
          /\ IF Clears(w, i, m) THEN o = 0 \/ w[i] < o ELSE o = w[i]
          /\ \A x \in K : x <= w[i]
          /\ w[i] \in K <=> up /\ ~Clears(w, 0, i)
      BY <1>8, <3>1
    <3>4. IF Clears(w, i, m) \/ o2 = 0 THEN o2 = 0 \/ w[i] < o2 ELSE o2 = w[i]
      BY <3>1, <3>3
    <3>5. w[i] <= e2
      BY <3>1, <3>3
    <3> QED BY <3>1, <3>2, <3>3, <3>4, <3>5
  <2> QED BY <2>1, <2>2
<1>e. /\ up /\ ~Clears(v, 0, Len(v) + 1) => o2 # 0
      /\ o2 # 0 => (o2 \in K <=> up /\ ~Clears(v, 0, Len(v) + 1))
  <2>1. Clears(v, 0, Len(v) + 1) <=> Clears(w, 0, m) \/ o2 = 0
    BY <1>4, <1>5
  <2> QED BY <1>6, <1>9, <1>a, <2>1
<1> QED BY <1>2, <1>a, <1>b, <1>c, <1>d, <1>e DEF ConditionLine

\* Another node is applied.
LEMMA LineSkip ==
  ASSUME NEW w \in Seq(Int), NEW o \in Nat, NEW e \in Nat, NEW K \in SUBSET Nat, NEW up \in BOOLEAN,
         ConditionLine(w, o, e, K, up)
  PROVE  ConditionLine(Append(w, -1), o, e, K, up)
<1>0. -1 \in Int
  OBVIOUS
<1>1. /\ Len(w) \in Nat /\ Len(Append(w, -1)) = Len(w) + 1
      /\ \A l \in 1..Len(w) : Append(w, -1)[l] = w[l]
      /\ Append(w, -1)[Len(w) + 1] = -1
  BY <1>0, AppendProperties, LenProperties
<1>2. PICK v : v = Append(w, -1)
  OBVIOUS
<1>3. PICK m : m = Len(w) + 1
  OBVIOUS
<1>4. /\ m \in Nat /\ m > 0 /\ Len(v) = m /\ ~(v[m] > 0)
      /\ \A l \in 1..Len(v) : (l = m) \/ (l \in 1..Len(w) /\ v[l] = w[l])
      /\ \A l \in 1..Len(w) : l \in 1..Len(v) /\ v[l] = w[l] /\ l < m
  BY <1>1, <1>2, <1>3
<1>5. /\ \A i \in Int : \A j \in Int : j <= m => (Clears(v, i, j) <=> Clears(w, i, j))
      /\ \A i \in Int : Clears(v, i, m + 1) <=> Clears(w, i, m)
  <2>1. Len(w) + 2 = m + 1 /\ ~(-1 = 0)
    BY <1>1, <1>3
  <2> QED BY <1>0, <1>2, <1>3, <2>1, ClearsAppend
<1>6. \A l \in 1..Len(v) : v[l] > 0 => l \in 1..Len(w) /\ v[l] = w[l] /\ l \in Int /\ l <= m
  BY <1>4
<1>7. /\ o = 0 \/ o = e
      /\ \A x \in K : x <= e
      /\ \A x \in 1..e : x \in K \/ \E i \in 1..Len(v) : v[i] = x
  BY <1>4 DEF ConditionLine
<1>8. ASSUME NEW i \in 1..Len(v), NEW j \in 1..Len(v), i < j, v[i] > 0, v[j] > 0
      PROVE  IF Clears(v, i, j) THEN v[i] < v[j] ELSE v[i] = v[j]
  BY <1>5, <1>6, <1>8 DEF ConditionLine
<1>9. ASSUME NEW i \in 1..Len(v), v[i] > 0
      PROVE  /\ v[i] <= e
             /\ IF Clears(v, i, Len(v) + 1) THEN o = 0 \/ v[i] < o ELSE o = v[i]
             /\ \A x \in K : x <= v[i]
             /\ v[i] \in K <=> up /\ ~Clears(v, 0, i)
  <2>1. i \in 1..Len(w) /\ v[i] = w[i] /\ w[i] > 0
    BY <1>6, <1>9
  <2>2. /\ Clears(v, 0, i) <=> Clears(w, 0, i)
        /\ Clears(v, i, Len(v) + 1) <=> Clears(w, i, m)
    BY <1>4, <1>5, <1>6, <1>9
  <2> QED BY <1>3, <2>1, <2>2 DEF ConditionLine
<1>a. /\ up /\ ~Clears(v, 0, Len(v) + 1) => o # 0
      /\ o # 0 => (o \in K <=> up /\ ~Clears(v, 0, Len(v) + 1))
  <2>1. Clears(v, 0, Len(v) + 1) <=> Clears(w, 0, m)
    BY <1>4, <1>5
  <2> QED BY <1>3, <2>1 DEF ConditionLine
<1> QED BY <1>2, <1>7, <1>8, <1>9, <1>a DEF ConditionLine
\* What the agent makes of an apply that says h: the episodes decided on, and whether it
\* holds the condition raised.
Decided(h, K, up) == IF h > 0 /\ ~up THEN K \cup {h} ELSE K
Follows(h, up) == IF h < 0 THEN up ELSE h > 0

\* The agent takes what the stream says next: a condition that is active and not yet
\* raised is the only thing it has to signal, and has not been signalled.
LEMMA LineTake ==
  ASSUME NEW w \in Seq(Int), Len(w) > 0, NEW o \in Nat, NEW e \in Nat, NEW K \in SUBSET Nat, NEW up \in BOOLEAN,
         ConditionLine(w, o, e, K, up)
  PROVE  /\ ConditionLine(Tail(w), o, e, Decided(w[1], K, up), Follows(w[1], up))
         /\ w[1] > 0 => (w[1] \in K <=> up)
<1>0. w # << >>
  OBVIOUS
<1>1. /\ Len(w) \in Nat /\ Len(w) > 0 /\ Len(Tail(w)) = Len(w) - 1
      /\ \A l \in 1..Len(Tail(w)) : Tail(w)[l] = w[l + 1]
      /\ \A l \in 1..Len(w) : w[l] \in Int
  BY <1>0, HeadTailProperties, LenProperties, EmptySeq, ElementOfSeq
<1>2. PICK v : v = Tail(w)
  OBVIOUS
<1>3. PICK h : h = w[1]
  OBVIOUS
<1>4. /\ Len(v) \in Nat /\ Len(w) + 1 = (Len(v) + 1) + 1 /\ h \in Int /\ 1 \in 1..Len(w)
      /\ \A l \in 1..Len(v) : /\ v[l] = w[l + 1] /\ l + 1 \in 1..Len(w) /\ 1 < l + 1
                              /\ l \in Nat /\ l > 0 /\ v[l] \in Int
      /\ \A l \in 1..Len(w) : (l = 1) \/ (l - 1 \in 1..Len(v) /\ v[l - 1] = w[l])
  <2>1. \A l \in 1..Len(v) : l + 1 \in 1..Len(w) /\ 1 < l + 1 /\ l \in Nat /\ l > 0
    BY <1>1, <1>2
  <2>2. ASSUME NEW l \in 1..Len(w), l # 1 PROVE l - 1 \in 1..Len(v) /\ (l - 1) + 1 = l
    BY <1>1, <1>2, <2>2
  <2>3. Len(v) \in Nat /\ Len(w) + 1 = (Len(v) + 1) + 1 /\ 1 \in 1..Len(w)
    BY <1>1, <1>2
  <2> QED BY <1>1, <1>2, <1>3, <2>1, <2>2, <2>3
<1>5. /\ \A i \in Nat : \A j \in Nat : Clears(v, i, j) <=> Clears(w, i + 1, j + 1)
      /\ \A j \in Nat : Clears(w, 0, j + 1) <=> (j > 0 /\ h = 0) \/ Clears(w, 1, j + 1)
      /\ \A j \in Nat : Clears(v, 0, j) <=> Clears(w, 1, j + 1)
  <2>1. 0 \in Nat /\ 0 + 1 = 1
    OBVIOUS
  <2> QED BY <1>0, <1>2, <1>3, <2>1, ClearsTail
<1>6. /\ o = 0 \/ o = e
      /\ \A x \in K : x <= e
      /\ \A x \in 1..e : x \in K \/ \E i \in 1..Len(w) : w[i] = x
  BY DEF ConditionLine
<1>7. \A i, j \in 1..Len(w) : i < j /\ w[i] > 0 /\ w[j] > 0 =>
        IF Clears(w, i, j) THEN w[i] < w[j] ELSE w[i] = w[j]
  BY DEF ConditionLine
<1>8. \A i \in 1..Len(w) : w[i] > 0 =>
        /\ w[i] <= e
        /\ IF Clears(w, i, Len(w) + 1) THEN o = 0 \/ w[i] < o ELSE o = w[i]
        /\ \A x \in K : x <= w[i]
        /\ w[i] \in K <=> up /\ ~Clears(w, 0, i)
  BY DEF ConditionLine
<1>9. /\ up /\ ~Clears(w, 0, Len(w) + 1) => o # 0
      /\ o # 0 => (o \in K <=> up /\ ~Clears(w, 0, Len(w) + 1))
  BY DEF ConditionLine
<1>k. PICK K2 : K2 = Decided(h, K, up)
  OBVIOUS
<1>u. PICK up2 : up2 = Follows(h, up)
  OBVIOUS
<1>a. /\ K2 = (IF h > 0 /\ ~up THEN K \cup {h} ELSE K)
      /\ up2 <=> (IF h < 0 THEN up ELSE h > 0)
      /\ up2 \in BOOLEAN
  <2>1. K2 = (IF h > 0 /\ ~up THEN K \cup {h} ELSE K)
    BY <1>k DEF Decided
  <2>2. CASE h < 0
    BY <1>u, <2>1, <2>2 DEF Follows
  <2>3. CASE ~(h < 0)
    <3>1. up2 = (h > 0)
      BY <1>u, <2>3 DEF Follows
    <3>2. up2 \in BOOLEAN
      BY <3>1
    <3> QED BY <2>1, <2>3, <3>1, <3>2
  <2> QED BY <2>2, <2>3
<1>b. h > 0 => /\ h <= e /\ (\A x \in K : x <= h)
               /\ h \in K <=> up
               /\ IF Clears(w, 1, Len(w) + 1) THEN o = 0 \/ h < o ELSE o = h
  <2>1. ~Clears(w, 0, 1)
    BY <1>1 DEF Clears
  <2> QED BY <1>3, <1>4, <1>8, <2>1
<1>c. /\ \A x \in K2 : x <= e
      /\ \A x \in 1..e : x \in K2 \/ \E i \in 1..Len(v) : v[i] = x
  <2>1. \A x \in K2 : x <= e
    BY <1>6, <1>a, <1>b
  <2>2. ASSUME NEW x \in 1..e, x \notin K2 PROVE \E i \in 1..Len(v) : v[i] = x
    <3>1. PICK i \in 1..Len(w) : w[i] = x
      BY <1>6, <1>a, <2>2
    <3>2. i # 1
      BY <1>3, <1>a, <1>b, <2>2, <3>1
    <3> QED BY <1>4, <3>1, <3>2
  <2> QED BY <2>1, <2>2
<1>d. ASSUME NEW i \in 1..Len(v), NEW j \in 1..Len(v), i < j, v[i] > 0, v[j] > 0
      PROVE  IF Clears(v, i, j) THEN v[i] < v[j] ELSE v[i] = v[j]
  <2>1. /\ i + 1 \in 1..Len(w) /\ j + 1 \in 1..Len(w) /\ i + 1 < j + 1
        /\ v[i] = w[i + 1] /\ v[j] = w[j + 1] /\ i \in Nat /\ j \in Nat
    BY <1>4, <1>d
  <2> QED BY <1>5, <1>7, <1>d, <2>1
\* What comes later and is active: known when nothing clears it before.
<1>e. ASSUME NEW y \in Nat, y > 0, NEW j \in Nat, j > 0,
             y \in K <=> up /\ ~Clears(w, 0, j + 1),
             h > 0 => IF Clears(w, 1, j + 1) THEN h < y ELSE y = h
      PROVE  y \in K2 <=> up2 /\ ~Clears(v, 0, j)
  <2>1. /\ Clears(v, 0, j) <=> Clears(w, 1, j + 1)
        /\ Clears(w, 0, j + 1) <=> h = 0 \/ Clears(w, 1, j + 1)
    BY <1>5, <1>e
  <2>2. CASE h > 0
    <3>1. IF Clears(w, 1, j + 1) THEN h < y ELSE y = h
      BY <1>e, <2>2
    <3>2. up2 /\ ~(h = 0)
      BY <1>4, <1>a, <2>2
    <3>3. CASE up
      BY <1>a, <1>e, <2>1, <3>2, <3>3
    <3>4. CASE ~up
      BY <1>4, <1>a, <1>e, <2>1, <2>2, <3>1, <3>2, <3>4
    <3> QED BY <3>3, <3>4
  <2>3. CASE ~(h > 0)
    BY <1>4, <1>a, <1>e, <2>1, <2>3
  <2> QED BY <2>2, <2>3
<1>f. ASSUME NEW i \in 1..Len(v), v[i] > 0
      PROVE  /\ v[i] <= e
             /\ IF Clears(v, i, Len(v) + 1) THEN o = 0 \/ v[i] < o ELSE o = v[i]
             /\ \A x \in K2 : x <= v[i]
             /\ v[i] \in K2 <=> up2 /\ ~Clears(v, 0, i)
  <2>1. /\ i + 1 \in 1..Len(w) /\ v[i] = w[i + 1] /\ i \in Nat /\ i > 0 /\ 1 < i + 1
        /\ v[i] \in Nat /\ Len(v) + 1 \in Nat
    <3>1. v[i] \in Int
      BY <1>4
    <3>2. v[i] \in Nat
      BY <1>f, <3>1
    <3> QED BY <1>4, <3>2
  <2>2. /\ v[i] <= e
        /\ IF Clears(w, i + 1, Len(w) + 1) THEN o = 0 \/ v[i] < o ELSE o = v[i]
        /\ \A x \in K : x <= v[i]
        /\ v[i] \in K <=> up /\ ~Clears(w, 0, i + 1)
    BY <1>8, <1>f, <2>1
  <2>3. Clears(v, i, Len(v) + 1) <=> Clears(w, i + 1, Len(w) + 1)
    BY <1>4, <1>5, <2>1
  <2>4. h > 0 => IF Clears(w, 1, i + 1) THEN h < v[i] ELSE v[i] = h
    BY <1>3, <1>4, <1>7, <1>f, <2>1
  <2>5. v[i] \in K2 <=> up2 /\ ~Clears(v, 0, i)
    BY <1>e, <1>f, <2>1, <2>2, <2>4
  <2>6. \A x \in K2 : x <= v[i]
    <3>1. h > 0 => h <= v[i]
      BY <1>4, <2>1, <2>4
    <3> QED BY <1>a, <2>2, <3>1
  <2> QED BY <2>2, <2>3, <2>5, <2>6
<1>g. /\ up2 /\ ~Clears(v, 0, Len(v) + 1) => o # 0
      /\ o # 0 => (o \in K2 <=> up2 /\ ~Clears(v, 0, Len(v) + 1))
  <2>1. PICK j : j = Len(v) + 1
    OBVIOUS
  <2>2. j \in Nat /\ j > 0 /\ j + 1 = Len(w) + 1
    BY <1>4, <2>1
  <2>3. /\ Clears(v, 0, j) <=> Clears(w, 1, j + 1)
        /\ Clears(w, 0, j + 1) <=> h = 0 \/ Clears(w, 1, j + 1)
    BY <1>5, <2>2
  <2>4. /\ up /\ ~Clears(w, 0, j + 1) => o # 0
        /\ o # 0 => (o \in K <=> up /\ ~Clears(w, 0, j + 1))
    BY <1>9, <2>2
  <2>5. h > 0 => IF Clears(w, 1, j + 1) THEN o = 0 \/ h < o ELSE o = h
    BY <1>b, <2>2
  <2>6. up2 /\ ~Clears(v, 0, j) => o # 0
    <3>1. CASE h > 0
      BY <1>4, <2>3, <2>5, <3>1
    <3>2. CASE h = 0
      <4>1. ~up2
        BY <1>a, <3>2
      <4> QED BY <4>1
    <3>3. CASE h < 0
      <4>1. up2 = up /\ ~(h = 0)
        BY <1>4, <1>a, <3>3
      <4> QED BY <2>3, <2>4, <4>1
    <3>4. h > 0 \/ h = 0 \/ h < 0
      BY <1>4
    <3> QED BY <3>1, <3>2, <3>3, <3>4
  <2>7. o # 0 => (o \in K2 <=> up2 /\ ~Clears(v, 0, j))
    <3> SUFFICES ASSUME o # 0 PROVE o \in K2 <=> up2 /\ ~Clears(v, 0, j)
      OBVIOUS
    <3>1. o \in Nat /\ o > 0
      OBVIOUS
    <3>2. o \in K <=> up /\ ~Clears(w, 0, j + 1)
      BY <2>4
    <3>3. h > 0 => IF Clears(w, 1, j + 1) THEN h < o ELSE o = h
      BY <2>5
    <3> QED BY <1>e, <2>2, <3>1, <3>2, <3>3
  <2> QED BY <2>1, <2>6, <2>7
<1>h. ConditionLine(v, o, e, K2, up2)
  BY <1>6, <1>c, <1>d, <1>f, <1>g DEF ConditionLine
<1> QED BY <1>2, <1>3, <1>b, <1>h, <1>k, <1>u

\* A snapshot: everything there has been is decided on, and what is active is raised.
LEMMA LineSnapshot ==
  ASSUME NEW o \in Nat, NEW e \in Nat, o = 0 \/ o = e, NEW up \in BOOLEAN, up <=> o # 0
  PROVE  ConditionLine(<< >>, o, e, 1..e, up)
<1>1. Len(<< >>) = 0 /\ 1..0 = {}
  OBVIOUS
<1>2. \A i, j : ~Clears(<< >>, i, j)
  BY <1>1 DEF Clears
<1>3. o # 0 => o \in 1..e
  OBVIOUS
<1>4. \A x \in 1..e : x <= e
  OBVIOUS
<1> QED BY <1>1, <1>2, <1>3, <1>4 DEF ConditionLine
-----------------------------------------------------------------------------
(* Sequences *)

USE KubeWatchAssumption

\* SetToSeq lists a finite set, each element once.
LEMMA SetToSeqLists ==
  ASSUME NEW S, IsFiniteSet(S)
  PROVE  SetToSeq(S) \in Seq(S) /\ IsInjective(SetToSeq(S)) /\ Range(SetToSeq(S)) = S
<1>1. Cardinality(S) \in Nat /\ ExistsBijection(1..Cardinality(S), S)
  BY FS_CardinalityType
<1>2. \E f \in [1..Cardinality(S) -> S] : IsInjective(f)
  BY <1>1 DEF ExistsBijection, Bijection, Injection
<1>3. PICK f : f = SetToSeq(S)
  OBVIOUS
<1>4. f \in [1..Cardinality(S) -> S] /\ IsInjective(f)
  BY <1>2, <1>3 DEF SetToSeq
<1>5. f \in Injection(1..Cardinality(S), S)
  BY <1>4 DEF Injection
<1>6. Cardinality(1..Cardinality(S)) = Cardinality(S)
  BY <1>1, FS_Interval
<1>7. f \in Surjection(1..Cardinality(S), S)
  BY <1>5, <1>6, FS_Injection
<1>8. Range(f) = S
  BY <1>4, <1>7 DEF Surjection, Range
<1>9. f \in Seq(S)
  BY <1>1, <1>4, IsASeq
<1> QED BY <1>3, <1>4, <1>8, <1>9

\* Taking the head off a list without repetition.
LEMMA TakeHead ==
  ASSUME NEW S, NEW q \in Seq(S), q # << >>, IsInjective(q)
  PROVE  /\ Head(q) \in S /\ Head(q) \in Range(q) /\ Tail(q) \in Seq(S)
         /\ IsInjective(Tail(q)) /\ Range(Tail(q)) = Range(q) \ {Head(q)}
<1>1. /\ Len(q) \in Nat /\ Len(q) > 0 /\ DOMAIN q = 1..Len(q) /\ Head(q) = q[1]
      /\ Tail(q) \in Seq(S) /\ Head(q) \in S
      /\ DOMAIN Tail(q) = 1..(Len(q) - 1)
      /\ \A i \in 1..(Len(q) - 1) : Tail(q)[i] = q[i + 1]
  BY HeadTailProperties, LenProperties, EmptySeq
<1>2. PICK v : v = Tail(q)
  OBVIOUS
<1>3. \A i \in DOMAIN v : i + 1 \in DOMAIN q /\ v[i] = q[i + 1] /\ i + 1 # 1
  BY <1>1, <1>2
<1>4. \A i \in DOMAIN q : i = 1 \/ (i - 1 \in DOMAIN v /\ v[i - 1] = q[i])
  <2>1. ASSUME NEW i \in DOMAIN q, i # 1 PROVE i - 1 \in DOMAIN v /\ (i - 1) + 1 = i
    BY <1>1, <1>2, <2>1
  <2> QED BY <1>3, <2>1
<1>5. 1 \in DOMAIN q
  BY <1>1
<1>6. IsInjective(v)
  <2>1. ASSUME NEW a \in DOMAIN v, NEW b \in DOMAIN v, v[a] = v[b] PROVE a = b
    <3>1. a + 1 = b + 1
      BY <1>3, <2>1 DEF IsInjective
    <3>2. a \in Int /\ b \in Int
      BY <1>1, <1>2
    <3> QED BY <3>1, <3>2
  <2> QED BY <2>1 DEF IsInjective
<1>7. Range(v) = Range(q) \ {q[1]}
  <2>1. ASSUME NEW i \in DOMAIN v PROVE v[i] \in Range(q) \ {q[1]}
    BY <1>3, <1>5 DEF Range, IsInjective
  <2>2. ASSUME NEW i \in DOMAIN q, q[i] # q[1] PROVE q[i] \in Range(v)
    BY <1>4, <2>2 DEF Range
  <2> QED BY <2>1, <2>2 DEF Range
<1>8. q[1] \in Range(q)
  BY <1>5 DEF Range
<1> QED BY <1>1, <1>2, <1>6, <1>7, <1>8

\* What the stream says of a condition.
LEMMA SayingsType ==
  ASSUME NEW q \in Seq(NodeApplies), NEW n, NEW k \in Conditions
  PROVE  Sayings(q, n, k) \in Seq(Int) /\ Len(Sayings(q, n, k)) = Len(q)
<1>1. Len(q) \in Nat /\ \A i \in 1..Len(q) : q[i] \in NodeApplies
  BY LenProperties, ElementOfSeq
<1>2. \A i \in 1..Len(q) : q[i].value[k] \in Int
  BY <1>1 DEF NodeApplies, Episodes
<1>3. Sayings(q, n, k) \in [1..Len(q) -> Int]
  BY <1>2 DEF Sayings
<1> QED BY <1>1, <1>3, IsASeq, LenProperties DEF Sayings

LEMMA SayingsAppend ==
  ASSUME NEW q \in Seq(NodeApplies), NEW r \in NodeApplies, NEW n, NEW k \in Conditions
  PROVE  Sayings(Append(q, r), n, k) = Append(Sayings(q, n, k), IF r.key = n THEN r.value[k] ELSE -1)
<1>1. PICK x : x = IF r.key = n THEN r.value[k] ELSE -1
  OBVIOUS
<1>2. x \in Int
  BY <1>1 DEF NodeApplies, Episodes
<1>3. PICK a : a = Sayings(Append(q, r), n, k)
  OBVIOUS
<1>4. PICK w : w = Sayings(q, n, k)
  OBVIOUS
<1>5. PICK b : b = Append(w, x)
  OBVIOUS
<1>6. /\ Append(q, r) \in Seq(NodeApplies) /\ Len(Append(q, r)) = Len(q) + 1 /\ Len(q) \in Nat
      /\ \A i \in 1..Len(q) : Append(q, r)[i] = q[i]
      /\ Append(q, r)[Len(q) + 1] = r
  BY AppendProperties, LenProperties
<1>7. a \in Seq(Int) /\ Len(a) = Len(q) + 1 /\ w \in Seq(Int) /\ Len(w) = Len(q)
  BY <1>3, <1>4, <1>6, SayingsType
<1>8. /\ b \in Seq(Int) /\ Len(b) = Len(q) + 1
      /\ \A i \in 1..Len(q) : b[i] = w[i]
      /\ b[Len(q) + 1] = x
  BY <1>2, <1>5, <1>7, AppendProperties
<1>9. ASSUME NEW i \in 1..Len(a) PROVE a[i] = b[i]
  <2>1. CASE i = Len(q) + 1
    <3>1. i \in 1..Len(Append(q, r))
      BY <1>6, <1>7, <2>1
    <3> QED BY <1>1, <1>3, <1>6, <1>8, <2>1, <3>1 DEF Sayings
  <2>2. CASE i # Len(q) + 1
    <3>1. i \in 1..Len(q) /\ i \in 1..Len(Append(q, r))
      BY <1>6, <1>7, <2>2
    <3> QED BY <1>3, <1>4, <1>6, <1>8, <3>1 DEF Sayings
  <2> QED BY <2>1, <2>2
<1>a. a = b
  BY <1>7, <1>8, <1>9, SeqEqual
<1> QED BY <1>1, <1>3, <1>4, <1>5, <1>a

LEMMA SayingsTail ==
  ASSUME NEW q \in Seq(NodeApplies), q # << >>, NEW n, NEW k \in Conditions
  PROVE  /\ Sayings(q, n, k) # << >> /\ Sayings(Tail(q), n, k) = Tail(Sayings(q, n, k))
         /\ Sayings(q, n, k)[1] = IF Head(q).key = n THEN Head(q).value[k] ELSE -1
<1>1. PICK a : a = Sayings(Tail(q), n, k)
  OBVIOUS
<1>2. PICK w : w = Sayings(q, n, k)
  OBVIOUS
<1>3. /\ Tail(q) \in Seq(NodeApplies) /\ Len(Tail(q)) = Len(q) - 1 /\ Len(q) \in Nat /\ Len(q) > 0
      /\ Head(q) = q[1]
      /\ \A i \in 1..Len(Tail(q)) : Tail(q)[i] = q[i + 1]
  BY HeadTailProperties, LenProperties, EmptySeq
<1>4. a \in Seq(Int) /\ Len(a) = Len(q) - 1 /\ w \in Seq(Int) /\ Len(w) = Len(q)
  BY <1>1, <1>2, <1>3, SayingsType
<1>5. w # << >>
  BY <1>3, <1>4
<1>6. PICK b : b = Tail(w)
  OBVIOUS
<1>7. /\ b \in Seq(Int) /\ Len(b) = Len(q) - 1
      /\ \A i \in 1..Len(b) : b[i] = w[i + 1]
  BY <1>4, <1>5, <1>6, HeadTailProperties
<1>8. ASSUME NEW i \in 1..Len(a) PROVE a[i] = b[i]
  <2>1. i \in 1..Len(Tail(q)) /\ i \in 1..Len(b) /\ i + 1 \in 1..Len(q)
    BY <1>3, <1>4, <1>7
  <2> QED BY <1>1, <1>2, <1>3, <1>7, <2>1 DEF Sayings
<1>9. a = b
  BY <1>4, <1>7, <1>8, SeqEqual
<1>a. w[1] = IF q[1].key = n THEN q[1].value[k] ELSE -1
  <2>1. 1 \in 1..Len(q)
    BY <1>3
  <2> QED BY <1>2, <2>1 DEF Sayings
<1> QED BY <1>1, <1>2, <1>3, <1>5, <1>6, <1>9, <1>a
-----------------------------------------------------------------------------
(* Publishing *)

\* The types of what is sent, for both watches.
LEMMA SignalTypes ==
  ASSUME KwTypeOK
  PROVE  sendingNow \in Seq(Signals) /\ signalled \in [Signals -> Nat]
<1>1. CASE watch = "events"
  BY <1>1 DEF KwTypeOK, EventTypes, Signals, EventSignals
<1>2. CASE watch = "nodes"
  BY <1>2 DEF KwTypeOK, NodeTypes, Signals, NodeSignals
<1> QED BY <1>1, <1>2 DEF KwTypeOK

\* The signals of each watch.
LEMMA SignalsAre ==
  /\ watch = "events" => Signals = EventSignals
  /\ watch = "nodes" => Signals = NodeSignals
BY DEF Signals, EventSignals, NodeSignals

\* A step that leaves the publisher alone.
LEMMA PublisherIdle ==
  ASSUME UNCHANGED <<watch, sendingNow, signalled, unsent, passedOver>>, SendsOnce
  PROVE  Signals' = Signals /\ KwKnown' = KwKnown /\ SendsOnce'
<1>1. Signals' = Signals
  BY DEF Signals
<1> QED BY <1>1 DEF KwKnown, SendsOnce

\* A publish, sent or failed, is of a signal decided on, and decides on no other.
LEMMA PublishOnce ==
  ASSUME KwTypeOK, SendsOnce, PublishSignal \/ PublishSignalFails
  PROVE  /\ Signals' = Signals /\ KwKnown' = KwKnown /\ SendsOnce'
         /\ sendingNow' \in Seq(Signals) /\ signalled' \in [Signals -> Nat]
<1>1. /\ sendingNow # << >> /\ sendingNow' = Tail(sendingNow)
      /\ UNCHANGED <<watch, passedOver>>
  BY DEF PublishSignal, PublishSignalFails
<1>2. PICK h : h = Head(sendingNow)
  OBVIOUS
<1>3. sendingNow \in Seq(Signals) /\ signalled \in [Signals -> Nat]
  BY SignalTypes
<1>4. /\ h \in Signals /\ h \in Range(sendingNow) /\ sendingNow' \in Seq(Signals)
      /\ IsInjective(sendingNow') /\ Range(sendingNow') = Range(sendingNow) \ {h}
  BY <1>1, <1>2, <1>3, TakeHead DEF SendsOnce
<1>5. Signals' = Signals
  BY <1>1 DEF Signals
<1>6. /\ signalled[h] = 0 /\ h \notin unsent
      /\ \A s \in Range(sendingNow') : s # h /\ signalled[s] = 0 /\ s \notin unsent /\ s \in Signals
      /\ \A s \in Signals : signalled[s] <= 1 /\ (signalled[s] = 1 => s \notin unsent)
  <2>1. \A s \in Range(sendingNow') : s \in Signals
    BY <1>4, RangeOfSeq DEF Range
  <2> QED BY <1>4, <2>1 DEF SendsOnce
<1>7. CASE PublishSignal
  <2>1. unsent' = unsent /\ signalled' = [signalled EXCEPT ![h] = @ + 1]
    BY <1>2, <1>7 DEF PublishSignal
  <2>2. /\ signalled' \in [Signals -> Nat] /\ signalled'[h] = 1
        /\ \A s \in Signals : s # h => signalled'[s] = signalled[s]
    BY <1>3, <1>4, <1>6, <2>1
  <2>3. KwKnown' = KwKnown
    <3>1. ASSUME NEW s \in Signals
          PROVE  /\ signalled'[s] > 0 <=> signalled[s] > 0 \/ s = h
                 /\ s \in Range(sendingNow) <=> s \in Range(sendingNow') \/ s = h
      BY <1>3, <1>4, <1>6, <2>2
    <3> QED BY <1>1, <1>5, <2>1, <3>1 DEF KwKnown
  <2>4. SendsOnce'
    <3>1. \A s \in Range(sendingNow') : signalled'[s] = 0 /\ s \notin unsent'
      BY <1>6, <2>1, <2>2
    <3>2. \A s \in Signals : signalled'[s] <= 1 /\ (signalled'[s] = 1 => s \notin unsent')
      BY <1>6, <2>1, <2>2
    <3> QED BY <1>4, <1>5, <3>1, <3>2 DEF SendsOnce
  <2> QED BY <1>4, <1>5, <2>2, <2>3, <2>4
<1>8. CASE PublishSignalFails
  <2>1. unsent' = unsent \cup {h} /\ signalled' = signalled
    BY <1>2, <1>8 DEF PublishSignalFails
  <2>2. KwKnown' = KwKnown
    <3>1. ASSUME NEW s \in Signals
          PROVE  /\ s \in unsent' <=> s \in unsent \/ s = h
                 /\ s \in Range(sendingNow) <=> s \in Range(sendingNow') \/ s = h
      BY <1>4, <2>1
    <3> QED BY <1>1, <1>5, <2>1, <3>1 DEF KwKnown
  <2>3. SendsOnce'
    <3>1. \A s \in Range(sendingNow') : signalled'[s] = 0 /\ s \notin unsent'
      BY <1>6, <2>1
    <3>2. \A s \in Signals : signalled'[s] <= 1 /\ (signalled'[s] = 1 => s \notin unsent')
      BY <1>6, <2>1
    <3> QED BY <1>4, <1>5, <3>1, <3>2 DEF SendsOnce
  <2> QED BY <1>3, <1>4, <1>5, <2>1, <2>2, <2>3
<1> QED BY <1>7, <1>8

\* The lines of the conditions and Events do not depend on how a signal fares.
LEMMA PublishInv ==
  ASSUME KwInv, PublishSignal \/ PublishSignalFails
  PROVE  KwInv'
<1>1. UNCHANGED <<watch, object, episode, stream, seen, raised>>
  BY DEF PublishSignal, PublishSignalFails
<1>2. /\ Signals' = Signals /\ KwKnown' = KwKnown /\ SendsOnce'
      /\ sendingNow' \in Seq(Signals) /\ signalled' \in [Signals -> Nat]
  BY PublishOnce DEF KwInv
<1>3. KwTypeOK'
  <2>1. CASE watch = "events"
    BY <1>1, <1>2, <2>1, SignalsAre DEF KwInv, KwTypeOK, EventTypes
  <2>2. CASE watch = "nodes"
    BY <1>1, <1>2, <2>2, SignalsAre DEF KwInv, KwTypeOK, NodeTypes
  <2> QED BY <2>1, <2>2 DEF KwInv, KwTypeOK
<1>4. ASSUME watch = "events", NEW u \in Uids PROVE EventLine(u)'
  <2>1. EventLine(u)
    BY <1>4 DEF KwInv
  <2> QED BY <1>1, <1>2, <2>1 DEF EventLine
<1>5. ASSUME watch = "nodes", NEW n \in Nodes, NEW k \in Conditions PROVE NodeLine(n, k)'
  <2>1. NodeLine(n, k)
    BY <1>5 DEF KwInv
  <2>2. Sayings(stream, n, k)' = Sayings(stream, n, k) /\ KnownOf(n, k)' = KnownOf(n, k)
    BY <1>1, <1>2 DEF Sayings, KnownOf
  <2> QED BY <1>1, <2>1, <2>2 DEF NodeLine
<1> QED BY <1>1, <1>2, <1>3, <1>4, <1>5 DEF KwInv
-----------------------------------------------------------------------------
(* The watch of Events *)

EventApplies == [key : Uids, value : 0..MaxCount]

\* An apply of the object as it now is, whose count has moved by one or not at all.
LEMMA EventApplied ==
  ASSUME EventTypes, NEW u \in Uids,
         object' \in Counts, object'[u] = object[u] \/ object'[u] = object[u] + 1, object'[u] # -1,
         \A v \in Uids : v # u => object'[v] = object[v],
         stream' = Append(stream, [key |-> u, value |-> object'[u]]),
         seen' = seen, KwKnown' = KwKnown,
         NEW v \in Uids, EventLine(v)
  PROVE  EventLine(v)' /\ stream' \in Seq(EventApplies)
<1>1. /\ MaxCount \in Nat /\ stream \in Seq(EventApplies)
      /\ object[u] \in -1..MaxCount /\ object'[u] \in -1..MaxCount
      /\ object[v] \in -1..MaxCount /\ object'[v] \in -1..MaxCount /\ seen[v] \in -1..MaxCount
  BY DEF EventTypes, Counts, EventApplies
<1>2. PICK r : r = [key |-> u, value |-> object'[u]]
  OBVIOUS
<1>3. r \in EventApplies /\ r.key = u /\ r.value = object'[u]
  <2>1. object'[u] \in 0..MaxCount
    BY <1>1
  <2> QED BY <1>2, <2>1 DEF EventApplies
<1>4. /\ stream' \in Seq(EventApplies) /\ Len(stream') = Len(stream) + 1 /\ Len(stream) \in Nat
      /\ \A i \in 1..Len(stream) : stream'[i] = stream[i] /\ stream[i] \in EventApplies
      /\ stream'[Len(stream) + 1] = r
      /\ DOMAIN stream = 1..Len(stream) /\ DOMAIN stream' = 1..Len(stream')
  BY <1>1, <1>2, <1>3, AppendProperties, LenProperties, ElementOfSeq
<1>5. /\ \A i \in DOMAIN stream' : (i = Len(stream) + 1 /\ stream'[i] = r)
                                \/ (i \in DOMAIN stream /\ stream'[i] = stream[i] /\ i < Len(stream) + 1)
      /\ \A i \in DOMAIN stream : i \in DOMAIN stream' /\ stream'[i] = stream[i] /\ stream[i].value \in Int
      /\ Len(stream) + 1 \in DOMAIN stream'
  <2>1. \A i \in 1..(Len(stream) + 1) : i = Len(stream) + 1 \/ (i \in 1..Len(stream) /\ i < Len(stream) + 1)
    BY <1>4
  <2>2. \A i \in 1..Len(stream) : i \in 1..(Len(stream) + 1)
    BY <1>4
  <2>3. Len(stream) + 1 \in 1..(Len(stream) + 1)
    BY <1>4
  <2>4. \A i \in 1..Len(stream) : stream[i].value \in Int
    BY <1>4 DEF EventApplies
  <2> QED BY <1>4, <2>1, <2>2, <2>3, <2>4
<1>6. object[v] <= object'[v] /\ seen[v] <= object[v] /\ seen[v] <= object'[v] /\ (v = u \/ object'[v] = object[v])
  BY <1>1 DEF EventLine
<1>7. ASSUME NEW i \in DOMAIN stream', stream'[i].key = v
      PROVE  seen[v] <= stream'[i].value /\ stream'[i].value <= object'[v]
  <2>1. CASE i = Len(stream) + 1 /\ stream'[i] = r
    BY <1>1, <1>3, <1>6, <1>7, <2>1
  <2>2. CASE i \in DOMAIN stream /\ stream'[i] = stream[i]
    <3>1. seen[v] <= stream[i].value /\ stream[i].value <= object[v] /\ stream[i].value \in Int
      BY <1>5, <1>7, <2>2 DEF EventLine
    <3> QED BY <1>1, <1>6, <2>2, <3>1
  <2> QED BY <1>5, <2>1, <2>2
<1>8. ASSUME NEW i \in DOMAIN stream', NEW j \in DOMAIN stream', i < j, stream'[i].key = v, stream'[j].key = v
      PROVE  stream'[i].value <= stream'[j].value
  <2>1. i \in DOMAIN stream /\ stream'[i] = stream[i] /\ stream[i].value \in Int
    BY <1>4, <1>5, <1>8
  <2>2. CASE j = Len(stream) + 1 /\ stream'[j] = r
    <3>1. stream[i].value <= object[v]
      BY <1>8, <2>1 DEF EventLine
    <3> QED BY <1>1, <1>3, <1>6, <1>8, <2>1, <2>2, <3>1
  <2>3. CASE j \in DOMAIN stream /\ stream'[j] = stream[j]
    BY <1>8, <2>1, <2>3 DEF EventLine
  <2> QED BY <1>5, <2>2, <2>3
<1>9. ASSUME NEW c \in 0..MaxCount, seen[v] < c, c <= object'[v]
      PROVE  \E i \in DOMAIN stream' : stream'[i].key = v /\ stream'[i].value = c
  <2>1. CASE c <= object[v]
    <3>1. PICK i \in DOMAIN stream : stream[i].key = v /\ stream[i].value = c
      BY <1>9, <2>1 DEF EventLine
    <3> QED BY <1>5, <3>1
  <2>2. CASE ~(c <= object[v])
    <3>1. v = u /\ c = object'[u]
      BY <1>1, <1>6, <1>9, <2>2
    <3> QED BY <1>3, <1>4, <1>5, <3>1
  <2> QED BY <2>1, <2>2
<1>a. \A c \in 0..MaxCount : /\ <<v, c>> \in KwKnown => c <= seen[v]
                             /\ c <= seen[v] /\ v \notin Routine => <<v, c>> \in KwKnown
  BY DEF EventLine
<1>b. EventLine(v)'
  BY <1>6, <1>7, <1>8, <1>9, <1>a DEF EventLine
<1> QED BY <1>4, <1>b

LEMMA EventClusterInv ==
  ASSUME KwInv, ClusterStep, watch = "events"
  PROVE  KwInv'
<1>1. /\ UNCHANGED <<watch, seen, raised, sendingNow, signalled, unsent, passedOver>>
      /\ EventTypes /\ SendsOnce
  BY DEF ClusterStep, KwInv, KwTypeOK
<1>2. Signals' = Signals /\ KwKnown' = KwKnown /\ SendsOnce'
  BY <1>1, PublisherIdle
<1>3. PICK u \in Uids : Occur(u) \/ (object[u] # NoCount /\ Touch(u))
  BY DEF ClusterStep
<1>4. object[u] \in -1..MaxCount /\ MaxCount \in Nat /\ object \in Counts
  BY <1>1 DEF EventTypes, Counts
<1>5. /\ object' \in Counts /\ (object'[u] = object[u] \/ object'[u] = object[u] + 1) /\ object'[u] # -1
      /\ \A v \in Uids : v # u => object'[v] = object[v]
      /\ stream' = Append(stream, [key |-> u, value |-> object'[u]])
  <2>1. CASE Occur(u)
    <3>1. object[u] < MaxCount /\ object' = [object EXCEPT ![u] = object[u] + 1]
      BY <2>1 DEF Occur
    <3>2. object[u] + 1 \in -1..MaxCount /\ object[u] + 1 # -1
      BY <1>4, <3>1
    <3>3. object'[u] = object[u] + 1 /\ \A v \in Uids : v # u => object'[v] = object[v]
      BY <1>4, <3>1 DEF Counts
    <3>4. object' \in Counts
      BY <1>4, <3>1, <3>2 DEF Counts
    <3> QED BY <2>1, <3>2, <3>3, <3>4 DEF Occur, Apply
  <2>2. CASE object[u] # NoCount /\ Touch(u)
    BY <1>4, <2>2 DEF Touch, Apply, NoCount
  <2> QED BY <1>3, <2>1, <2>2
<1>6. ASSUME NEW v \in Uids PROVE EventLine(v)' /\ stream' \in Seq(EventApplies)
  <2>1. EventLine(v)
    BY DEF KwInv
  <2> QED BY <1>1, <1>2, <1>5, <2>1, EventApplied
<1>7. KwTypeOK'
  <2>1. stream' \in Seq([key : Uids, value : 0..MaxCount])
    BY <1>6 DEF EventApplies
  <2>2. EventTypes'
    BY <1>1, <1>5, <2>1 DEF EventTypes
  <2> QED BY <1>1, <2>2 DEF KwTypeOK
<1> QED BY <1>1, <1>2, <1>6, <1>7 DEF KwInv

\* What the head of the stream says of an Event is what was last seen or the next count.
LEMMA EventDeliverInv ==
  ASSUME KwInv, Deliver, watch = "events"
  PROVE  KwInv'
<1>1. /\ UNCHANGED <<watch, object, episode, signalled, unsent, passedOver>>
      /\ EventTypes /\ SendsOnce /\ sendingNow = << >> /\ stream # << >> /\ stream' = Tail(stream)
      /\ ApplyEvent(Head(stream).key, Head(stream).value)
  BY DEF Deliver, KwInv, KwTypeOK
<1>2. PICK u : u = Head(stream).key
  OBVIOUS
<1>3. PICK c : c = Head(stream).value
  OBVIOUS
<1>4. stream \in Seq(EventApplies) /\ MaxCount \in Nat /\ Signals = EventSignals /\ Signals' = EventSignals
  BY <1>1, SignalsAre DEF EventTypes, EventApplies, Signals, EventSignals
<1>5. /\ Len(stream) \in Nat /\ Len(stream) > 0 /\ Head(stream) = stream[1] /\ Head(stream) \in EventApplies
      /\ stream' \in Seq(EventApplies) /\ Len(stream') = Len(stream) - 1
      /\ \A i \in 1..Len(stream') : stream'[i] = stream[i + 1]
      /\ DOMAIN stream = 1..Len(stream) /\ DOMAIN stream' = 1..Len(stream')
      /\ \A i \in 1..Len(stream) : stream[i] \in EventApplies
  BY <1>1, <1>4, HeadTailProperties, LenProperties, EmptySeq, ElementOfSeq
<1>6. /\ u \in Uids /\ c \in 0..MaxCount /\ stream[1].key = u /\ stream[1].value = c /\ c \in Int
      /\ seen \in Counts /\ object \in Counts
      /\ seen' = [seen EXCEPT ![u] = c]
      /\ sendingNow' = IF seen[u] # c /\ u \notin Routine THEN <<<<u, c>>>> ELSE << >>
  BY <1>1, <1>2, <1>3, <1>5 DEF ApplyEvent, EventApplies, EventTypes
<1>7. /\ \A i \in DOMAIN stream' : i + 1 \in DOMAIN stream /\ 1 < i + 1 /\ stream'[i] = stream[i + 1]
      /\ \A i \in DOMAIN stream : i = 1 \/ (i - 1 \in DOMAIN stream' /\ stream'[i - 1] = stream[i])
      /\ 1 \in DOMAIN stream
      /\ \A i \in DOMAIN stream : stream[i].value \in Int
  <2>1. ASSUME NEW i \in 1..Len(stream) PROVE i = 1 \/ (i - 1 \in 1..Len(stream') /\ (i - 1) + 1 = i)
    BY <1>5
  <2>2. \A i \in 1..Len(stream') : i + 1 \in 1..Len(stream) /\ 1 < i + 1
    BY <1>5
  <2>3. 1 \in 1..Len(stream)
    BY <1>5
  <2>4. \A i \in 1..Len(stream) : stream[i].value \in Int
    BY <1>5 DEF EventApplies
  <2> QED BY <1>5, <2>1, <2>2, <2>3, <2>4
<1>8. seen[u] \in Int /\ EventLine(u)
  BY <1>6 DEF Counts, KwInv
<1>9. seen[u] <= c /\ c <= object[u]
  BY <1>6, <1>7, <1>8 DEF EventLine
<1>10. /\ seen' \in Counts /\ seen'[u] = c /\ \A v \in Uids : v # u => seen'[v] = seen[v]
  <2>1. c \in -1..MaxCount
    BY <1>4, <1>6
  <2> QED BY <1>6, <2>1 DEF Counts
<1>11. <<u, c>> \in EventSignals
  BY <1>6 DEF EventSignals
<1>12. PICK new \in BOOLEAN : new <=> seen[u] # c /\ u \notin Routine
  OBVIOUS
<1>13. Range(sendingNow) = {} /\ Range(sendingNow') = IF new THEN {<<u, c>>} ELSE {}
  <2>1. \A x : Range(<<x>>) = {x}
    BY DEF Range
  <2>2. Range(<< >>) = {}
    BY DEF Range
  <2> QED BY <1>1, <1>6, <1>12, <2>1, <2>2
<1>14. KwKnown' = IF new THEN KwKnown \cup {<<u, c>>} ELSE KwKnown
  BY <1>1, <1>4, <1>11, <1>13 DEF KwKnown
<1>15. new => <<u, c>> \notin KwKnown
  <2>1. <<u, c>> \in KwKnown => c <= seen[u]
    BY <1>6, <1>8 DEF EventLine
  <2>2. new => seen[u] # c
    BY <1>12
  <2> QED BY <1>6, <1>8, <1>9, <2>1, <2>2
<1>16. SendsOnce'
  <2>1. IsInjective(sendingNow')
    BY <1>6 DEF IsInjective
  <2>2. ASSUME new PROVE signalled[<<u, c>>] = 0 /\ <<u, c>> \notin unsent
    <3>1. signalled[<<u, c>>] \in Nat
      BY <1>1, <1>11 DEF EventTypes
    <3> QED BY <1>4, <1>11, <1>15, <2>2, <3>1 DEF KwKnown
  <2>3. \A s \in Range(sendingNow') : signalled'[s] = 0 /\ s \notin unsent'
    BY <1>1, <1>13, <2>2
  <2> QED BY <1>1, <1>4, <2>1, <2>3 DEF SendsOnce
<1>17. sendingNow' \in Seq(EventSignals)
  <2>1. CASE sendingNow' = <<<<u, c>>>>
    BY <1>11, <2>1
  <2>2. CASE sendingNow' = << >>
    BY <2>2
  <2> QED BY <1>6, <2>1, <2>2
<1>18. KwTypeOK'
  <2>1. stream' \in Seq([key : Uids, value : 0..MaxCount])
    BY <1>5 DEF EventApplies
  <2>2. EventTypes'
    BY <1>1, <1>10, <1>17, <2>1 DEF EventTypes
  <2> QED BY <1>1, <2>2 DEF KwTypeOK
<1>19. ASSUME NEW v \in Uids PROVE EventLine(v)'
  <2>0. EventLine(v) /\ seen[v] \in Int /\ object[v] \in Int /\ seen'[v] \in Int /\ seen[v] <= seen'[v]
    BY <1>6, <1>9, <1>10 DEF KwInv, Counts
  <2>1. seen'[v] <= object[v]
    BY <1>9, <1>10, <2>0 DEF EventLine
  <2>2. ASSUME NEW i \in DOMAIN stream', stream'[i].key = v
        PROVE  seen'[v] <= stream'[i].value /\ stream'[i].value <= object[v]
    <3>1. i + 1 \in DOMAIN stream /\ 1 < i + 1 /\ stream'[i] = stream[i + 1] /\ 1 \in DOMAIN stream
      BY <1>7
    <3>2. v = u => c <= stream'[i].value
      BY <1>6, <2>0, <2>2, <3>1 DEF EventLine
    <3> QED BY <1>10, <2>0, <2>2, <3>1, <3>2 DEF EventLine
  <2>3. ASSUME NEW i \in DOMAIN stream', NEW j \in DOMAIN stream', i < j, stream'[i].key = v, stream'[j].key = v
        PROVE  stream'[i].value <= stream'[j].value
    <3>1. i + 1 \in DOMAIN stream /\ j + 1 \in DOMAIN stream /\ i + 1 < j + 1
      BY <1>5, <1>7, <2>3
    <3> QED BY <1>7, <2>0, <2>3, <3>1 DEF EventLine
  <2>4. ASSUME NEW d \in 0..MaxCount, <<v, d>> \in KwKnown' PROVE d <= seen'[v]
    <3>1. CASE <<v, d>> \in KwKnown
      <4>1. d <= seen[v] /\ d \in Int
        BY <2>0, <2>4, <3>1 DEF EventLine
      <4> QED BY <2>0, <4>1
    <3>2. CASE <<v, d>> = <<u, c>>
      BY <1>6, <1>10, <3>2
    <3> QED BY <1>14, <2>4, <3>1, <3>2
  <2>5. ASSUME NEW d \in 0..MaxCount, d <= seen'[v], v \notin Routine PROVE <<v, d>> \in KwKnown'
    <3>1. CASE d <= seen[v]
      <4>1. <<v, d>> \in KwKnown
        BY <2>0, <2>5, <3>1 DEF EventLine
      <4> QED BY <1>14, <4>1
    <3>2. CASE ~(d <= seen[v])
      <4>1. v = u /\ d <= c /\ seen[u] < d /\ d <= object[u] /\ d \in Int
        BY <1>6, <1>9, <1>10, <2>0, <2>1, <2>5, <3>2
      <4>2. PICK i \in DOMAIN stream : stream[i].key = u /\ stream[i].value = d
        BY <1>8, <4>1 DEF EventLine
      <4>3. c <= d
        <5>1. CASE i = 1
          BY <1>6, <4>1, <4>2, <5>1
        <5>2. CASE 1 < i
          BY <1>6, <1>7, <1>8, <4>2, <5>2 DEF EventLine
        <5> QED BY <1>5, <5>1, <5>2
      <4>4. d = c /\ new
        <5>1. d = c /\ seen[u] # c
          BY <1>6, <1>8, <4>1, <4>3
        <5> QED BY <1>12, <2>5, <4>1, <5>1
      <4> QED BY <1>14, <4>1, <4>4
    <3> QED BY <3>1, <3>2
  <2>6. ASSUME NEW d \in 0..MaxCount, seen'[v] < d, d <= object[v]
        PROVE  \E i \in DOMAIN stream' : stream'[i].key = v /\ stream'[i].value = d
    <3>1. seen[v] < d /\ d \in Int
      BY <2>0, <2>6
    <3>2. PICK i \in DOMAIN stream : stream[i].key = v /\ stream[i].value = d
      BY <2>0, <2>6, <3>1 DEF EventLine
    <3>3. i # 1
      BY <1>6, <1>10, <2>6, <3>1, <3>2
    <3> QED BY <1>7, <3>2, <3>3
  <2> QED BY <1>1, <2>1, <2>2, <2>3, <2>4, <2>5, <2>6 DEF EventLine
<1> QED BY <1>1, <1>16, <1>18, <1>19 DEF KwInv
\* The process ends and the next one takes a snapshot.
LEMMA EventEndsInv ==
  ASSUME KwInv, StreamEnds, watch = "events"
  PROVE  KwInv'
<1>1. /\ UNCHANGED <<watch, object, signalled, unsent>> /\ stream' = << >> /\ sendingNow' = << >>
      /\ seen' = object /\ EventTypes /\ SendsOnce
      /\ passedOver' = passedOver \cup {s \in Standing : signalled[s] = 0 /\ s \notin unsent}
  BY DEF StreamEnds, Remember, KwInv, KwTypeOK
<1>2. /\ Signals = EventSignals /\ Signals' = EventSignals
      /\ Standing = {s \in EventSignals : s[2] <= object[s[1]]}
  BY <1>1, SignalsAre DEF Standing, Signals, EventSignals
<1>3. Range(sendingNow') = {} /\ IsInjective(sendingNow')
  BY <1>1 DEF Range, IsInjective
<1>4. SendsOnce'
  BY <1>1, <1>2, <1>3 DEF SendsOnce
<1>5. KwTypeOK'
  <2>1. << >> \in Seq([key : Uids, value : 0..MaxCount]) /\ << >> \in Seq(EventSignals)
    OBVIOUS
  <2>2. EventTypes'
    BY <1>1, <2>1 DEF EventTypes
  <2> QED BY <1>1, <2>2 DEF KwTypeOK
<1>6. ASSUME NEW u \in Uids PROVE EventLine(u)'
  <2>1. EventLine(u) /\ object[u] \in Int /\ seen[u] \in Int
    BY <1>1 DEF KwInv, EventTypes, Counts
  <2>2. ASSUME NEW c \in 0..MaxCount PROVE <<u, c>> \in KwKnown' <=> c <= object[u]
    <3>1. <<u, c>> \in EventSignals /\ c \in Int /\ signalled[<<u, c>>] \in Nat
      BY <1>1 DEF EventSignals, EventTypes
    <3>2. ASSUME <<u, c>> \in KwKnown PROVE c <= object[u]
      <4>1. c <= seen[u] /\ seen[u] <= object[u]
        BY <2>1, <3>2 DEF EventLine
      <4> QED BY <2>1, <3>1, <4>1
    <3>3. <<u, c>> \in Standing <=> c <= object[u]
      BY <1>2, <3>1
    <3>4. <<u, c>> \in KwKnown' => <<u, c>> \in KwKnown \/ <<u, c>> \in Standing
      BY <1>1, <1>2, <1>3 DEF KwKnown
    <3>5. ASSUME <<u, c>> \in Standing PROVE <<u, c>> \in KwKnown'
      <4>1. signalled[<<u, c>>] > 0 \/ signalled[<<u, c>>] = 0
        BY <3>1
      <4> QED BY <1>1, <1>2, <3>1, <3>5, <4>1 DEF KwKnown
    <3> QED BY <3>2, <3>3, <3>4, <3>5
  <2>3. DOMAIN stream' = {}
    BY <1>1
  <2>4. \A c \in 0..MaxCount : ~(object[u] < c /\ c <= object[u])
    BY <2>1
  <2> QED BY <1>1, <2>1, <2>2, <2>3, <2>4 DEF EventLine
<1> QED BY <1>1, <1>4, <1>5, <1>6 DEF KwInv

-----------------------------------------------------------------------------
(* The watch of nodes *)

\* The values a line is about.
LEMMA LineTypes ==
  ASSUME NodeTypes, NEW n \in Nodes, NEW k \in Conditions
  PROVE  /\ object[n][k] \in Nat /\ episode[n][k] \in Nat
         /\ object[n][k] <= MaxEpisodes /\ episode[n][k] <= MaxEpisodes
         /\ stream \in Seq(NodeApplies) /\ KnownOf(n, k) \in SUBSET Nat
         /\ Sayings(stream, n, k) \in Seq(Int)
<1>1. MaxEpisodes \in Nat
  OBVIOUS
<1>2. object[n][k] \in 0..MaxEpisodes /\ episode[n][k] \in 0..MaxEpisodes
  BY DEF NodeTypes, Episodes
<1>3. stream \in Seq(NodeApplies)
  BY DEF NodeTypes, NodeApplies
<1>4. KnownOf(n, k) \in SUBSET Nat
  BY DEF KnownOf
<1> QED BY <1>1, <1>2, <1>3, <1>4, SayingsType

\* An apply of node m as it now is, after which each of its conditions is as it was, has
\* cleared or has become active.
LEMMA NodeApplied ==
  ASSUME NodeTypes, NEW m \in Nodes,
         object' \in [Nodes -> Episodes], episode' \in [Nodes -> Episodes],
         \A n \in Nodes : n # m => object'[n] = object[n] /\ episode'[n] = episode[n],
         \A k \in Conditions :
           \/ object'[m][k] = object[m][k] /\ episode'[m][k] = episode[m][k]
           \/ object'[m][k] = 0 /\ episode'[m][k] = episode[m][k]
           \/ object[m][k] = 0 /\ object'[m][k] = episode[m][k] + 1 /\ episode'[m][k] = episode[m][k] + 1,
         stream' = Append(stream, [key |-> m, value |-> object'[m]]),
         raised' = raised, KwKnown' = KwKnown,
         NEW n \in Nodes, NEW k \in Conditions, NodeLine(n, k)
  PROVE  NodeLine(n, k)'
<1>1. /\ object[n][k] \in Nat /\ episode[n][k] \in Nat /\ stream \in Seq(NodeApplies)
      /\ KnownOf(n, k) \in SUBSET Nat /\ Sayings(stream, n, k) \in Seq(Int)
  BY LineTypes
<1>2. PICK w : w = Sayings(stream, n, k)
  OBVIOUS
<1>3. PICK K : K = KnownOf(n, k)
  OBVIOUS
<1>4. PICK up \in BOOLEAN : up <=> <<n, k>> \in raised
  OBVIOUS
<1>5. PICK r : r = [key |-> m, value |-> object'[m]]
  OBVIOUS
<1>6. r \in NodeApplies /\ r.key = m /\ r.value = object'[m] /\ stream' = Append(stream, r)
  BY <1>5 DEF NodeApplies
<1>7. Sayings(stream', n, k) = Append(w, IF m = n THEN object'[n][k] ELSE -1)
  BY <1>1, <1>2, <1>6, SayingsAppend
<1>8. KnownOf(n, k)' = K
  BY <1>3 DEF KnownOf
<1>9. object'[n][k] \in Nat /\ episode'[n][k] \in Nat
  BY DEF Episodes
<1>10. w \in Seq(Int) /\ K \in SUBSET Nat /\ ConditionLine(w, object[n][k], episode[n][k], K, up)
  <2>1. up = (<<n, k>> \in raised)
    BY <1>4
  <2> QED BY <1>1, <1>2, <1>3, <2>1 DEF NodeLine
<1>11. ConditionLine(Sayings(stream', n, k), object'[n][k], episode'[n][k], K, up)
  <2>1. CASE m = n
    <3>1. \/ object'[n][k] = object[n][k] /\ episode'[n][k] = episode[n][k]
          \/ object'[n][k] = 0 /\ episode'[n][k] = episode[n][k]
          \/ object[n][k] = 0 /\ object'[n][k] = episode[n][k] + 1 /\ episode'[n][k] = episode[n][k] + 1
      BY <2>1
    <3>2. PICK o, e, o2, e2 :
            o = object[n][k] /\ e = episode[n][k] /\ o2 = object'[n][k] /\ e2 = episode'[n][k]
      OBVIOUS
    <3>3. /\ o \in Nat /\ e \in Nat /\ o2 \in Nat /\ e2 \in Nat /\ ConditionLine(w, o, e, K, up)
          /\ (o2 = o /\ e2 = e) \/ (o2 = 0 /\ e2 = e) \/ (o = 0 /\ o2 = e + 1 /\ e2 = e + 1)
      BY <1>1, <1>9, <1>10, <3>1, <3>2
    <3>4. w \in Seq(Int) /\ K \in SUBSET Nat
      BY <1>10
    <3>5. ConditionLine(Append(w, o2), o2, e2, K, up)
      BY <1>4, <3>3, <3>4, LineApply
    <3> QED BY <1>7, <2>1, <3>2, <3>5
  <2>2. CASE m # n
    <3>1. object'[n][k] = object[n][k] /\ episode'[n][k] = episode[n][k]
      BY <2>2
    <3>2. ConditionLine(Append(w, -1), object[n][k], episode[n][k], K, up)
      BY <1>1, <1>4, <1>10, LineSkip
    <3> QED BY <1>7, <2>2, <3>1, <3>2
  <2> QED BY <2>1, <2>2
<1>12. up = (<<n, k>> \in raised')
  BY <1>4
<1> QED BY <1>8, <1>11, <1>12 DEF NodeLine

LEMMA NodeClusterInv ==
  ASSUME KwInv, ClusterStep, watch = "nodes"
  PROVE  KwInv'
<1>1. /\ UNCHANGED <<watch, seen, raised, sendingNow, signalled, unsent, passedOver>>
      /\ NodeTypes /\ SendsOnce
  BY DEF ClusterStep, KwInv, KwTypeOK
<1>2. Signals' = Signals /\ KwKnown' = KwKnown /\ SendsOnce'
  BY <1>1, PublisherIdle
<1>3. PICK m \in Nodes : Touch(m) \/ \E k \in Conditions : Toggle(m, k)
  BY <1>1 DEF ClusterStep
<1>4. object \in [Nodes -> Episodes] /\ episode \in [Nodes -> Episodes] /\ MaxEpisodes \in Nat
  BY <1>1 DEF NodeTypes
<1>5. /\ object' \in [Nodes -> Episodes] /\ episode' \in [Nodes -> Episodes]
      /\ \A n \in Nodes : n # m => object'[n] = object[n] /\ episode'[n] = episode[n]
      /\ \A k \in Conditions :
           \/ object'[m][k] = object[m][k] /\ episode'[m][k] = episode[m][k]
           \/ object'[m][k] = 0 /\ episode'[m][k] = episode[m][k]
           \/ object[m][k] = 0 /\ object'[m][k] = episode[m][k] + 1 /\ episode'[m][k] = episode[m][k] + 1
      /\ stream' = Append(stream, [key |-> m, value |-> object'[m]])
  <2>1. CASE Touch(m)
    BY <1>4, <2>1 DEF Touch, Apply
  <2>2. ASSUME NEW a \in Conditions, Toggle(m, a), object[m][a] = 0
        PROVE  <1>5!1 /\ <1>5!2 /\ <1>5!3 /\ <1>5!4
    <3>1. /\ episode[m][a] < MaxEpisodes
          /\ episode' = [episode EXCEPT ![m][a] = episode[m][a] + 1]
          /\ object' = [object EXCEPT ![m][a] = episode'[m][a]]
      BY <2>2 DEF Toggle
    <3>2. episode[m][a] \in 0..MaxEpisodes /\ episode[m][a] + 1 \in 0..MaxEpisodes
      BY <1>4, <3>1 DEF Episodes
    <3>3. /\ \A n \in Nodes : n # m => episode'[n] = episode[n]
          /\ \A k \in Conditions : k # a => episode'[m][k] = episode[m][k]
          /\ episode'[m][a] = episode[m][a] + 1
          /\ episode' \in [Nodes -> Episodes]
      BY <1>4, <3>1, <3>2 DEF Episodes
    <3>4. /\ \A n \in Nodes : n # m => object'[n] = object[n]
          /\ \A k \in Conditions : k # a => object'[m][k] = object[m][k]
          /\ object'[m][a] = episode[m][a] + 1
          /\ object' \in [Nodes -> Episodes]
      BY <1>4, <3>1, <3>2, <3>3 DEF Episodes
    <3>5. stream' = Append(stream, [key |-> m, value |-> object'[m]])
      BY <2>2 DEF Toggle, Apply
    <3> QED BY <2>2, <3>3, <3>4, <3>5
  <2>3. ASSUME NEW a \in Conditions, Toggle(m, a), object[m][a] # 0
        PROVE  <1>5!1 /\ <1>5!2 /\ <1>5!3 /\ <1>5!4
    <3>1. object' = [object EXCEPT ![m][a] = 0] /\ episode' = episode
      BY <2>3 DEF Toggle
    <3>2. /\ \A n \in Nodes : n # m => object'[n] = object[n]
          /\ \A k \in Conditions : k # a => object'[m][k] = object[m][k]
          /\ object'[m][a] = 0
          /\ object' \in [Nodes -> Episodes]
      BY <1>4, <3>1 DEF Episodes
    <3>3. stream' = Append(stream, [key |-> m, value |-> object'[m]])
      BY <2>3 DEF Toggle, Apply
    <3> QED BY <1>4, <3>1, <3>2, <3>3
  <2> QED BY <1>3, <2>1, <2>2, <2>3
<1>6. ASSUME NEW n \in Nodes, NEW k \in Conditions PROVE NodeLine(n, k)'
  <2>1. NodeLine(n, k)
    BY DEF KwInv
  <2> QED BY <1>1, <1>2, <1>5, <2>1, NodeApplied
<1>7. KwTypeOK'
  <2>1. [key |-> m, value |-> object'[m]] \in NodeApplies /\ stream \in Seq(NodeApplies)
    BY <1>1, <1>5 DEF NodeApplies, NodeTypes
  <2>2. stream' \in Seq(NodeApplies)
    BY <1>5, <2>1, AppendProperties
  <2>3. NodeTypes'
    BY <1>1, <1>5, <2>2 DEF NodeTypes, NodeApplies
  <2> QED BY <1>1, <2>3 DEF KwTypeOK
<1> QED BY <1>1, <1>2, <1>6, <1>7 DEF KwInv
\* What reconcile does to one condition: it follows the node that is applied, and what
\* is to be signalled is what is active now and was not raised.
LEMMA Reconciled ==
  ASSUME NodeTypes, NEW m \in Nodes, NEW val \in Episodes, ApplyNode(m, val)
  PROVE  /\ raised' \subseteq Nodes \X Conditions
         /\ \A n \in Nodes, k \in Conditions :
              <<n, k>> \in raised' <=> IF n = m THEN val[k] # 0 ELSE <<n, k>> \in raised
         /\ sendingNow' \in Seq(NodeSignals) /\ IsInjective(sendingNow')
         /\ Range(sendingNow') =
              {<<<<m, k>>, val[k]>> : k \in {k \in Conditions : val[k] # 0 /\ <<m, k>> \notin raised}}
<1>1. PICK nowActive : nowActive = ActiveOf(m, val)
  OBVIOUS
<1>2. PICK kept : kept = Retained(m, nowActive)
  OBVIOUS
<1>3. PICK F : F = nowActive \ kept
  OBVIOUS
<1>4. PICK fresh : fresh = SetToSeq(F)
  OBVIOUS
<1>5. /\ raised' = kept \cup nowActive
      /\ sendingNow' = [i \in DOMAIN fresh |-> <<fresh[i], val[fresh[i][2]]>>]
  BY <1>1, <1>2, <1>3, <1>4 DEF ApplyNode
<1>6. raised \subseteq Nodes \X Conditions /\ \A k \in Conditions : val[k] \in 0..MaxEpisodes
  BY DEF NodeTypes, Episodes
<1>7. \A n \in Nodes, k \in Conditions : <<n, k>> \in nowActive <=> n = m /\ val[k] # 0
  BY <1>1 DEF ActiveOf
<1>8. \A n \in Nodes, k \in Conditions :
        <<n, k>> \in kept <=> <<n, k>> \in raised /\ (n # m \/ <<n, k>> \in nowActive)
  BY <1>2 DEF Retained
<1>9. nowActive \subseteq Nodes \X Conditions /\ kept \subseteq raised
  BY <1>1, <1>2 DEF ActiveOf, Retained
<1>10. F = {<<m, k>> : k \in {k \in Conditions : val[k] # 0 /\ <<m, k>> \notin raised}}
  <2>1. nowActive = {<<m, k>> : k \in {k \in Conditions : val[k] # 0}}
    BY <1>1 DEF ActiveOf
  <2>2. ASSUME NEW k \in Conditions, val[k] # 0 PROVE <<m, k>> \in kept <=> <<m, k>> \in raised
    BY <1>7, <1>8, <2>2
  <2> QED BY <1>3, <2>1, <2>2
<1>11. IsFiniteSet(F)
  <2>1. IsFiniteSet({m}) /\ IsFiniteSet(Conditions)
    BY FS_Singleton
  <2>2. IsFiniteSet({m} \X Conditions)
    BY <2>1, FS_Product
  <2>3. F \in SUBSET ({m} \X Conditions)
    <3>1. ASSUME NEW a \in F PROVE a \in {m} \X Conditions
      <4>1. PICK k \in Conditions : a = <<m, k>>
        BY <1>10
      <4> QED BY <4>1
    <3> QED BY <3>1
  <2> QED BY <2>2, <2>3, FS_Subset
<1>12. fresh \in Seq(F) /\ IsInjective(fresh) /\ Range(fresh) = F
  BY <1>4, <1>11, SetToSeqLists
<1>13. Len(fresh) \in Nat /\ DOMAIN fresh = 1..Len(fresh) /\ \A i \in DOMAIN fresh : fresh[i] \in F
  BY <1>12, LenProperties, ElementOfSeq
<1>14. ASSUME NEW a \in F PROVE <<a, val[a[2]]>> \in NodeSignals
  <2>1. PICK k \in Conditions : val[k] # 0 /\ a = <<m, k>>
    BY <1>10
  <2>2. val[k] \in 1..MaxEpisodes
    BY <1>6, <2>1
  <2> QED BY <2>1, <2>2 DEF NodeSignals
<1>15. sendingNow' \in Seq(NodeSignals)
  <2>1. sendingNow' \in [1..Len(fresh) -> NodeSignals]
    BY <1>5, <1>13, <1>14
  <2> QED BY <1>13, <2>1, IsASeq
<1>16. /\ DOMAIN sendingNow' = DOMAIN fresh
       /\ \A i \in DOMAIN fresh : sendingNow'[i] = <<fresh[i], val[fresh[i][2]]>>
  BY <1>5
<1>17. IsInjective(sendingNow')
  BY <1>12, <1>16 DEF IsInjective
<1>18. Range(sendingNow') = {<<a, val[a[2]]>> : a \in F}
  <2>1. \A i \in DOMAIN fresh : fresh[i] \in F
    BY <1>13
  <2>2. \A a \in F : \E i \in DOMAIN fresh : fresh[i] = a
    BY <1>12 DEF Range
  <2>3. Range(sendingNow') = {sendingNow'[i] : i \in DOMAIN fresh}
    BY <1>16 DEF Range
  <2>4. {sendingNow'[i] : i \in DOMAIN fresh} = {<<a, val[a[2]]>> : a \in F}
    <3>1. \A i \in DOMAIN fresh : \E a \in F : sendingNow'[i] = <<a, val[a[2]]>>
      BY <1>16, <2>1
    <3>2. ASSUME NEW a \in F PROVE \E i \in DOMAIN fresh : sendingNow'[i] = <<a, val[a[2]]>>
      <4>1. PICK i \in DOMAIN fresh : fresh[i] = a
        BY <2>2
      <4>2. sendingNow'[i] = <<a, val[a[2]]>>
        BY <1>16, <4>1
      <4> QED BY <4>2
    <3>3. {sendingNow'[i] : i \in DOMAIN fresh} \subseteq {<<a, val[a[2]]>> : a \in F}
      BY <3>1
    <3>4. {<<a, val[a[2]]>> : a \in F} \subseteq {sendingNow'[i] : i \in DOMAIN fresh}
      BY <3>2
    <3> QED BY <3>3, <3>4
  <2> QED BY <2>3, <2>4
<1>19. {<<a, val[a[2]]>> : a \in F} =
         {<<<<m, k>>, val[k]>> : k \in {k \in Conditions : val[k] # 0 /\ <<m, k>> \notin raised}}
  <2>1. PICK N : N = {k \in Conditions : val[k] # 0 /\ <<m, k>> \notin raised}
    OBVIOUS
  <2>2. F = {<<m, k>> : k \in N}
    BY <1>10, <2>1
  <2>3. ASSUME NEW a \in F PROVE \E k \in N : <<a, val[a[2]]>> = <<<<m, k>>, val[k]>>
    <3>1. PICK k \in N : a = <<m, k>>
      BY <2>2
    <3>2. a[2] = k
      BY <3>1
    <3> QED BY <3>1, <3>2
  <2>4. ASSUME NEW k \in N PROVE \E a \in F : <<a, val[a[2]]>> = <<<<m, k>>, val[k]>>
    <3>1. <<m, k>> \in F /\ <<m, k>>[2] = k
      BY <2>2
    <3> QED BY <3>1
  <2>5. {<<a, val[a[2]]>> : a \in F} = {<<<<m, k>>, val[k]>> : k \in N}
    BY <2>3, <2>4
  <2> QED BY <2>1, <2>5
<1>20. \A n \in Nodes, k \in Conditions :
         <<n, k>> \in raised' <=> IF n = m THEN val[k] # 0 ELSE <<n, k>> \in raised
  BY <1>5, <1>7, <1>8
<1>21. raised' \subseteq Nodes \X Conditions
  BY <1>5, <1>6, <1>9
<1> QED BY <1>15, <1>17, <1>18, <1>19, <1>20, <1>21

LEMMA NodeDeliverInv ==
  ASSUME KwInv, Deliver, watch = "nodes"
  PROVE  KwInv'
<1>1. /\ UNCHANGED <<watch, object, episode, signalled, unsent, passedOver>>
      /\ NodeTypes /\ SendsOnce /\ sendingNow = << >> /\ stream # << >> /\ stream' = Tail(stream)
      /\ ApplyNode(Head(stream).key, Head(stream).value)
  BY DEF Deliver, KwInv, KwTypeOK
<1>2. PICK m : m = Head(stream).key
  OBVIOUS
<1>3. PICK val : val = Head(stream).value
  OBVIOUS
<1>4. stream \in Seq(NodeApplies) /\ Signals = NodeSignals /\ Signals' = NodeSignals
  BY <1>1, SignalsAre DEF NodeTypes, NodeApplies, Signals, NodeSignals
<1>5. stream' \in Seq(NodeApplies) /\ Head(stream) \in NodeApplies
  BY <1>1, <1>4, HeadTailProperties
<1>6. m \in Nodes /\ val \in Episodes /\ ApplyNode(m, val)
  BY <1>1, <1>2, <1>3, <1>5 DEF NodeApplies
<1>7. PICK new : new = {k \in Conditions : val[k] # 0 /\ <<m, k>> \notin raised}
  OBVIOUS
<1>8. /\ raised' \subseteq Nodes \X Conditions
      /\ \A n \in Nodes, k \in Conditions :
           <<n, k>> \in raised' <=> IF n = m THEN val[k] # 0 ELSE <<n, k>> \in raised
      /\ sendingNow' \in Seq(NodeSignals) /\ IsInjective(sendingNow')
      /\ Range(sendingNow') = {<<<<m, k>>, val[k]>> : k \in new}
  BY <1>1, <1>6, <1>7, Reconciled
<1>9. \A k \in Conditions : val[k] \in Nat /\ val[k] <= MaxEpisodes /\ (val[k] # 0 <=> val[k] > 0)
  BY <1>6 DEF Episodes
<1>10. KwTypeOK'
  <2>1. NodeTypes'
    BY <1>1, <1>5, <1>8 DEF NodeTypes, NodeApplies
  <2> QED BY <1>1, <2>1 DEF KwTypeOK
<1>11. KwKnown' = KwKnown \cup {<<<<m, k>>, val[k]>> : k \in new}
  <2>1. Range(sendingNow) = {}
    BY <1>1 DEF Range
  <2>2. Range(sendingNow') \subseteq NodeSignals
    BY <1>8, RangeOfSeq
  <2> QED BY <1>1, <1>4, <1>8, <2>1, <2>2 DEF KwKnown
<1>12. ASSUME NEW n \in Nodes, NEW k \in Conditions
       PROVE  NodeLine(n, k)' /\ (n = m /\ k \in new => val[k] \notin KnownOf(n, k))
  <2>1. /\ object[n][k] \in Nat /\ episode[n][k] \in Nat
        /\ KnownOf(n, k) \in SUBSET Nat /\ Sayings(stream, n, k) \in Seq(Int)
    BY <1>1, LineTypes
  <2>2. PICK w : w = Sayings(stream, n, k)
    OBVIOUS
  <2>3. PICK K : K = KnownOf(n, k)
    OBVIOUS
  <2>4. PICK K2 : K2 = KnownOf(n, k)'
    OBVIOUS
  <2>5. PICK up \in BOOLEAN : up <=> <<n, k>> \in raised
    OBVIOUS
  <2>6. PICK up2 \in BOOLEAN : up2 <=> <<n, k>> \in raised'
    OBVIOUS
  <2>7. w # << >> /\ Sayings(stream', n, k) = Tail(w) /\ w[1] = IF m = n THEN val[k] ELSE -1
    BY <1>1, <1>2, <1>3, <1>4, <2>2, SayingsTail
  <2>8. w \in Seq(Int) /\ K \in SUBSET Nat /\ ConditionLine(w, object[n][k], episode[n][k], K, up)
    <3>1. up = (<<n, k>> \in raised) /\ NodeLine(n, k)
      BY <2>5 DEF KwInv
    <3> QED BY <2>1, <2>2, <2>3, <3>1 DEF NodeLine
  <2>9. K2 = (IF w[1] > 0 /\ ~up THEN K \cup {w[1]} ELSE K)
    <3>1. \A x \in 1..MaxEpisodes : x \in K2 <=> x \in K \/ (n = m /\ k \in new /\ x = val[k])
      BY <1>11, <2>3, <2>4 DEF KnownOf
    <3>2. K \subseteq 1..MaxEpisodes /\ K2 \subseteq 1..MaxEpisodes
      BY <2>3, <2>4 DEF KnownOf
    <3>3. n = m /\ k \in new <=> w[1] > 0 /\ ~up
      BY <1>7, <1>9, <2>5, <2>7
    <3>4. n = m /\ k \in new => val[k] = w[1] /\ val[k] \in 1..MaxEpisodes
      BY <1>7, <1>9, <2>7
    <3> QED BY <3>1, <3>2, <3>3, <3>4
  <2>10. up2 <=> (IF w[1] < 0 THEN up ELSE w[1] > 0)
    <3>1. CASE n = m
      <4>1. w[1] = val[k] /\ (up2 <=> val[k] > 0) /\ ~(w[1] < 0)
        BY <1>8, <1>9, <2>6, <2>7, <3>1
      <4> QED BY <4>1
    <3>2. CASE n # m
      <4>1. w[1] < 0 /\ (up2 <=> up)
        BY <1>8, <2>5, <2>6, <2>7, <3>2
      <4> QED BY <4>1
    <3> QED BY <3>1, <3>2
  <2>11. K2 \in SUBSET Nat
    BY <2>4 DEF KnownOf
  <2>12. ConditionLine(Tail(w), object[n][k], episode[n][k], K2, up2) /\ (w[1] > 0 => (w[1] \in K <=> up))
    <3>1. Len(w) > 0
      BY <2>7, <2>8, EmptySeq, LenProperties
    <3>2. PICK o : o = object[n][k]
      OBVIOUS
    <3>3. PICK e : e = episode[n][k]
      OBVIOUS
    <3>4. o \in Nat /\ e \in Nat /\ ConditionLine(w, o, e, K, up)
      BY <2>1, <2>8, <3>2, <3>3
    <3>5. w \in Seq(Int) /\ K \in SUBSET Nat
      BY <2>8
    <3>6. ConditionLine(Tail(w), o, e, Decided(w[1], K, up), Follows(w[1], up)) /\ (w[1] > 0 => (w[1] \in K <=> up))
      BY <2>5, <3>1, <3>4, <3>5, LineTake
    <3>7. K2 = Decided(w[1], K, up) /\ up2 = Follows(w[1], up)
      BY <2>9, <2>10 DEF Decided, Follows
    <3> QED BY <3>2, <3>3, <3>6, <3>7
  <2>13. NodeLine(n, k)'
    <3>1. up2 = (<<n, k>> \in raised')
      BY <2>6
    <3> QED BY <1>1, <2>4, <2>7, <2>12, <3>1 DEF NodeLine
  <2>14. n = m /\ k \in new => val[k] \notin K
    BY <1>7, <1>9, <2>5, <2>7, <2>12
  <2> QED BY <2>3, <2>13, <2>14
<1>13. SendsOnce'
  <2>1. ASSUME NEW k \in new PROVE signalled[<<<<m, k>>, val[k]>>] = 0 /\ <<<<m, k>>, val[k]>> \notin unsent
    <3>1. k \in Conditions /\ val[k] \in 1..MaxEpisodes
      BY <1>7, <1>9
    <3>2. <<<<m, k>>, val[k]>> \in NodeSignals
      BY <1>6, <3>1 DEF NodeSignals
    <3>3. <<<<m, k>>, val[k]>> \notin KwKnown
      BY <1>6, <1>12, <2>1, <3>1 DEF KnownOf
    <3>4. signalled[<<<<m, k>>, val[k]>>] \in Nat
      BY <1>1, <3>2 DEF NodeTypes
    <3> QED BY <1>4, <3>2, <3>3, <3>4 DEF KwKnown
  <2>2. \A s \in Range(sendingNow') : signalled'[s] = 0 /\ s \notin unsent'
    BY <1>1, <1>8, <2>1
  <2> QED BY <1>1, <1>4, <1>8, <2>2 DEF SendsOnce
<1> QED BY <1>1, <1>10, <1>12, <1>13 DEF KwInv

LEMMA NodeEndsInv ==
  ASSUME KwInv, StreamEnds, watch = "nodes"
  PROVE  KwInv'
<1>1. /\ UNCHANGED <<watch, object, episode, signalled, unsent>> /\ stream' = << >> /\ sendingNow' = << >>
      /\ raised' = UNION {ActiveOf(n, object[n]) : n \in Nodes} /\ NodeTypes /\ SendsOnce
      /\ passedOver' = passedOver \cup {s \in Standing : signalled[s] = 0 /\ s \notin unsent}
  BY DEF StreamEnds, KwInv, KwTypeOK
<1>2. /\ Signals = NodeSignals /\ Signals' = NodeSignals
      /\ Standing = {s \in NodeSignals : s[2] <= episode[s[1][1]][s[1][2]]}
  BY <1>1, SignalsAre DEF Standing, Signals, NodeSignals
<1>3. Range(sendingNow') = {} /\ IsInjective(sendingNow')
  BY <1>1 DEF Range, IsInjective
<1>4. SendsOnce'
  BY <1>1, <1>2, <1>3 DEF SendsOnce
<1>5. /\ raised' \subseteq Nodes \X Conditions
      /\ \A n \in Nodes, k \in Conditions : <<n, k>> \in raised' <=> object[n][k] # 0
  BY <1>1 DEF ActiveOf
<1>6. KwTypeOK'
  <2>1. << >> \in Seq([key : Nodes, value : Episodes]) /\ << >> \in Seq(NodeSignals)
    OBVIOUS
  <2>2. NodeTypes'
    BY <1>1, <1>5, <2>1 DEF NodeTypes
  <2> QED BY <1>1, <2>2 DEF KwTypeOK
<1>7. ASSUME NEW n \in Nodes, NEW k \in Conditions PROVE NodeLine(n, k)'
  <2>1. /\ object[n][k] \in Nat /\ episode[n][k] \in Nat /\ episode[n][k] <= MaxEpisodes
        /\ MaxEpisodes \in Nat
    BY <1>1, LineTypes
  <2>2. NodeLine(n, k)
    BY <1>1 DEF KwInv
  <2>3. /\ object[n][k] = 0 \/ object[n][k] = episode[n][k]
        /\ \A x \in KnownOf(n, k) : x <= episode[n][k]
    BY <2>2 DEF NodeLine, ConditionLine
  <2>4. ASSUME NEW x \in 1..MaxEpisodes PROVE <<<<n, k>>, x>> \in KwKnown' <=> x <= episode[n][k]
    <3>1. <<<<n, k>>, x>> \in NodeSignals
      BY DEF NodeSignals
    <3>2. signalled[<<<<n, k>>, x>>] \in Nat
      BY <1>1, <3>1 DEF NodeTypes
    <3>3. <<<<n, k>>, x>> \in KwKnown => x <= episode[n][k]
      BY <2>3 DEF KnownOf
    <3>4. <<<<n, k>>, x>> \in Standing <=> x <= episode[n][k]
      BY <1>2, <3>1
    <3>5. <<<<n, k>>, x>> \in KwKnown' => <<<<n, k>>, x>> \in KwKnown \/ <<<<n, k>>, x>> \in Standing
      BY <1>1, <1>2, <1>3 DEF KwKnown
    <3>6. ASSUME <<<<n, k>>, x>> \in Standing PROVE <<<<n, k>>, x>> \in KwKnown'
      <4>1. signalled[<<<<n, k>>, x>>] > 0 \/ signalled[<<<<n, k>>, x>>] = 0
        BY <3>2
      <4> QED BY <1>1, <1>2, <3>1, <3>6, <4>1 DEF KwKnown
    <3> QED BY <3>3, <3>4, <3>5, <3>6
  <2>5. KnownOf(n, k)' = 1..episode[n][k]
    <3>1. KnownOf(n, k)' = {x \in 1..MaxEpisodes : <<<<n, k>>, x>> \in KwKnown'}
      BY DEF KnownOf
    <3>2. \A x : x \in 1..episode[n][k] <=> x \in 1..MaxEpisodes /\ x <= episode[n][k]
      BY <2>1
    <3> QED BY <2>4, <3>1, <3>2
  <2>6. Sayings(<< >>, n, k) = << >>
    BY DEF Sayings
  <2>7. PICK up \in BOOLEAN : up <=> <<n, k>> \in raised'
    OBVIOUS
  <2>8. up = (<<n, k>> \in raised') /\ (up <=> object[n][k] # 0)
    BY <1>5, <2>7
  <2>9. ConditionLine(<< >>, object[n][k], episode[n][k], 1..episode[n][k], up)
    BY <2>1, <2>3, <2>7, <2>8, LineSnapshot
  <2> QED BY <1>1, <2>5, <2>6, <2>8, <2>9 DEF NodeLine
<1> QED BY <1>1, <1>4, <1>6, <1>7 DEF KwInv

-----------------------------------------------------------------------------
LEMMA KwInitInv == KwInit => KwInv
<1> SUFFICES ASSUME KwInit PROVE KwInv
  OBVIOUS
<1>1. /\ watch \in {"events", "nodes"} /\ stream = << >> /\ sendingNow = << >> /\ unsent = {} /\ passedOver = {}
      /\ signalled = [s \in Signals |-> 0] /\ seen = [u \in Uids |-> -1] /\ raised = {}
      /\ episode = [n \in Nodes |-> [k \in Conditions |-> 0]]
      /\ watch = "events" => object = [u \in Uids |-> -1]
      /\ watch = "nodes" => object = [n \in Nodes |-> [k \in Conditions |-> 0]]
  BY DEF KwInit, NoCount
<1>2. Range(sendingNow) = {} /\ IsInjective(sendingNow) /\ DOMAIN stream = {}
  BY <1>1 DEF Range, IsInjective
<1>3. KwKnown = {}
  BY <1>1, <1>2 DEF KwKnown
<1>4. SendsOnce
  BY <1>1, <1>2 DEF SendsOnce
<1>5. MaxCount \in Nat /\ MaxEpisodes \in Nat
  OBVIOUS
<1>6. CASE watch = "events"
  <2>1. Signals = EventSignals
    BY <1>6, SignalsAre
  <2>2. EventTypes
    <3>1. -1 \in -1..MaxCount
      BY <1>5
    <3> QED BY <1>1, <1>6, <2>1, <3>1 DEF EventTypes, Counts
  <2>3. ASSUME NEW u \in Uids PROVE EventLine(u)
    <3>1. seen[u] = -1 /\ object[u] = -1
      BY <1>1, <1>6
    <3>2. \A c \in 0..MaxCount : ~(c <= -1)
      BY <1>5
    <3> QED BY <1>2, <1>3, <3>1, <3>2 DEF EventLine
  <2> QED BY <1>4, <1>6, <2>2, <2>3 DEF KwInv, KwTypeOK
<1>7. CASE watch = "nodes"
  <2>1. Signals = NodeSignals
    BY <1>7, SignalsAre
  <2>2. NodeTypes
    <3>1. 0 \in 0..MaxEpisodes
      BY <1>5
    <3> QED BY <1>1, <1>7, <2>1, <3>1 DEF NodeTypes, Episodes
  <2>3. ASSUME NEW n \in Nodes, NEW k \in Conditions PROVE NodeLine(n, k)
    <3>1. object[n][k] = 0 /\ episode[n][k] = 0 /\ <<n, k>> \notin raised
      BY <1>1, <1>7
    <3>2. Sayings(stream, n, k) = << >>
      BY <1>1 DEF Sayings
    <3>3. KnownOf(n, k) = 1..0
      BY <1>3 DEF KnownOf
    <3>4. ConditionLine(<< >>, 0, 0, 1..0, FALSE)
      BY LineSnapshot
    <3>5. (<<n, k>> \in raised) = FALSE
      BY <3>1
    <3> QED BY <3>1, <3>2, <3>3, <3>4, <3>5 DEF NodeLine
  <2> QED BY <1>4, <1>7, <2>2, <2>3 DEF KwInv, KwTypeOK
<1> QED BY <1>1, <1>6, <1>7

LEMMA KwStep == KwInv /\ [KwNext]_kwVars => KwInv'
<1> SUFFICES ASSUME KwInv, [KwNext]_kwVars PROVE KwInv'
  OBVIOUS
<1>1. watch = "events" \/ watch = "nodes"
  BY DEF KwInv, KwTypeOK
<1>2. CASE UNCHANGED kwVars
  <2>1. UNCHANGED <<watch, object, episode, stream, seen, raised, sendingNow, signalled, unsent, passedOver>>
    BY <1>2 DEF kwVars
  <2>2. KwKnown' = KwKnown /\ SendsOnce'
    BY <2>1, PublisherIdle DEF KwInv
  <2>3. KwTypeOK'
    BY <2>1 DEF KwInv, KwTypeOK, EventTypes, NodeTypes
  <2>4. ASSUME watch = "events", NEW u \in Uids PROVE EventLine(u)'
    <3>1. EventLine(u)
      BY <2>4 DEF KwInv
    <3> QED BY <2>1, <2>2, <3>1 DEF EventLine
  <2>5. ASSUME watch = "nodes", NEW n \in Nodes, NEW k \in Conditions PROVE NodeLine(n, k)'
    <3>1. NodeLine(n, k)
      BY <2>5 DEF KwInv
    <3>2. Sayings(stream, n, k)' = Sayings(stream, n, k) /\ KnownOf(n, k)' = KnownOf(n, k)
      BY <2>1, <2>2 DEF Sayings, KnownOf
    <3> QED BY <2>1, <3>1, <3>2 DEF NodeLine
  <2> QED BY <2>1, <2>2, <2>3, <2>4, <2>5 DEF KwInv
<1>3. CASE ClusterStep
  BY <1>1, <1>3, EventClusterInv, NodeClusterInv
<1>4. CASE Deliver
  BY <1>1, <1>4, EventDeliverInv, NodeDeliverInv
<1>5. CASE StreamEnds
  BY <1>1, <1>5, EventEndsInv, NodeEndsInv
<1> QED BY <1>2, <1>3, <1>4, <1>5, PublishInv DEF KwNext

\* What has been decided on was signalled or is accounted for.
LEMMA KnownIsAccounted ==
  ASSUME KwTypeOK, SendsOnce, NEW s \in KwKnown
  PROVE  signalled[s] = 1 \/ s \in unsent \/ s \in passedOver \/ Underway(s)
<1>1. s \in Signals /\ signalled[s] \in Nat /\ signalled[s] <= 1
  BY SignalTypes DEF KwKnown, SendsOnce
<1>2. signalled[s] > 0 => signalled[s] = 1
  BY <1>1
<1> QED BY <1>2 DEF KwKnown, Underway

LEMMA SignalsInv == KwInv => OneSignalEach
<1> SUFFICES ASSUME KwInv, NEW s \in Noteworthy
             PROVE  /\ signalled[s] <= 1
                    /\ signalled[s] = 1 => s \notin unsent
                    /\ signalled[s] = 1 \/ s \in unsent \/ s \in passedOver \/ Underway(s)
  BY DEF OneSignalEach
<1>0. KwTypeOK /\ SendsOnce
  BY DEF KwInv
<1>1. s \in Standing /\ s \in Signals
  BY DEF Noteworthy, Standing
<1>2. signalled[s] <= 1 /\ (signalled[s] = 1 => s \notin unsent)
  BY <1>0, <1>1 DEF SendsOnce
<1>3. s \in KwKnown \/ Underway(s)
  <2>1. CASE watch = "events"
    <3>1. PICK u \in Uids, c \in 0..MaxCount : s = <<u, c>>
      BY <1>1, <2>1, SignalsAre DEF EventSignals
    <3>2. u \notin Routine /\ c <= object[u] /\ EventLine(u)
      BY <1>1, <2>1, <3>1 DEF Noteworthy, Standing, KwInv
    <3>3. seen[u] \in Int /\ c \in Int
      BY <1>0, <2>1 DEF KwTypeOK, EventTypes, Counts
    <3>4. CASE c <= seen[u]
      BY <3>1, <3>2, <3>4 DEF EventLine
    <3>5. CASE seen[u] < c
      <4>1. PICK i \in DOMAIN stream : stream[i].key = u /\ stream[i].value = c
        BY <3>2, <3>5 DEF EventLine
      <4> QED BY <2>1, <3>1, <4>1 DEF Underway
    <3> QED BY <3>3, <3>4, <3>5
  <2>2. CASE watch = "nodes"
    <3>1. PICK n \in Nodes, k \in Conditions, x \in 1..MaxEpisodes : s = <<<<n, k>>, x>>
      BY <1>1, <2>2, SignalsAre DEF NodeSignals
    <3>2. x <= episode[n][k] /\ NodeLine(n, k)
      BY <1>1, <2>2, <3>1 DEF Standing, KwInv
    <3>3. /\ episode[n][k] \in Nat /\ stream \in Seq(NodeApplies)
          /\ Sayings(stream, n, k) \in Seq(Int)
      BY <1>0, <2>2, LineTypes DEF KwTypeOK
    <3>4. PICK w : w = Sayings(stream, n, k)
      OBVIOUS
    <3>5. x \in 1..episode[n][k] /\ x > 0
      BY <3>2, <3>3
    <3>6. x \in KnownOf(n, k) \/ \E i \in 1..Len(w) : w[i] = x
      BY <3>2, <3>4, <3>5 DEF NodeLine, ConditionLine
    <3>7. ASSUME NEW i \in 1..Len(w), w[i] = x PROVE Underway(s)
      <4>1. i \in 1..Len(stream) /\ DOMAIN stream = 1..Len(stream)
        BY <3>3, <3>4, SayingsType, LenProperties
      <4>2. w[i] = IF stream[i].key = n THEN stream[i].value[k] ELSE -1
        BY <3>4, <4>1 DEF Sayings
      <4>3. stream[i].key = n /\ stream[i].value[k] = x
        BY <3>5, <3>7, <4>2
      <4> QED BY <2>2, <3>1, <4>1, <4>3 DEF Underway
    <3> QED BY <3>1, <3>6, <3>7 DEF KnownOf
  <2> QED BY <1>0, <2>1, <2>2 DEF KwTypeOK
<1> QED BY <1>0, <1>2, <1>3, KnownIsAccounted

\* One signal per occurrence of an Event and per episode of a condition, for any cluster
\* and over any number of processes: none is published twice, and none is missed unless
\* its publish failed or nobody watched.
THEOREM EachSignalOnce == KwSpec => []OneSignalEach
<1>1. KwSpec => []KwInv
  BY KwInitInv, KwStep, PTL DEF KwSpec
<1> QED BY <1>1, SignalsInv, PTL
=============================================================================
