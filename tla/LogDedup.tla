------------------------------ MODULE LogDedup ------------------------------
(***************************************************************************)
(* The pod log scraper of the Kubernetes controller (ravn-k8s logs.rs):    *)
(* each time a pod is applied its last log lines are read again, and a     *)
(* per-pod LRU cache with a time to live decides which of them are new.    *)
(*                                                                         *)
(* A line stands for its hash. External: the tail of a pod's log is any    *)
(* short sequence of lines.                                                *)
(***************************************************************************)
EXTENDS Naturals, Sequences, SequencesExt, FiniteSets

CONSTANTS
  Pods,
  Lines, Mild,   \* log lines, and those below min_severity
  Cap,           \* per_pod_cap
  Ttl,           \* ttl
  TailLines,     \* bound on the lines of one read (50)
  MaxReads,      \* bound on the reads
  MaxNow         \* bound on the time

ASSUME DedupAssumption ==
  /\ Mild \subseteq Lines
  /\ {Cap, Ttl} \subseteq Nat \ {0} /\ {TailLines, MaxReads, MaxNow} \subseteq Nat

VARIABLES
  now,
  cache,      \* LogDeduper: pod -> its entries [line, at], least recently used first
  reading,    \* the lines of the current read not yet looked at: [pod, lines]
  reads,
  told,       \* pod -> line -> when it was last handed to the publisher, Never before that
  others,     \* ghost: pod -> line -> the other lines looked up since this one was
  decision    \* the last lookup: [pod, line, fresh, age, others]

ldVars == <<now, cache, reading, reads, told, others, decision>>

Never == MaxNow + 1
Idle == [pod |-> CHOOSE p \in Pods : TRUE, lines |-> <<>>]
NoDecision == [fresh |-> TRUE, age |-> Ttl, others |-> {}]

LdInit ==
  /\ now = 0
  /\ cache = [p \in Pods |-> <<>>]
  /\ reading = Idle /\ reads = 0
  /\ told = [p \in Pods |-> [l \in Lines |-> Never]]
  /\ others = [p \in Pods |-> [l \in Lines |-> {}]]
  /\ decision = NoDecision

LdTick ==
  /\ now < MaxNow /\ now' = now + 1
  /\ UNCHANGED <<cache, reading, reads, told, others, decision>>

\* Apply: the tail is fetched (a failure to is logged, and nothing more).
ReadTail(p, lines) ==
  /\ reading.lines = <<>> /\ reads < MaxReads
  /\ reads' = reads + 1
  /\ reading' = [pod |-> p, lines |-> lines]
  /\ UNCHANGED <<now, cache, told, others, decision>>

\* A line below min_severity never reaches the cache.
SkipLine ==
  /\ reading.lines # <<>> /\ Head(reading.lines) \in Mild
  /\ reading' = [reading EXCEPT !.lines = Tail(@)]
  /\ UNCHANGED <<now, cache, reads, told, others, decision>>

-----------------------------------------------------------------------------
(* LogDeduper::is_new *)

\* The cache is a map: a line has one entry in it, or none.
Holds(p, l) == \E i \in DOMAIN cache[p] : cache[p][i].line = l
Slot(p, l) == CHOOSE i \in DOMAIN cache[p] : cache[p][i].line = l
Without(p, l) == IF Holds(p, l) THEN RemoveAt(cache[p], Slot(p, l)) ELSE cache[p]

Live(p, l) == Holds(p, l) /\ now - cache[p][Slot(p, l)].at < Ttl

\* (mutation of Promoted: a hit does not count as a use)
PromotedNot(p, l) == cache[p]

\* get_mut makes the entry the most recently used one.
Promoted(p, l) == Append(Without(p, l), cache[p][Slot(p, l)])

\* put: replaces the entry, or evicts the least recently used when full.
Put(p, l) ==
  LET rest == Without(p, l)
      room == IF Len(rest) = Cap THEN Tail(rest) ELSE rest
  IN  Append(room, [line |-> l, at |-> now])

\* The line is looked up and, if it is new, recorded before it is published; whether
\* the publish then succeeds is only logged.
LookUp ==
  LET p == reading.pod
      l == Head(reading.lines)
  IN
  /\ reading.lines # <<>> /\ l \notin Mild
  /\ cache' = [cache EXCEPT ![p] = IF Live(p, l) THEN Promoted(p, l) ELSE Put(p, l)]
  /\ told' = [told EXCEPT ![p][l] = IF Live(p, l) THEN @ ELSE now]
  /\ others' = [others EXCEPT ![p] =
       [m \in Lines |-> IF m = l THEN {} ELSE others[p][m] \cup {l}]]
  /\ decision' = [fresh  |-> ~Live(p, l),
                  age    |-> IF told[p][l] = Never THEN Ttl ELSE now - told[p][l],
                  others |-> others[p][l]]
  /\ reading' = [reading EXCEPT !.lines = Tail(@)]
  /\ UNCHANGED <<now, reads>>

\* Delete: remove_pod. A pod of the same name starts afresh.
DeletePod(p) ==
  /\ reading.lines = <<>>
  /\ cache' = [cache EXCEPT ![p] = <<>>]
  /\ told' = [told EXCEPT ![p] = [l \in Lines |-> Never]]
  /\ others' = [others EXCEPT ![p] = [l \in Lines |-> {}]]
  /\ decision' = NoDecision
  /\ UNCHANGED <<now, reading, reads>>

LdNext ==
  \/ LdTick \/ SkipLine \/ LookUp
  \/ \E p \in Pods :
       \/ DeletePod(p)
       \/ \E lines \in UNION {[1..n -> Lines] : n \in 1..TailLines} : ReadTail(p, lines)

-----------------------------------------------------------------------------
(* Properties *)

\* The cache is the memory it promises: no more than the cap per pod; a line is held
\* back only if the same pod's same line went out less than the time to live ago; and
\* one that goes out again within it had been pushed out by at least the cap's number of
\* other lines since it was last looked up.
DedupRemembers ==
  /\ \A p \in Pods : Len(cache[p]) <= Cap
  /\ ~decision.fresh => decision.age < Ttl
  /\ decision.fresh /\ decision.age < Ttl => Cardinality(decision.others) >= Cap
=============================================================================
