------------------------ MODULE EventPipelineProofs ------------------------
(***************************************************************************)
(* Proofs about the way of a detected event to the control plane, and      *)
(* about the failed-unit tap it begins in: for any units, grace window,    *)
(* capacities and number of restarts, no failure is reported twice by one  *)
(* start of the agent, none is reported before its window is over, no      *)
(* event vanishes, the outbox gives up only its oldest row, and each       *)
(* accident costs at most one more delivery.                               *)
(***************************************************************************)
EXTENDS EventPipeline, SequenceTheorems, FiniteSetTheorems, TLAPS

USE TapAssumption, PipelineAssumption

-----------------------------------------------------------------------------
(* The tap's invariant *)

\* No event is of the future, and a failure that this start has reported and that
\* lasts is one the tracker remembers.
ReportsOK ==
  \A i \in 1..Len(events) : LET e == events[i] IN
    /\ e.boot <= boot /\ e.episode <= episode[e.unit]
    /\ e.boot = boot /\ e.episode = episode[e.unit] /\ e.unit \in failed => e.unit \in emitted

\* What is still to be sent is remembered too, and this start has not sent it.
ToEmitOK ==
  \A s \in toEmit :
    /\ s.unit \in emitted /\ s.episode <= episode[s.unit]
    /\ \A i \in 1..Len(events) : events[i] # [unit |-> s.unit, episode |-> s.episode, boot |-> boot]

\* A timer runs only for a unit the last poll saw failed, and for no longer than the
\* unit has been, unless it failed again unseen.
TimersOK ==
  \A u \in Units : pending[u] # None =>
    /\ u \in sighted
    /\ u \in failed \ blinked => pending[u] <= steady[u]

TapInv == TapTypeOK /\ ReportsOK /\ ToEmitOK /\ TimersOK /\ OncePerEpisode

-----------------------------------------------------------------------------
(* The pipeline's invariant *)

\* The variables of the pipeline have their types.
PipeTypeOK ==
  /\ channel \in Seq(Ids) /\ Len(channel) <= ChanCap
  /\ sending \in Ids \cup {None}
  /\ outbox \in Seq(Ids) /\ Len(outbox) <= MaxRows /\ IsInjective(outbox)
  /\ batch \in Seq(Ids) /\ Len(batch) <= Batch
  /\ flushed \in BOOLEAN /\ (flushed => batch # << >>)
  /\ wire \in Seq(Ids)
  /\ stored \subseteq Ids /\ excused \subseteq Ids
  /\ prepares \in Seq(Nat) /\ Len(prepares) = Len(events)
  /\ ambiguous \in 0..MaxAmbiguous

\* What the flush task is about to delete has left.
FlushedOK == flushed => Head(batch) \in stored \cup excused \cup ToSet(wire)

\* An event is in one of channel, loop and buffer, and at one place of it.
OnePlace ==
  /\ IsInjective(channel) /\ IsInjective(batch)
  /\ ToSet(channel) \cap (ToSet(outbox) \cup ToSet(batch)) = {}
  /\ sending \notin ToSet(channel) \cup ToSet(outbox) \cup ToSet(batch)

\* An event the agent may publish once more without an accident.
Owed(e) ==
  \/ e \in ToSet(channel) \cup {sending}
  \/ e \in ToSet(outbox) \cup ToSet(batch) /\ ~(flushed /\ e = Head(batch))

\* The places of e in a sequence.
Places(s, e) == {i \in DOMAIN s : s[i] = e}

\* Deliveries that were, are on their way, and are to be expected: one for each
\* accident, and one.
Wired(e) == Cardinality(Places(wire, e))
Due(e) == IF Owed(e) THEN 1 ELSE 0
DeliveriesOK == \A e \in Ids : prepares[e] + Wired(e) + Due(e) <= 1 + ambiguous

PipeInv == PipeTypeOK /\ FlushedOK /\ OnePlace /\ DeliveriesOK /\ NothingVanishes

IInv == TapInv /\ PipeInv

-----------------------------------------------------------------------------
(* Sequences *)

\* A sequence with one element more.
LEMMA AppendFacts ==
  ASSUME NEW S, NEW s \in Seq(S), NEW e \in S
  PROVE  /\ Append(s, e) \in Seq(S) /\ Len(Append(s, e)) = Len(s) + 1 /\ Len(s) \in Nat
         /\ ToSet(Append(s, e)) = ToSet(s) \cup {e}
         /\ IsInjective(s) /\ e \notin ToSet(s) => IsInjective(Append(s, e))
<1> DEFINE t == Append(s, e)
<1>1. /\ Len(t) = Len(s) + 1 /\ Len(s) \in Nat /\ t \in Seq(S)
      /\ DOMAIN t = 1..(Len(s) + 1) /\ DOMAIN s = 1..Len(s)
      /\ \A i \in 1..Len(s) : t[i] = s[i]
      /\ t[Len(s) + 1] = e
  BY AppendProperties, LenProperties
<1> HIDE DEF t
<1>2. ToSet(t) = ToSet(s) \cup {e}
  BY <1>1 DEF ToSet
<1>3. ASSUME IsInjective(s), e \notin ToSet(s) PROVE IsInjective(t)
  BY <1>1, <1>3 DEF ToSet, IsInjective
<1> QED BY <1>1, <1>2, <1>3 DEF t

\* The head of a sequence and the rest of it.
LEMMA TailFacts ==
  ASSUME NEW S, NEW s \in Seq(S), s # << >>
  PROVE  /\ Head(s) \in S /\ Tail(s) \in Seq(S) /\ Len(Tail(s)) = Len(s) - 1 /\ Len(s) \in Nat \ {0}
         /\ ToSet(s) = {Head(s)} \cup ToSet(Tail(s))
         /\ IsInjective(s) => IsInjective(Tail(s)) /\ Head(s) \notin ToSet(Tail(s))
<1> DEFINE t == Tail(s)
<1>1. /\ Len(t) = Len(s) - 1 /\ Len(s) \in Nat \ {0} /\ t \in Seq(S)
      /\ DOMAIN t = 1..(Len(s) - 1) /\ DOMAIN s = 1..Len(s)
      /\ \A i \in 1..(Len(s) - 1) : t[i] = s[i + 1]
      /\ Head(s) = s[1] /\ Head(s) \in S
  BY HeadTailProperties, LenProperties, EmptySeq
<1> HIDE DEF t
<1>2. ToSet(s) = {Head(s)} \cup ToSet(t)
  <2>1. ASSUME NEW x \in ToSet(s) PROVE x \in {Head(s)} \cup ToSet(t)
    <3>1. PICK i \in 1..Len(s) : x = s[i]
      BY <1>1 DEF ToSet
    <3>2. CASE i = 1
      BY <3>1, <3>2, <1>1
    <3>3. CASE i # 1
      <4>1. i - 1 \in 1..(Len(s) - 1) /\ t[i - 1] = s[i]
        BY <3>3, <1>1
      <4> QED BY <4>1, <3>1, <1>1 DEF ToSet
    <3> QED BY <3>2, <3>3
  <2>2. ASSUME NEW x \in ToSet(t) PROVE x \in ToSet(s)
    <3>1. PICK i \in 1..(Len(s) - 1) : x = t[i]
      BY <1>1 DEF ToSet
    <3>2. i + 1 \in 1..Len(s) /\ s[i + 1] = x
      BY <3>1, <1>1
    <3> QED BY <3>2, <1>1 DEF ToSet
  <2>3. Head(s) \in ToSet(s)
    BY <1>1 DEF ToSet
  <2> QED BY <2>1, <2>2, <2>3
<1>3. ASSUME IsInjective(s) PROVE IsInjective(t) /\ Head(s) \notin ToSet(t)
  BY <1>1, <1>3 DEF ToSet, IsInjective
<1> QED BY <1>1, <1>2, <1>3 DEF t

\* A piece of a sequence.
LEMMA SubSeqFacts ==
  ASSUME NEW S, NEW s \in Seq(S), NEW a \in Nat \ {0}, NEW b \in Nat, b <= Len(s)
  PROVE  LET t == SubSeq(s, a, b) IN
         /\ t \in Seq(S) /\ Len(t) = IF a <= b THEN b - a + 1 ELSE 0
         /\ \A i \in 1..(b - a + 1) : t[i] = s[a + i - 1]
         /\ ToSet(t) = {s[i] : i \in a..b}
         /\ IsInjective(s) => IsInjective(t)
<1> DEFINE t == SubSeq(s, a, b)
<1>1. /\ t \in Seq(S) /\ Len(t) = IF a <= b THEN b - a + 1 ELSE 0
      /\ \A i \in 1..(b - a + 1) : t[i] = s[a + i - 1]
  <2>1. \A i \in a..b : s[i] \in S
    BY ElementOfSeq, LenProperties
  <2> QED BY <2>1, SubSeqProperties
<1>2. DOMAIN t = 1..(b - a + 1) /\ DOMAIN s = 1..Len(s) /\ Len(s) \in Nat
  <2>1. DOMAIN t = 1..Len(t) /\ DOMAIN s = 1..Len(s) /\ Len(s) \in Nat
    BY <1>1, LenProperties
  <2> QED BY <2>1, <1>1
<1> HIDE DEF t
<1>3. ToSet(t) = {s[i] : i \in a..b}
  <2>1. ASSUME NEW i \in a..b PROVE s[i] \in ToSet(t)
    <3>1. i - a + 1 \in 1..(b - a + 1) /\ t[i - a + 1] = s[i]
      BY <1>1
    <3> QED BY <3>1, <1>2 DEF ToSet
  <2>2. ASSUME NEW i \in 1..(b - a + 1) PROVE t[i] = s[a + i - 1] /\ a + i - 1 \in a..b
    BY <1>1
  <2> QED BY <2>1, <2>2, <1>2 DEF ToSet
<1>4. ASSUME IsInjective(s) PROVE IsInjective(t)
  <2> SUFFICES ASSUME NEW i \in 1..(b - a + 1), NEW j \in 1..(b - a + 1), t[i] = t[j] PROVE i = j
    BY <1>2 DEF IsInjective
  <2>1. a + i - 1 \in DOMAIN s /\ a + j - 1 \in DOMAIN s /\ s[a + i - 1] = s[a + j - 1]
    BY <1>1, <1>2
  <2>2. a + i - 1 = a + j - 1
    BY <2>1, <1>4 DEF IsInjective
  <2> QED BY <2>2
<1> QED BY <1>1, <1>3, <1>4 DEF t

\* The places of an element are finitely many; one more element, or one less at the
\* head, makes one more or one less.
LEMMA PlacesFacts ==
  ASSUME NEW S, NEW s \in Seq(S), NEW e
  PROVE  /\ IsFiniteSet(Places(s, e)) /\ Cardinality(Places(s, e)) \in Nat
         /\ e \notin ToSet(s) => Cardinality(Places(s, e)) = 0
<1>1. DOMAIN s = 1..Len(s) /\ Len(s) \in Nat
  BY LenProperties
<1>2. IsFiniteSet(1..Len(s)) /\ Places(s, e) \in SUBSET (1..Len(s))
  BY <1>1, FS_Interval DEF Places
<1>3. IsFiniteSet(Places(s, e)) /\ Cardinality(Places(s, e)) \in Nat
  BY <1>2, FS_Subset, FS_CardinalityType
<1>4. e \notin ToSet(s) => Places(s, e) = {}
  BY DEF Places, ToSet
<1> QED BY <1>3, <1>4, FS_EmptySet

\* An element appended is at one place more.
LEMMA PlacesAppend ==
  ASSUME NEW S, NEW s \in Seq(S), NEW d \in S, NEW e
  PROVE  Cardinality(Places(Append(s, d), e)) = Cardinality(Places(s, e)) + (IF d = e THEN 1 ELSE 0)
<1> DEFINE t == Append(s, d)
           n == Len(s) + 1
<1>1. /\ Len(s) \in Nat /\ DOMAIN t = 1..n /\ DOMAIN s = 1..Len(s)
      /\ \A i \in 1..Len(s) : t[i] = s[i]
      /\ t[n] = d
  BY AppendProperties, LenProperties
<1> HIDE DEF t
<1>2. Places(t, e) = IF d = e THEN Places(s, e) \cup {n} ELSE Places(s, e)
  BY <1>1 DEF Places
<1>3. n \notin Places(s, e)
  BY <1>1 DEF Places
<1>4. IsFiniteSet(Places(s, e)) /\ Cardinality(Places(s, e)) \in Nat
  BY PlacesFacts
<1> HIDE DEF n
<1>5. CASE d = e
  BY <1>2, <1>3, <1>4, <1>5, FS_AddElement DEF t
<1>6. CASE d # e
  BY <1>2, <1>4, <1>6 DEF t
<1> QED BY <1>5, <1>6

\* An element taken from the head is at one place less.
LEMMA PlacesTail ==
  ASSUME NEW S, NEW s \in Seq(S), s # << >>, NEW e
  PROVE  Cardinality(Places(s, e)) = Cardinality(Places(Tail(s), e)) + (IF Head(s) = e THEN 1 ELSE 0)
<1> DEFINE t == Tail(s)
           P == Places(t, e)
           Q == Places(s, e) \ {1}
           f == [i \in P |-> i + 1]
<1>1. /\ Len(s) \in Nat \ {0} /\ t \in Seq(S)
      /\ DOMAIN t = 1..(Len(s) - 1) /\ DOMAIN s = 1..Len(s)
      /\ \A i \in 1..(Len(s) - 1) : t[i] = s[i + 1]
      /\ Head(s) = s[1]
  BY HeadTailProperties, LenProperties, EmptySeq
<1> HIDE DEF t
<1>2. f \in Bijection(P, Q)
  <2>1. f \in [P -> Q]
    BY <1>1 DEF Places
  <2>2. \A i, j \in P : f[i] = f[j] => i = j
    BY <1>1 DEF Places
  <2>3. \A j \in Q : j - 1 \in P /\ f[j - 1] = j
    BY <1>1 DEF Places
  <2> HIDE DEF f, P, Q
  <2> QED BY <2>1, <2>2, <2>3 DEF Bijection, Injection, Surjection, IsInjective
<1>3. IsFiniteSet(P) /\ Cardinality(P) \in Nat
  BY <1>1, PlacesFacts
<1>4. Cardinality(Q) = Cardinality(P)
  BY <1>2, <1>3, FS_Bijection DEF ExistsBijection
<1>5. IsFiniteSet(Places(s, e)) /\ Cardinality(Places(s, e)) \in Nat
  BY PlacesFacts
<1>6. 1 \in Places(s, e) <=> Head(s) = e
  BY <1>1 DEF Places
<1>7. Cardinality(Q) = IF Head(s) = e THEN Cardinality(Places(s, e)) - 1 ELSE Cardinality(Places(s, e))
  BY <1>5, <1>6, FS_RemoveElement
<1> HIDE DEF P, Q
<1>8. CASE Head(s) = e
  BY <1>3, <1>4, <1>5, <1>7, <1>8 DEF t, P
<1>9. CASE Head(s) # e
  BY <1>3, <1>4, <1>5, <1>7, <1>9 DEF t, P
<1> QED BY <1>8, <1>9

-----------------------------------------------------------------------------
(* The tap keeps its invariant *)

\* The tap starts with nothing seen and nothing sent.
LEMMA TapInitInv == TapInit => TapInv
<1> SUFFICES ASSUME TapInit PROVE TapInv
  OBVIOUS
<1>1. TapTypeOK
  BY EmptySeq DEF TapInit, TapTypeOK
<1>2. ReportsOK /\ ToEmitOK /\ TimersOK /\ OncePerEpisode
  BY EmptySeq DEF TapInit, ReportsOK, ToEmitOK, TimersOK, OncePerEpisode
<1> QED BY <1>1, <1>2 DEF TapInv

\* The types the steps below read.
LEMMA TapTypes ==
  ASSUME TapTypeOK
  PROVE  /\ Len(events) \in Nat
         /\ \A i \in 1..Len(events) :
              /\ events[i] \in Event /\ events[i].unit \in Units
              /\ events[i].episode \in Nat /\ events[i].boot \in Nat
         /\ \A s \in toEmit : s.unit \in Units /\ s.episode \in Nat
         /\ \A s \in toEmit : s = [unit |-> s.unit, episode |-> s.episode]
         /\ \A u \in Units : episode[u] \in Nat /\ steady[u] \in Nat
<1>1. events \in Seq(Event) /\ toEmit \subseteq Sighting
  BY DEF TapTypeOK
<1>2. Len(events) \in Nat /\ \A i \in 1..Len(events) : events[i] \in Event
  BY <1>1, ElementOfSeq, LenProperties
<1> QED BY <1>1, <1>2 DEF TapTypeOK, Event, Sighting

\* A unit that fails begins an episode that no event is of.
LEMMA UnitFailsInv == ASSUME TapInv, NEW u \in Units, UnitFails(u) PROVE TapInv'
<1>1. /\ u \notin failed /\ failed' = failed \cup {u}
      /\ episode' = [episode EXCEPT ![u] = @ + 1]
      /\ steady' = [steady EXCEPT ![u] = 0]
      /\ blinked' = IF u \in sighted THEN blinked \cup {u} ELSE blinked
      /\ UNCHANGED <<pending, emitted, toEmit, events, boot, sighted>>
  BY DEF UnitFails
<1>2. TapTypeOK /\ ReportsOK /\ ToEmitOK /\ TimersOK /\ OncePerEpisode
  BY DEF TapInv
<1>3. TapTypeOK'
  BY <1>1, <1>2 DEF TapTypeOK
<1>4. ReportsOK'
  <2> SUFFICES ASSUME NEW i \in 1..Len(events)
               PROVE  /\ events[i].boot <= boot /\ events[i].episode <= episode'[events[i].unit]
                      /\ events[i].boot = boot /\ events[i].episode = episode'[events[i].unit]
                           /\ events[i].unit \in failed' => events[i].unit \in emitted
    BY <1>1 DEF ReportsOK
  <2>1. /\ events[i].unit \in Units /\ events[i].episode \in Nat
        /\ \A v \in Units : episode[v] \in Nat /\ episode'[v] = episode[v] + (IF v = u THEN 1 ELSE 0)
    BY <1>1, <1>2, TapTypes DEF TapTypeOK
  <2>2. /\ events[i].boot <= boot /\ events[i].episode <= episode[events[i].unit]
        /\ events[i].boot = boot /\ events[i].episode = episode[events[i].unit]
             /\ events[i].unit \in failed => events[i].unit \in emitted
    BY <1>2 DEF ReportsOK
  <2>3. CASE events[i].unit = u
    BY <2>1, <2>2, <2>3
  <2>4. CASE events[i].unit # u
    BY <2>1, <2>2, <2>4, <1>1
  <2> QED BY <2>3, <2>4
<1>5. ToEmitOK'
  BY <1>1, <1>2, TapTypes DEF ToEmitOK, TapTypeOK
<1>6. TimersOK'
  BY <1>1, <1>2 DEF TimersOK, TapTypeOK
<1>7. OncePerEpisode'
  BY <1>1, <1>2 DEF OncePerEpisode
<1> QED BY <1>3, <1>4, <1>5, <1>6, <1>7 DEF TapInv

\* A unit that recovers is no longer timed by the ghost, and nothing is said of it.
LEMMA UnitRecoversInv == ASSUME TapInv, NEW u \in Units, UnitRecovers(u) PROVE TapInv'
<1>2. TapTypeOK /\ ReportsOK /\ ToEmitOK /\ TimersOK /\ OncePerEpisode
  BY DEF TapInv
<1>3. TapTypeOK'
  BY <1>2 DEF TapTypeOK, UnitRecovers
<1>4. ReportsOK' /\ ToEmitOK' /\ OncePerEpisode'
  BY <1>2 DEF ReportsOK, ToEmitOK, OncePerEpisode, UnitRecovers
<1>6. TimersOK'
  BY <1>2 DEF TimersOK, TapTypeOK, UnitRecovers
<1> QED BY <1>3, <1>4, <1>6 DEF TapInv

\* Time passes for a timer and for the unit it is of alike.
LEMMA TickInv == ASSUME TapInv, Tick PROVE TapInv'
<1>2. TapTypeOK /\ ReportsOK /\ ToEmitOK /\ TimersOK /\ OncePerEpisode
  BY DEF TapInv
<1>3. TapTypeOK'
  BY <1>2 DEF TapTypeOK, Tick, Older
<1>4. ReportsOK' /\ ToEmitOK' /\ OncePerEpisode'
  BY <1>2 DEF ReportsOK, ToEmitOK, OncePerEpisode, Tick
<1>6. TimersOK'
  BY <1>2 DEF TimersOK, TapTypeOK, Tick, Older
<1> QED BY <1>3, <1>4, <1>6 DEF TapInv

\* What a poll picks was not remembered, so this start has not reported it.
LEMMA ObserveInv == ASSUME TapInv, Observe PROVE TapInv'
<1> DEFINE due == {u \in failed \ emitted : Age(u) >= Grace}
<1>1. /\ toEmit' = {[unit |-> u, episode |-> episode[u]] : u \in due}
      /\ emitted' = (emitted \cap failed) \cup due
      /\ pending' = [u \in Units |-> IF u \in failed /\ u \notin emitted' THEN Age(u) ELSE None]
      /\ sighted' = failed /\ blinked' = blinked \cap failed
      /\ UNCHANGED <<failed, events, boot, episode, steady>>
  BY DEF Observe
<1>2. TapTypeOK /\ ReportsOK /\ ToEmitOK /\ TimersOK /\ OncePerEpisode
  BY DEF TapInv
<1>3. due \subseteq failed /\ due \cap emitted = {} /\ failed \subseteq Units
  BY <1>2 DEF TapTypeOK
<1>a. \A u \in Units : Age(u) \in 0..Grace
  BY <1>2 DEF TapTypeOK, Age
<1> HIDE DEF due
<1>4. TapTypeOK'
  <2>1. toEmit' \subseteq Sighting
    BY <1>1, <1>2, <1>3 DEF TapTypeOK, Sighting
  <2>2. pending' \in [Units -> 0..Grace \cup {None}]
    BY <1>1, <1>a
  <2> QED BY <1>1, <1>2, <1>3, <2>1, <2>2 DEF TapTypeOK
<1>5. ReportsOK'
  BY <1>1, <1>2, <1>3 DEF ReportsOK
<1>6. ToEmitOK'
  <2> SUFFICES ASSUME NEW s \in toEmit'
               PROVE  /\ s.unit \in emitted' /\ s.episode <= episode[s.unit]
                      /\ \A i \in 1..Len(events) :
                           events[i] # [unit |-> s.unit, episode |-> s.episode, boot |-> boot]
    BY <1>1 DEF ToEmitOK
  <2>1. PICK u \in due : s = [unit |-> u, episode |-> episode[u]]
    BY <1>1
  <2>2. s.unit = u /\ s.episode = episode[u] /\ u \in Units /\ episode[u] \in Nat
    BY <2>1, <1>2, <1>3 DEF TapTypeOK
  <2>3. ASSUME NEW i \in 1..Len(events), events[i] = [unit |-> u, episode |-> episode[u], boot |-> boot]
        PROVE  FALSE
    <3>1. events[i].unit = u /\ events[i].episode = episode[u] /\ events[i].boot = boot
      BY <2>3
    <3> QED BY <3>1, <1>2, <1>3 DEF ReportsOK
  <2> QED BY <2>2, <2>3, <1>1
<1>7. TimersOK'
  <2> SUFFICES ASSUME NEW u \in Units, pending'[u] # None
               PROVE  u \in sighted' /\ (u \in failed' \ blinked' => pending'[u] <= steady'[u])
    BY DEF TimersOK
  <2>1. u \in failed /\ pending'[u] = Age(u)
    BY <1>1
  <2>2. u \notin blinked => Age(u) <= steady[u]
    BY <2>1, <1>2 DEF TimersOK, Age, TapTypeOK
  <2> QED BY <2>1, <2>2, <1>1
<1>8. OncePerEpisode'
  BY <1>1, <1>2 DEF OncePerEpisode
<1> QED BY <1>4, <1>5, <1>6, <1>7, <1>8 DEF TapInv

\* What is sent is new.
LEMMA SendInv == ASSUME TapInv, NEW s, Send(s) PROVE TapInv'
<1> DEFINE new == [unit |-> s.unit, episode |-> s.episode, boot |-> boot]
           n == Len(events) + 1
<1>1. /\ s \in toEmit /\ toEmit' = toEmit \ {s} /\ events' = Append(events, new)
      /\ UNCHANGED <<failed, pending, emitted, boot, episode, steady, sighted, blinked>>
  BY DEF Send
<1>2. TapTypeOK /\ ReportsOK /\ ToEmitOK /\ TimersOK /\ OncePerEpisode
  BY DEF TapInv
<1>3. /\ new \in Event /\ new.unit = s.unit /\ new.episode = s.episode /\ new.boot = boot
      /\ events \in Seq(Event) /\ boot \in Nat
  BY <1>1, <1>2 DEF TapTypeOK, Sighting, Event
<1>4. /\ events' \in Seq(Event) /\ Len(events') = n /\ Len(events) \in Nat
      /\ events'[n] = new /\ \A i \in 1..Len(events) : events'[i] = events[i]
      /\ \A i \in 1..n : i \in 1..Len(events) \/ i = n
  BY <1>1, <1>3, AppendProperties, LenProperties
<1>5. /\ s.unit \in emitted /\ s.episode <= episode[s.unit]
      /\ \A i \in 1..Len(events) : events[i] # new
  BY <1>1, <1>2 DEF ToEmitOK
<1>6. \A r \in toEmit' : new # [unit |-> r.unit, episode |-> r.episode, boot |-> boot]
  BY <1>1, <1>2, TapTypes
<1> HIDE DEF new, n
<1>7. TapTypeOK'
  BY <1>1, <1>2, <1>4 DEF TapTypeOK
<1>8. ReportsOK'
  <2> SUFFICES ASSUME NEW i \in 1..n
               PROVE  /\ events'[i].boot <= boot /\ events'[i].episode <= episode[events'[i].unit]
                      /\ events'[i].boot = boot /\ events'[i].episode = episode[events'[i].unit]
                           /\ events'[i].unit \in failed => events'[i].unit \in emitted
    BY <1>1, <1>4 DEF ReportsOK
  <2>1. CASE i \in 1..Len(events)
    BY <2>1, <1>2, <1>4 DEF ReportsOK
  <2>2. CASE i = n
    BY <2>2, <1>3, <1>4, <1>5
  <2> QED BY <2>1, <2>2, <1>4
<1>9. ToEmitOK'
  <2> SUFFICES ASSUME NEW r \in toEmit'
               PROVE  /\ r.unit \in emitted /\ r.episode <= episode[r.unit]
                      /\ \A i \in 1..n :
                           events'[i] # [unit |-> r.unit, episode |-> r.episode, boot |-> boot]
    BY <1>1, <1>4 DEF ToEmitOK
  <2> QED BY <1>1, <1>2, <1>4, <1>6 DEF ToEmitOK
<1>10. TimersOK'
  BY <1>1, <1>2 DEF TimersOK
<1>11. OncePerEpisode'
  BY <1>2, <1>4, <1>5 DEF OncePerEpisode
<1> QED BY <1>7, <1>8, <1>9, <1>10, <1>11 DEF TapInv

\* A new start remembers nothing, but has its own number.
LEMMA TapRestartInv == ASSUME TapInv, TapRestart PROVE TapInv'
<1>1. /\ pending' = [u \in Units |-> None] /\ emitted' = {} /\ toEmit' = {}
      /\ boot' = boot + 1 /\ sighted' = {} /\ blinked' = {}
      /\ UNCHANGED <<failed, events, episode, steady>>
  BY DEF TapRestart, NewTracker
<1>2. TapTypeOK /\ ReportsOK /\ ToEmitOK /\ TimersOK /\ OncePerEpisode
  BY DEF TapInv
<1>3. TapTypeOK'
  BY <1>1, <1>2 DEF TapTypeOK
<1>4. ReportsOK'
  BY <1>1, <1>2, TapTypes DEF ReportsOK, TapTypeOK
<1>5. ToEmitOK' /\ TimersOK' /\ OncePerEpisode'
  BY <1>1, <1>2 DEF ToEmitOK, TimersOK, OncePerEpisode
<1> QED BY <1>3, <1>4, <1>5 DEF TapInv

\* A step that leaves the tap alone.
LEMMA TapStutter == ASSUME TapInv, UNCHANGED tapVars PROVE TapInv'
  BY DEF TapInv, tapVars, TapTypeOK, ReportsOK, ToEmitOK, TimersOK, OncePerEpisode

-----------------------------------------------------------------------------
(* The pipeline keeps its invariant *)

\* The types the steps below read.
LEMMA PipeTypes ==
  ASSUME TapTypeOK, PipeTypeOK
  PROVE  /\ Len(events) \in Nat /\ Ids = 1..Len(events) /\ None \notin Ids
         /\ ToSet(channel) \subseteq Ids /\ ToSet(outbox) \subseteq Ids
         /\ ToSet(batch) \subseteq Ids /\ ToSet(wire) \subseteq Ids
         /\ (flushed => Head(batch) \in ToSet(batch))
         /\ (batch = << >> => ToSet(batch) = {})
         /\ ambiguous \in Nat
         /\ \A e \in Ids : prepares[e] \in Nat /\ Wired(e) \in Nat /\ Due(e) \in {0, 1}
<1>1. events \in Seq(Event)
  BY DEF TapTypeOK
<1>2. Len(events) \in Nat /\ Ids = 1..Len(events) /\ None \notin Ids
  BY <1>1, LenProperties DEF Ids
<1>3. /\ channel \in Seq(Ids) /\ outbox \in Seq(Ids) /\ batch \in Seq(Ids) /\ wire \in Seq(Ids)
      /\ prepares \in Seq(Nat) /\ Len(prepares) = Len(events) /\ ambiguous \in 0..MaxAmbiguous
      /\ (flushed => batch # << >>)
  BY DEF PipeTypeOK
<1>4. \A s \in Seq(Ids) : ToSet(s) \subseteq Ids
  BY LenProperties, ElementOfSeq DEF ToSet
<1>5. batch # << >> => Head(batch) \in ToSet(batch)
  BY <1>3, TailFacts
<1>6. batch = << >> => ToSet(batch) = {}
  BY DEF ToSet
<1>7. \A e \in Ids : prepares[e] \in Nat
  BY <1>2, <1>3, ElementOfSeq
<1>8. \A e \in Ids : Wired(e) \in Nat
  BY <1>3, PlacesFacts DEF Wired
<1>9. \A e \in Ids : Due(e) \in {0, 1}
  BY DEF Due
<1> QED BY <1>2, <1>3, <1>4, <1>5, <1>6, <1>7, <1>8, <1>9

\* The first state of the pipeline: nothing sent, nothing on its way.
LEMMA PipeInitInv == Init => PipeInv
<1> SUFFICES ASSUME Init PROVE PipeInv
  OBVIOUS
<1>1. /\ events = << >> /\ channel = << >> /\ sending = None /\ outbox = << >> /\ batch = << >>
      /\ flushed = FALSE /\ wire = << >> /\ stored = {} /\ prepares = << >>
      /\ excused = {} /\ ambiguous = 0
  BY DEF Init, TapInit
<1>2. Ids = {}
  BY <1>1, EmptySeq DEF Ids
<1>3. PipeTypeOK
  <2>1. IsInjective(<< >>)
    BY DEF IsInjective
  <2>2. << >> \in Seq(Ids) /\ << >> \in Seq(Nat) /\ Len(<< >>) = 0
    BY EmptySeq
  <2>3. Len(channel) <= ChanCap /\ Len(outbox) <= MaxRows /\ Len(batch) <= Batch
    BY <1>1, <2>2
  <2>4. ambiguous \in 0..MaxAmbiguous /\ stored \subseteq Ids /\ excused \subseteq Ids
    BY <1>1
  <2> QED BY <1>1, <2>1, <2>2, <2>3, <2>4 DEF PipeTypeOK
<1>4. OnePlace
  BY <1>1 DEF OnePlace, ToSet, IsInjective
<1>5. FlushedOK /\ DeliveriesOK /\ NothingVanishes
  BY <1>1, <1>2 DEF FlushedOK, DeliveriesOK, NothingVanishes
<1> QED BY <1>3, <1>4, <1>5 DEF PipeInv

\* A step that leaves the pipeline and the list of events alone.
LEMMA PipeStutter == ASSUME PipeInv, UNCHANGED <<pipeVars, events>> PROVE PipeInv'
<1>1. UNCHANGED <<channel, sending, outbox, batch, flushed, wire, stored, prepares, excused, ambiguous, events>>
  BY DEF pipeVars
<1>2. PipeTypeOK' /\ FlushedOK' /\ OnePlace' /\ NothingVanishes'
  BY <1>1 DEF PipeInv, PipeTypeOK, FlushedOK, OnePlace, NothingVanishes, Ids
<1>3. DeliveriesOK'
  BY <1>1 DEF PipeInv, DeliveriesOK, Wired, Due, Owed, Ids
<1> QED BY <1>2, <1>3 DEF PipeInv

\* Deliveries stay explained by a step that adds to what is on its way or expected no
\* more than it adds accidents.
LEMMA DeliveriesStep ==
  ASSUME TapTypeOK, PipeTypeOK, PipeTypeOK', UNCHANGED <<tapVars, prepares>>, DeliveriesOK,
         \A e \in Ids : Wired(e)' + Due(e)' + ambiguous <= Wired(e) + Due(e) + ambiguous'
  PROVE  DeliveriesOK'
<1>1. UNCHANGED <<events, prepares>> /\ TapTypeOK'
  BY DEF tapVars, TapTypeOK
<1>2. Ids' = Ids
  BY <1>1 DEF Ids
<1> SUFFICES ASSUME NEW e \in Ids PROVE prepares[e] + Wired(e)' + Due(e)' <= 1 + ambiguous'
  BY <1>1, <1>2 DEF DeliveriesOK
<1>3. prepares[e] \in Nat /\ Wired(e) \in Nat /\ Due(e) \in {0, 1} /\ ambiguous \in Nat
  BY PipeTypes
<1>4. Wired(e)' \in Nat /\ Due(e)' \in {0, 1} /\ ambiguous' \in Nat
  <2>1. wire' \in Seq(Ids) /\ ambiguous' \in Nat
    BY <1>2 DEF PipeTypeOK
  <2>2. Wired(e)' \in Nat
    BY <2>1, PlacesFacts DEF Wired
  <2> QED BY <2>1, <2>2 DEF Due
<1>5. prepares[e] + Wired(e) + Due(e) <= 1 + ambiguous
  BY DEF DeliveriesOK
<1>6. Wired(e)' + Due(e)' + ambiguous <= Wired(e) + Due(e) + ambiguous'
  OBVIOUS
<1> QED BY <1>3, <1>4, <1>5, <1>6

\* A publish that reports success: one copy, or two for one accident.
LEMMA PublishedFacts ==
  ASSUME PipeTypeOK, NEW e \in Ids, Published(e)
  PROVE  /\ wire' \in Seq(Ids) /\ ToSet(wire') = ToSet(wire) \cup {e}
         /\ ambiguous' \in 0..MaxAmbiguous
         /\ \E x \in {0, 1} : /\ ambiguous' = ambiguous + x
                              /\ \A d \in Ids : Wired(d)' = Wired(d) + (IF d = e THEN 1 + x ELSE 0)
<1>1. wire \in Seq(Ids) /\ ambiguous \in 0..MaxAmbiguous
  BY DEF PipeTypeOK
<1> DEFINE one == Append(wire, e)
           two == Append(one, e)
<1>2. one \in Seq(Ids) /\ ToSet(one) = ToSet(wire) \cup {e}
  BY <1>1, AppendFacts
<1>3. \A d \in Ids : Cardinality(Places(one, d)) = Wired(d) + (IF d = e THEN 1 ELSE 0)
  BY <1>1, PlacesAppend DEF Wired
<1>4. CASE wire' = one /\ UNCHANGED ambiguous
  BY <1>1, <1>2, <1>3, <1>4 DEF Wired
<1>5. CASE ambiguous < MaxAmbiguous /\ ambiguous' = ambiguous + 1 /\ wire' = wire \o <<e, e>>
  <2>1. wire \o <<e, e>> = two
    <3>1. /\ Len(one) = Len(wire) + 1 /\ Len(two) = Len(wire) + 2 /\ Len(wire) \in Nat
          /\ \A i \in 1..Len(wire) : two[i] = wire[i]
          /\ two[Len(wire) + 1] = e /\ two[Len(wire) + 2] = e /\ two \in Seq(Ids)
      <4> HIDE DEF one
      <4>1. /\ two \in Seq(Ids) /\ Len(two) = Len(one) + 1 /\ two[Len(one) + 1] = e
            /\ \A i \in 1..Len(one) : two[i] = one[i]
        BY <1>2, AppendProperties
      <4>2. /\ Len(one) = Len(wire) + 1 /\ one[Len(wire) + 1] = e /\ Len(wire) \in Nat
            /\ \A i \in 1..Len(wire) : one[i] = wire[i]
        BY <1>1, AppendProperties, LenProperties DEF one
      <4> HIDE DEF two
      <4> QED BY <4>1, <4>2
    <3> DEFINE cat == wire \o <<e, e>>
    <3>2. /\ cat \in Seq(Ids) /\ Len(cat) = Len(wire) + 2
          /\ \A i \in 1..Len(wire) + 2 : cat[i] = IF i <= Len(wire) THEN wire[i] ELSE e
      <4>1. <<e, e>> \in Seq(Ids) /\ Len(<<e, e>>) = 2 /\ <<e, e>>[1] = e /\ <<e, e>>[2] = e
        OBVIOUS
      <4> DEFINE ee == <<e, e>>
      <4>2. /\ cat \in Seq(Ids) /\ Len(cat) = Len(wire) + Len(ee)
            /\ \A i \in 1..Len(wire) + Len(ee) : cat[i] = IF i <= Len(wire) THEN wire[i] ELSE ee[i - Len(wire)]
        BY <1>1, <4>1, ConcatProperties
      <4>3. Len(wire) \in Nat
        BY <1>1, LenProperties
      <4> HIDE DEF cat, ee
      <4>4. \A i \in 1..Len(wire) + 2 : ~(i <= Len(wire)) => ee[i - Len(wire)] = e
        BY <4>1, <4>3 DEF ee
      <4>5. Len(ee) = 2
        BY <4>1 DEF ee
      <4> QED BY <4>2, <4>3, <4>4, <4>5
    <3> HIDE DEF two, cat
    <3>3. \A i \in 1..Len(cat) : cat[i] = two[i]
      BY <3>1, <3>2
    <3> QED BY <3>1, <3>2, <3>3, SeqEqual DEF cat
  <2>a. wire' = two
    BY ONLY <1>5, <2>1
  <2> HIDE DEF one
  <2>2. two \in Seq(Ids) /\ ToSet(two) = ToSet(one) \cup {e}
    BY <1>2, AppendFacts
  <2>3. \A d \in Ids : Cardinality(Places(two, d)) = Cardinality(Places(one, d)) + (IF d = e THEN 1 ELSE 0)
    BY <1>2, PlacesAppend
  <2>4. \A d \in Ids : Wired(d) \in Nat
    BY <1>1, PlacesFacts DEF Wired
  <2> HIDE DEF two
  <2>5. \A d \in Ids : Cardinality(Places(two, d)) = Wired(d) + (IF d = e THEN 2 ELSE 0)
    BY <1>3, <2>3, <2>4
  <2>6. \A d \in Ids : Wired(d)' = Wired(d) + (IF d = e THEN 1 + 1 ELSE 0)
    BY <2>a, <2>5 DEF Wired
  <2>7. wire' \in Seq(Ids) /\ ToSet(wire') = ToSet(wire) \cup {e}
    BY <1>2, <2>a, <2>2
  <2>8. ambiguous' \in 0..MaxAmbiguous /\ ambiguous' = ambiguous + 1
    BY <1>1, <1>5
  <2> QED BY <2>6, <2>7, <2>8
<1> QED BY <1>4, <1>5 DEF Published

\* A publish that reports an error: no copy, or one for one accident.
LEMMA NotPublishedFacts ==
  ASSUME PipeTypeOK, NEW e \in Ids, NotPublished(e)
  PROVE  /\ wire' \in Seq(Ids) /\ ToSet(wire) \subseteq ToSet(wire')
         /\ ambiguous' \in 0..MaxAmbiguous
         /\ \E x \in {0, 1} : /\ ambiguous' = ambiguous + x
                              /\ \A d \in Ids : Wired(d)' = Wired(d) + (IF d = e THEN x ELSE 0)
<1>1. wire \in Seq(Ids) /\ ambiguous \in 0..MaxAmbiguous
  BY DEF PipeTypeOK
<1>2. \A d \in Ids : Wired(d) \in Nat
  BY <1>1, PlacesFacts DEF Wired
<1>3. CASE UNCHANGED <<wire, ambiguous>>
  <2>1. \A d \in Ids : Wired(d)' = Wired(d) + (IF d = e THEN 0 ELSE 0)
    BY <1>2, <1>3 DEF Wired
  <2> QED BY <1>1, <1>3, <2>1
<1>4. CASE ambiguous < MaxAmbiguous /\ ambiguous' = ambiguous + 1 /\ wire' = Append(wire, e)
  <2>1. wire' \in Seq(Ids) /\ ToSet(wire') = ToSet(wire) \cup {e}
    BY <1>1, <1>4, AppendFacts
  <2>2. \A d \in Ids : Wired(d)' = Wired(d) + (IF d = e THEN 1 ELSE 0)
    BY <1>1, <1>4, PlacesAppend DEF Wired
  <2> QED BY <1>1, <1>4, <2>1, <2>2
<1> QED BY <1>3, <1>4 DEF NotPublished

\* Buffer::delete takes out one row and leaves the others.
LEMMA DeleteRowFacts ==
  ASSUME PipeTypeOK, NEW e
  PROVE  /\ DeleteRow(e) \in Seq(Ids) /\ Len(DeleteRow(e)) <= Len(outbox)
         /\ IsInjective(DeleteRow(e)) /\ ToSet(DeleteRow(e)) = ToSet(outbox) \ {e}
<1>1. outbox \in Seq(Ids) /\ IsInjective(outbox)
  BY DEF PipeTypeOK
<1> DEFINE n == Len(outbox)
<1>2. n \in Nat /\ DOMAIN outbox = 1..n
  BY <1>1, LenProperties
<1>3. CASE ~Contains(outbox, e)
  <2>1. e \notin ToSet(outbox)
    BY <1>2, <1>3 DEF Contains, ToSet
  <2> QED BY <1>1, <1>2, <1>3, <2>1 DEF DeleteRow
<1>4. CASE Contains(outbox, e)
  <2> DEFINE i == CHOOSE j \in DOMAIN outbox : outbox[j] = e
             a == SubSeq(outbox, 1, i - 1)
             b == SubSeq(outbox, i + 1, n)
             t == a \o b
  <2>1. i \in 1..n /\ outbox[i] = e
    BY <1>2, <1>4 DEF Contains
  <2>2. DeleteRow(e) = t
    BY <1>4 DEF DeleteRow, RemoveAt
  <2> HIDE DEF i
  <2>3. /\ a \in Seq(Ids) /\ Len(a) = i - 1 /\ \A k \in 1..(i - 1) : a[k] = outbox[k]
    <3>1. i - 1 \in Nat /\ i - 1 <= Len(outbox) /\ 1 \in Nat \ {0}
      BY <2>1, <1>2
    <3>2. /\ a \in Seq(Ids) /\ Len(a) = IF 1 <= i - 1 THEN i - 1 - 1 + 1 ELSE 0
          /\ \A k \in 1..(i - 1 - 1 + 1) : a[k] = outbox[1 + k - 1]
      BY <3>1, <1>1, SubSeqFacts
    <3> QED BY <3>1, <3>2, <2>1
  <2>4. /\ b \in Seq(Ids) /\ Len(b) = n - i /\ \A k \in 1..(n - i) : b[k] = outbox[i + k]
    <3>1. i + 1 \in Nat \ {0} /\ n \in Nat /\ n <= Len(outbox)
      BY <2>1, <1>2
    <3>2. /\ b \in Seq(Ids) /\ Len(b) = IF i + 1 <= n THEN n - (i + 1) + 1 ELSE 0
          /\ \A k \in 1..(n - (i + 1) + 1) : b[k] = outbox[i + 1 + k - 1]
      BY <3>1, <1>1, SubSeqFacts
    <3> QED BY <3>1, <3>2, <2>1
  <2> HIDE DEF a, b
  <2>5. /\ t \in Seq(Ids) /\ Len(t) = Len(a) + Len(b)
        /\ \A k \in 1..Len(a) + Len(b) : t[k] = IF k <= Len(a) THEN a[k] ELSE b[k - Len(a)]
    BY <2>3, <2>4, ConcatProperties
  <2> HIDE DEF t
  <2>6. /\ Len(t) = n - 1 /\ DOMAIN t = 1..(n - 1)
        /\ \A k \in 1..(n - 1) : t[k] = IF k < i THEN outbox[k] ELSE outbox[k + 1]
    <3>1. Len(t) = n - 1 /\ DOMAIN t = 1..(n - 1)
      BY <2>1, <2>3, <2>4, <2>5, LenProperties, <1>2
    <3>2. ASSUME NEW k \in 1..(n - 1), k < i PROVE t[k] = outbox[k]
      <4>1. Len(a) = i - 1 /\ Len(b) = n - i /\ i \in Int /\ n \in Int
        BY <2>1, <2>3, <2>4, <1>2
      <4>2. k \in 1..Len(a) + Len(b) /\ k <= Len(a) /\ k \in 1..(i - 1)
        BY <3>2, <4>1
      <4> QED BY <4>2, <2>3, <2>5
    <3>3. ASSUME NEW k \in 1..(n - 1), ~(k < i) PROVE t[k] = outbox[k + 1]
      <4>0. /\ Len(a) = i - 1 /\ k \in 1..Len(a) + Len(b) /\ ~(k <= Len(a))
            /\ k - (i - 1) \in 1..(n - i)
        <5>1. Len(a) = i - 1 /\ Len(b) = n - i /\ i \in Int /\ n \in Int
          BY <2>1, <2>3, <2>4, <1>2
        <5> QED BY <3>3, <5>1
      <4>1. t[k] = b[k - (i - 1)] /\ k - (i - 1) \in 1..(n - i)
        BY <4>0, <2>5
      <4>2. i + (k - (i - 1)) = k + 1
        BY <2>1, <1>2
      <4> QED BY <4>1, <4>2, <2>4
    <3> QED BY <3>1, <3>2, <3>3
  <2>7. ToSet(t) = ToSet(outbox) \ {e}
    <3>1. ASSUME NEW x \in ToSet(outbox), x # e PROVE x \in ToSet(t)
      <4>1. PICK k \in 1..n : x = outbox[k]
        BY <1>2 DEF ToSet
      <4>2. CASE k < i
        BY <4>1, <4>2, <2>1, <2>6, <1>2 DEF ToSet
      <4>3. CASE k > i
        <5>1. k - 1 \in 1..(n - 1) /\ ~(k - 1 < i) /\ k - 1 + 1 = k
          BY <4>3, <2>1, <1>2
        <5>2. t[k - 1] = outbox[k]
          BY <5>1, <2>6
        <5> QED BY <5>1, <5>2, <4>1, <2>6 DEF ToSet
      <4>4. k # i
        BY <3>1, <4>1, <2>1
      <4> QED BY <4>2, <4>3, <4>4, <2>1, <1>2
    <3>2. ASSUME NEW k \in 1..(n - 1) PROVE t[k] \in ToSet(outbox) /\ t[k] # e
      <4>1. CASE k < i
        <5>1. k \in DOMAIN outbox /\ i \in DOMAIN outbox /\ t[k] = outbox[k] /\ k # i
          BY <4>1, <2>1, <2>6, <1>2
        <5> QED BY <5>1, <2>1, <1>1 DEF ToSet, IsInjective
      <4>2. CASE ~(k < i)
        <5>1. k + 1 \in DOMAIN outbox /\ i \in DOMAIN outbox /\ t[k] = outbox[k + 1] /\ k + 1 # i
          BY <4>2, <2>1, <2>6, <1>2
        <5> QED BY <5>1, <2>1, <1>1 DEF ToSet, IsInjective
      <4> QED BY <4>1, <4>2
    <3> QED BY <3>1, <3>2, <2>6 DEF ToSet
  <2>8. IsInjective(t)
    <3> DEFINE at(k) == IF k < i THEN k ELSE k + 1
    <3>1. \A k \in 1..(n - 1) : at(k) \in DOMAIN outbox /\ t[k] = outbox[at(k)]
      BY <2>1, <2>6, <1>2
    <3>2. \A k, l \in 1..(n - 1) : at(k) = at(l) => k = l
      BY <2>1, <1>2
    <3> HIDE DEF at
    <3> QED BY <3>1, <3>2, <2>6, <1>1 DEF IsInjective
  <2> QED BY <2>2, <2>5, <2>6, <2>7, <2>8, <1>2
<1> QED BY <1>3, <1>4

\* Buffer::enqueue of a row that is not there keeps the cap, and gives up at most the
\* oldest row, in a full table.
LEMMA EnqueueFacts ==
  ASSUME PipeTypeOK, NEW e \in Ids, e \notin ToSet(outbox), Enqueue(e)
  PROVE  /\ outbox' \in Seq(Ids) /\ Len(outbox') <= MaxRows /\ IsInjective(outbox')
         /\ ToSet(outbox') \subseteq ToSet(outbox) \cup {e}
         /\ ToSet(outbox) \cup {e} \subseteq ToSet(outbox') \cup excused'
         /\ excused \subseteq excused' /\ excused' \subseteq Ids
         /\ \A d \in ToSet(outbox) \ ToSet(outbox') :
              Len(outbox) = MaxRows /\ Len(outbox') = MaxRows /\ d = outbox[1]
<1>1. /\ outbox \in Seq(Ids) /\ IsInjective(outbox) /\ Len(outbox) <= MaxRows /\ excused \subseteq Ids
      /\ MaxRows \in Nat \ {0} /\ Len(outbox) \in Nat
  BY LenProperties DEF PipeTypeOK
<1> DEFINE rows == Append(outbox, e)
           n == Len(rows)
           over == IF n > MaxRows THEN n - MaxRows ELSE 0
<1>2. ~Contains(outbox, e)
  <2>1. DOMAIN outbox = 1..Len(outbox)
    BY <1>1, LenProperties
  <2> QED BY <2>1 DEF Contains, ToSet
<1>3. outbox' = SubSeq(rows, over + 1, n) /\ excused' = excused \cup {rows[i] : i \in 1..over}
  BY <1>2 DEF Enqueue
<1>4. rows \in Seq(Ids) /\ n = Len(outbox) + 1 /\ ToSet(rows) = ToSet(outbox) \cup {e} /\ IsInjective(rows)
  BY <1>1, AppendFacts
<1>5. \A i \in 1..Len(outbox) : rows[i] = outbox[i]
  BY <1>1, AppendProperties
<1>6. DOMAIN rows = 1..n
  BY <1>4, LenProperties
<1> HIDE DEF rows, n
<1>7. over \in {0, 1} /\ (over = 1 => Len(outbox) = MaxRows) /\ n \in Nat \ {0}
  BY <1>1, <1>4
<1>8. /\ outbox' \in Seq(Ids) /\ Len(outbox') = n - over
      /\ ToSet(outbox') = {rows[i] : i \in (over + 1)..n}
      /\ IsInjective(outbox')
  <2>1. over + 1 \in Nat \ {0} /\ n <= Len(rows)
    BY <1>7 DEF n
  <2> HIDE DEF over
  <2>2. /\ outbox' \in Seq(Ids)
        /\ Len(outbox') = IF over + 1 <= n THEN n - (over + 1) + 1 ELSE 0
        /\ ToSet(outbox') = {rows[i] : i \in (over + 1)..n}
        /\ IsInjective(outbox')
    BY <2>1, <1>3, <1>4, <1>7, SubSeqFacts
  <2> QED BY <2>2, <1>7
<1>9. ToSet(rows) = {rows[i] : i \in 1..n}
  BY <1>6 DEF ToSet
<1>10. Len(outbox') <= MaxRows
  BY <1>1, <1>4, <1>8
<1> HIDE DEF over
<1>11. ToSet(outbox') \subseteq ToSet(rows) /\ {rows[i] : i \in 1..over} \subseteq ToSet(rows)
  BY <1>7, <1>8, <1>9
<1>12. ToSet(rows) \subseteq ToSet(outbox') \cup excused'
  BY <1>3, <1>7, <1>8, <1>9
<1>13. ToSet(rows) \subseteq Ids
  BY <1>4, <1>9, ElementOfSeq DEF n
<1>14. ASSUME NEW d \in ToSet(outbox) \ ToSet(outbox')
       PROVE  Len(outbox) = MaxRows /\ Len(outbox') = MaxRows /\ d = outbox[1]
  <2>1. PICK i \in 1..n : d = rows[i]
    BY <1>4, <1>9
  <2>2. i = 1 /\ over = 1
    BY <2>1, <1>7, <1>8
  <2>3. 1 \in 1..Len(outbox)
    BY <1>1, <2>2, <1>7
  <2> QED BY <2>1, <2>2, <2>3, <1>1, <1>4, <1>5, <1>7, <1>8
<1> QED BY <1>3, <1>4, <1>8, <1>10, <1>11, <1>12, <1>13, <1>14, <1>1

\* The loop takes an event from the channel.
LEMMA ReceiveInv == ASSUME IInv, Receive PROVE PipeInv'
<1>0. /\ TapTypeOK /\ PipeTypeOK /\ FlushedOK /\ OnePlace /\ DeliveriesOK /\ NothingVanishes
  BY DEF IInv, TapInv, PipeInv
<1>1. /\ sending = None /\ channel # << >>
      /\ sending' = Head(channel) /\ channel' = Tail(channel)
      /\ UNCHANGED <<tapVars, outbox, batch, flushed, wire, excused, ambiguous, stored, prepares>>
  BY DEF Receive, Others
<1>2. UNCHANGED events /\ Ids' = Ids
  BY <1>1 DEF tapVars, Ids
<1>3. /\ Head(channel) \in Ids /\ Tail(channel) \in Seq(Ids) /\ Len(Tail(channel)) <= ChanCap
      /\ ToSet(channel) = {Head(channel)} \cup ToSet(Tail(channel))
      /\ IsInjective(Tail(channel)) /\ Head(channel) \notin ToSet(Tail(channel))
  <2>1. channel \in Seq(Ids) /\ IsInjective(channel) /\ Len(channel) <= ChanCap
    BY <1>0 DEF PipeTypeOK, OnePlace
  <2> QED BY <2>1, <1>1, TailFacts
<1>4. PipeTypeOK'
  BY <1>0, <1>1, <1>2, <1>3 DEF PipeTypeOK
<1>5. FlushedOK'
  BY <1>0, <1>1 DEF FlushedOK
<1>6. OnePlace'
  BY <1>0, <1>1, <1>3 DEF OnePlace
<1>7. DeliveriesOK'
  <2>1. \A e \in Ids : Owed(e)' => Owed(e)
    BY <1>1, <1>3 DEF Owed
  <2>2. ASSUME NEW e \in Ids PROVE Wired(e)' + Due(e)' + ambiguous <= Wired(e) + Due(e) + ambiguous'
    <3>1. Wired(e)' = Wired(e) /\ ambiguous' = ambiguous /\ Wired(e) \in Nat /\ ambiguous \in Nat
      BY <1>0, <1>1, PipeTypes DEF Wired
    <3>2. Due(e)' \in {0, 1} /\ Due(e) \in {0, 1} /\ Due(e)' <= Due(e)
      BY <2>1 DEF Due
    <3> QED BY <3>1, <3>2
  <2> QED BY <2>2, <1>0, <1>1, <1>4, DeliveriesStep
<1>8. NothingVanishes'
  BY <1>0, <1>1, <1>2, <1>3, PipeTypes DEF NothingVanishes
<1> QED BY <1>4, <1>5, <1>6, <1>7, <1>8 DEF PipeInv

\* The event is published.
LEMMA PublishOkInv == ASSUME IInv, PublishOk PROVE PipeInv'
<1>0. /\ TapTypeOK /\ PipeTypeOK /\ FlushedOK /\ OnePlace /\ DeliveriesOK /\ NothingVanishes
  BY DEF IInv, TapInv, PipeInv
<1>1. /\ sending # None /\ Published(sending) /\ sending' = None
      /\ UNCHANGED <<tapVars, channel, outbox, batch, flushed, excused, stored, prepares>>
  BY DEF PublishOk, Others
<1>2. UNCHANGED events /\ Ids' = Ids
  BY <1>1 DEF tapVars, Ids
<1>3. sending \in Ids
  BY <1>0, <1>1 DEF PipeTypeOK
<1>a. /\ wire' \in Seq(Ids) /\ ToSet(wire') = ToSet(wire) \cup {sending}
      /\ ambiguous' \in 0..MaxAmbiguous
  BY <1>0, <1>1, <1>3, PublishedFacts
<1>b. PICK x \in {0, 1} :
        /\ ambiguous' = ambiguous + x
        /\ \A d \in Ids : Wired(d)' = Wired(d) + (IF d = sending THEN 1 + x ELSE 0)
  BY <1>0, <1>1, <1>3, PublishedFacts
<1>4. PipeTypeOK'
  BY <1>0, <1>1, <1>2, <1>a DEF PipeTypeOK
<1>5. FlushedOK'
  BY <1>0, <1>1, <1>a DEF FlushedOK
<1>6. OnePlace'
  BY <1>0, <1>1, <1>2, PipeTypes DEF OnePlace
<1>7. DeliveriesOK'
  <2>1. \A e \in Ids : Owed(e)' => Owed(e) /\ e # sending
    BY <1>0, <1>1, PipeTypes DEF Owed, OnePlace
  <2>2. ASSUME NEW e \in Ids PROVE Wired(e)' + Due(e)' + ambiguous <= Wired(e) + Due(e) + ambiguous'
    <3>1. Wired(e) \in Nat /\ ambiguous \in Nat
      BY <1>0, PipeTypes
    <3>2. Due(e)' \in {0, 1} /\ Due(e) \in {0, 1} /\ Due(e)' <= Due(e)
      BY <2>1 DEF Due
    <3>3. e = sending => Due(e)' = 0 /\ Due(e) = 1
      BY <2>1 DEF Due, Owed
    <3> QED BY <3>1, <3>2, <3>3, <1>b
  <2> QED BY <2>2, <1>0, <1>1, <1>4, DeliveriesStep
<1>8. NothingVanishes'
  BY <1>0, <1>1, <1>2, <1>a, PipeTypes DEF NothingVanishes
<1> QED BY <1>4, <1>5, <1>6, <1>7, <1>8 DEF PipeInv

\* The event is not published, as far as the loop knows, and goes to the buffer, or is
\* given up when the buffer cannot be written.
LEMMA PublishFailsInv == ASSUME IInv, PublishFails PROVE PipeInv'
<1>0. /\ TapTypeOK /\ PipeTypeOK /\ FlushedOK /\ OnePlace /\ DeliveriesOK /\ NothingVanishes
  BY DEF IInv, TapInv, PipeInv
<1>1. /\ sending # None /\ NotPublished(sending) /\ sending' = None
      /\ Enqueue(sending) \/ (outbox' = outbox /\ excused' = excused \cup {sending})
      /\ UNCHANGED <<tapVars, channel, batch, flushed, stored, prepares>>
  BY DEF PublishFails, Others
<1>2. UNCHANGED events /\ Ids' = Ids
  BY <1>1 DEF tapVars, Ids
<1>3. sending \in Ids /\ sending \notin ToSet(outbox)
  BY <1>0, <1>1 DEF PipeTypeOK, OnePlace
<1>a. /\ wire' \in Seq(Ids) /\ ToSet(wire) \subseteq ToSet(wire')
      /\ ambiguous' \in 0..MaxAmbiguous
  BY <1>0, <1>1, <1>3, NotPublishedFacts
<1>b. PICK x \in {0, 1} :
        /\ ambiguous' = ambiguous + x
        /\ \A d \in Ids : Wired(d)' = Wired(d) + (IF d = sending THEN x ELSE 0)
  BY <1>0, <1>1, <1>3, NotPublishedFacts
<1>c. /\ outbox' \in Seq(Ids) /\ Len(outbox') <= MaxRows /\ IsInjective(outbox')
      /\ ToSet(outbox') \subseteq ToSet(outbox) \cup {sending}
      /\ ToSet(outbox) \cup {sending} \subseteq ToSet(outbox') \cup excused'
      /\ excused \subseteq excused' /\ excused' \subseteq Ids
  <2>1. CASE Enqueue(sending)
    BY <2>1, <1>0, <1>3, EnqueueFacts
  <2>2. CASE outbox' = outbox /\ excused' = excused \cup {sending}
    BY <2>2, <1>0, <1>3 DEF PipeTypeOK
  <2> QED BY <2>1, <2>2, <1>1
<1>4. PipeTypeOK'
  BY <1>0, <1>1, <1>2, <1>a, <1>c DEF PipeTypeOK
<1>5. FlushedOK'
  BY <1>0, <1>1, <1>a, <1>c DEF FlushedOK
<1>6. OnePlace'
  BY <1>0, <1>1, <1>c, PipeTypes DEF OnePlace
<1>7. DeliveriesOK'
  <2>1. \A e \in Ids : Owed(e)' => Owed(e)
    BY <1>0, <1>1, <1>c, PipeTypes DEF Owed
  <2>2. ASSUME NEW e \in Ids PROVE Wired(e)' + Due(e)' + ambiguous <= Wired(e) + Due(e) + ambiguous'
    <3>1. Wired(e) \in Nat /\ ambiguous \in Nat
      BY <1>0, PipeTypes
    <3>2. Due(e)' \in {0, 1} /\ Due(e) \in {0, 1} /\ Due(e)' <= Due(e)
      BY <2>1 DEF Due
    <3> QED BY <3>1, <3>2, <1>b
  <2> QED BY <2>2, <1>0, <1>1, <1>4, DeliveriesStep
<1>8. NothingVanishes'
  BY <1>0, <1>1, <1>2, <1>a, <1>c, PipeTypes DEF NothingVanishes
<1> QED BY <1>4, <1>5, <1>6, <1>7, <1>8 DEF PipeInv

\* The flush task drains a batch, which stays in the table.
LEMMA DrainInv == ASSUME IInv, Drain PROVE PipeInv'
<1>0. /\ TapTypeOK /\ PipeTypeOK /\ FlushedOK /\ OnePlace /\ DeliveriesOK /\ NothingVanishes
  BY DEF IInv, TapInv, PipeInv
<1> DEFINE k == IF Len(outbox) < Batch THEN Len(outbox) ELSE Batch
<1>1. /\ batch = << >> /\ outbox # << >> /\ batch' = SubSeq(outbox, 1, k)
      /\ UNCHANGED <<tapVars, channel, sending, outbox, flushed, wire, excused, ambiguous, stored, prepares>>
  BY DEF Drain, Others
<1>2. UNCHANGED events /\ Ids' = Ids
  BY <1>1 DEF tapVars, Ids
<1>3. /\ batch' \in Seq(Ids) /\ Len(batch') <= Batch /\ IsInjective(batch')
      /\ ToSet(batch') \subseteq ToSet(outbox)
  <2>1. /\ outbox \in Seq(Ids) /\ IsInjective(outbox)
        /\ Len(outbox) \in Nat /\ DOMAIN outbox = 1..Len(outbox)
    BY <1>0, LenProperties DEF PipeTypeOK
  <2>2. 1 \in Nat \ {0} /\ k \in Nat /\ k <= Len(outbox) /\ k <= Batch
    BY <2>1
  <2> HIDE DEF k
  <2>3. /\ batch' \in Seq(Ids) /\ Len(batch') = IF 1 <= k THEN k - 1 + 1 ELSE 0
        /\ ToSet(batch') = {outbox[i] : i \in 1..k} /\ IsInjective(batch')
    BY <2>1, <2>2, <1>1, SubSeqFacts
  <2>4. {outbox[i] : i \in 1..k} \subseteq ToSet(outbox)
    BY <2>1, <2>2 DEF ToSet
  <2> QED BY <2>2, <2>3, <2>4
<1>a. ~flushed /\ ~flushed' /\ ToSet(batch) = {}
  BY <1>0, <1>1, PipeTypes DEF PipeTypeOK
<1> HIDE DEF k
<1>4. PipeTypeOK'
  BY <1>0, <1>1, <1>2, <1>3, <1>a DEF PipeTypeOK
<1>5. FlushedOK'
  BY <1>a DEF FlushedOK
<1>6. OnePlace'
  BY <1>0, <1>1, <1>3 DEF OnePlace
<1>7. DeliveriesOK'
  <2>1. \A e \in Ids : Owed(e)' => Owed(e)
    BY <1>1, <1>3, <1>a DEF Owed
  <2>2. ASSUME NEW e \in Ids PROVE Wired(e)' + Due(e)' + ambiguous <= Wired(e) + Due(e) + ambiguous'
    <3>1. Wired(e)' = Wired(e) /\ ambiguous' = ambiguous /\ Wired(e) \in Nat /\ ambiguous \in Nat
      BY <1>0, <1>1, PipeTypes DEF Wired
    <3>2. Due(e)' \in {0, 1} /\ Due(e) \in {0, 1} /\ Due(e)' <= Due(e)
      BY <2>1 DEF Due
    <3> QED BY <3>1, <3>2
  <2> QED BY <2>2, <1>0, <1>1, <1>4, DeliveriesStep
<1>8. NothingVanishes'
  BY <1>0, <1>1, <1>2 DEF NothingVanishes
<1> QED BY <1>4, <1>5, <1>6, <1>7, <1>8 DEF PipeInv

\* The head of the batch is published; its row is still there.
LEMMA FlushOkInv == ASSUME IInv, FlushOk PROVE PipeInv'
<1>0. /\ TapTypeOK /\ PipeTypeOK /\ FlushedOK /\ OnePlace /\ DeliveriesOK /\ NothingVanishes
  BY DEF IInv, TapInv, PipeInv
<1> DEFINE h == Head(batch)
<1>1. /\ batch # << >> /\ flushed = FALSE /\ Published(h) /\ flushed' = TRUE
      /\ UNCHANGED <<tapVars, channel, sending, outbox, batch, excused, stored, prepares>>
  BY <1>0 DEF FlushOk, Others, PipeTypeOK
<1>2. UNCHANGED events /\ Ids' = Ids
  BY <1>1 DEF tapVars, Ids
<1>3. h \in Ids /\ h \in ToSet(batch)
  <2>1. batch \in Seq(Ids)
    BY <1>0 DEF PipeTypeOK
  <2> QED BY <2>1, <1>1, TailFacts
<1>a. /\ wire' \in Seq(Ids) /\ ToSet(wire') = ToSet(wire) \cup {h}
      /\ ambiguous' \in 0..MaxAmbiguous
  BY <1>0, <1>1, <1>3, PublishedFacts
<1>b. PICK x \in {0, 1} :
        /\ ambiguous' = ambiguous + x
        /\ \A d \in Ids : Wired(d)' = Wired(d) + (IF d = h THEN 1 + x ELSE 0)
  BY <1>0, <1>1, <1>3, PublishedFacts
<1>c. Head(batch') = h
  BY <1>1
<1> HIDE DEF h
<1>4. PipeTypeOK'
  BY <1>0, <1>1, <1>2, <1>a DEF PipeTypeOK
<1>5. FlushedOK'
  BY <1>a, <1>c DEF FlushedOK
<1>6. OnePlace'
  BY <1>0, <1>1 DEF OnePlace
<1>7. DeliveriesOK'
  <2>1. \A e \in Ids : Owed(e)' => Owed(e) /\ e # h
    BY <1>0, <1>1, <1>3, <1>c DEF Owed, OnePlace
  <2>2. ASSUME NEW e \in Ids PROVE Wired(e)' + Due(e)' + ambiguous <= Wired(e) + Due(e) + ambiguous'
    <3>1. Wired(e) \in Nat /\ ambiguous \in Nat
      BY <1>0, PipeTypes
    <3>2. Due(e)' \in {0, 1} /\ Due(e) \in {0, 1} /\ Due(e)' <= Due(e)
      BY <2>1 DEF Due
    <3>3. e = h => Due(e)' = 0 /\ Due(e) = 1
      BY <2>1, <1>1, <1>3 DEF Due, Owed
    <3> QED BY <3>1, <3>2, <3>3, <1>b
  <2> QED BY <2>2, <1>0, <1>1, <1>4, DeliveriesStep
<1>8. NothingVanishes'
  BY <1>0, <1>1, <1>2, <1>a DEF NothingVanishes
<1> QED BY <1>4, <1>5, <1>6, <1>7, <1>8 DEF PipeInv

\* The head of the batch is not published: the batch is dropped, the rows stay.
LEMMA FlushFailsInv == ASSUME IInv, FlushFails PROVE PipeInv'
<1>0. /\ TapTypeOK /\ PipeTypeOK /\ FlushedOK /\ OnePlace /\ DeliveriesOK /\ NothingVanishes
  BY DEF IInv, TapInv, PipeInv
<1> DEFINE h == Head(batch)
<1>1. /\ batch # << >> /\ flushed = FALSE /\ NotPublished(h) /\ batch' = << >>
      /\ UNCHANGED <<tapVars, channel, sending, outbox, flushed, excused, stored, prepares>>
  BY <1>0 DEF FlushFails, Others, PipeTypeOK
<1>2. UNCHANGED events /\ Ids' = Ids
  BY <1>1 DEF tapVars, Ids
<1>3. h \in Ids /\ h \in ToSet(batch)
  <2>1. batch \in Seq(Ids)
    BY <1>0 DEF PipeTypeOK
  <2> QED BY <2>1, <1>1, TailFacts
<1>a. /\ wire' \in Seq(Ids) /\ ToSet(wire) \subseteq ToSet(wire')
      /\ ambiguous' \in 0..MaxAmbiguous
  BY <1>0, <1>1, <1>3, NotPublishedFacts
<1>b. PICK x \in {0, 1} :
        /\ ambiguous' = ambiguous + x
        /\ \A d \in Ids : Wired(d)' = Wired(d) + (IF d = h THEN x ELSE 0)
  BY <1>0, <1>1, <1>3, NotPublishedFacts
<1>c. batch' \in Seq(Ids) /\ Len(batch') <= Batch /\ ToSet(batch') = {} /\ IsInjective(batch')
  BY <1>1, EmptySeq DEF ToSet, IsInjective
<1> HIDE DEF h
<1>4. PipeTypeOK'
  BY <1>0, <1>1, <1>2, <1>a, <1>c DEF PipeTypeOK
<1>5. FlushedOK'
  BY <1>1 DEF FlushedOK
<1>6. OnePlace'
  BY <1>0, <1>1, <1>c DEF OnePlace
<1>7. DeliveriesOK'
  <2>1. \A e \in Ids : Owed(e)' => Owed(e)
    BY <1>1, <1>c DEF Owed
  <2>2. ASSUME NEW e \in Ids PROVE Wired(e)' + Due(e)' + ambiguous <= Wired(e) + Due(e) + ambiguous'
    <3>1. Wired(e) \in Nat /\ ambiguous \in Nat
      BY <1>0, PipeTypes
    <3>2. Due(e)' \in {0, 1} /\ Due(e) \in {0, 1} /\ Due(e)' <= Due(e)
      BY <2>1 DEF Due
    <3> QED BY <3>1, <3>2, <1>b
  <2> QED BY <2>2, <1>0, <1>1, <1>4, DeliveriesStep
<1>8. NothingVanishes'
  BY <1>0, <1>1, <1>2, <1>a DEF NothingVanishes
<1> QED BY <1>4, <1>5, <1>6, <1>7, <1>8 DEF PipeInv

\* The published row is deleted, or outlives its publication.
LEMMA FlushDeleteInv == ASSUME IInv, FlushDelete PROVE PipeInv'
<1>0. /\ TapTypeOK /\ PipeTypeOK /\ FlushedOK /\ OnePlace /\ DeliveriesOK /\ NothingVanishes
  BY DEF IInv, TapInv, PipeInv
<1> DEFINE h == Head(batch)
<1>1. /\ flushed = TRUE /\ batch' = Tail(batch) /\ flushed' = FALSE
      /\ \/ outbox' = DeleteRow(h) /\ ambiguous' = ambiguous
         \/ ambiguous < MaxAmbiguous /\ outbox' = outbox /\ ambiguous' = ambiguous + 1
      /\ UNCHANGED <<tapVars, channel, sending, wire, excused, stored, prepares>>
  BY <1>0 DEF FlushDelete, Others, PipeTypeOK
<1>2. UNCHANGED events /\ Ids' = Ids
  BY <1>1 DEF tapVars, Ids
<1>3. /\ h \in Ids /\ batch' \in Seq(Ids) /\ Len(batch') <= Batch /\ IsInjective(batch')
      /\ ToSet(batch) = {h} \cup ToSet(batch') /\ h \notin ToSet(batch')
  <2>1. batch \in Seq(Ids) /\ batch # << >> /\ Len(batch) <= Batch /\ IsInjective(batch)
    BY <1>0, <1>1 DEF PipeTypeOK, OnePlace
  <2> QED BY <2>1, <1>1, TailFacts
<1>a. /\ outbox' \in Seq(Ids) /\ Len(outbox') <= MaxRows /\ IsInjective(outbox')
      /\ ToSet(outbox') \subseteq ToSet(outbox) /\ ToSet(outbox) \subseteq ToSet(outbox') \cup {h}
      /\ ambiguous' \in 0..MaxAmbiguous /\ ambiguous' \in {ambiguous, ambiguous + 1}
      /\ ambiguous' = ambiguous => h \notin ToSet(outbox')
  <2>1. /\ outbox \in Seq(Ids) /\ Len(outbox) \in Nat /\ Len(outbox) <= MaxRows
        /\ IsInjective(outbox) /\ ambiguous \in 0..MaxAmbiguous
    BY <1>0, LenProperties DEF PipeTypeOK
  <2>2. CASE outbox' = DeleteRow(h) /\ ambiguous' = ambiguous
    <3>1. /\ outbox' \in Seq(Ids) /\ Len(outbox') <= Len(outbox) /\ IsInjective(outbox')
          /\ ToSet(outbox') = ToSet(outbox) \ {h}
      BY <2>2, <1>0, DeleteRowFacts
    <3>2. Len(outbox') \in Nat
      BY <3>1, LenProperties
    <3> QED BY <2>1, <2>2, <3>1, <3>2
  <2>3. CASE ambiguous < MaxAmbiguous /\ outbox' = outbox /\ ambiguous' = ambiguous + 1
    BY <2>1, <2>3
  <2> QED BY <2>2, <2>3, <1>1
<1>b. h \in stored \cup excused \cup ToSet(wire)
  BY <1>0, <1>1 DEF FlushedOK
<1> HIDE DEF h
<1>4. PipeTypeOK'
  BY <1>0, <1>1, <1>2, <1>3, <1>a DEF PipeTypeOK
<1>5. FlushedOK'
  BY <1>1 DEF FlushedOK
<1>6. OnePlace'
  BY <1>0, <1>1, <1>3, <1>a DEF OnePlace
<1>7. DeliveriesOK'
  <2>1. \A e \in Ids : Owed(e)' => Owed(e) \/ (e = h /\ h \in ToSet(outbox'))
    <3>1. flushed /\ Head(batch) = h
      BY <1>1 DEF h
    <3> QED BY <1>0, <1>1, <1>3, <1>a, <3>1 DEF Owed
  <2>2. ASSUME NEW e \in Ids PROVE Wired(e)' + Due(e)' + ambiguous <= Wired(e) + Due(e) + ambiguous'
    <3>1. Wired(e)' = Wired(e) /\ Wired(e) \in Nat /\ ambiguous \in Nat
      BY <1>0, <1>1, PipeTypes DEF Wired
    <3>2. Due(e)' \in {0, 1} /\ Due(e) \in {0, 1}
      BY DEF Due
    <3>3. ambiguous' = ambiguous => Due(e)' <= Due(e)
      BY <2>1, <1>a DEF Due
    <3> QED BY <3>1, <3>2, <3>3, <1>a
  <2> QED BY <2>2, <1>0, <1>1, <1>4, DeliveriesStep
<1>8. NothingVanishes'
  BY <1>0, <1>1, <1>2, <1>a, <1>b DEF NothingVanishes
<1> QED BY <1>4, <1>5, <1>6, <1>7, <1>8 DEF PipeInv

\* The agent starts again: what was in memory is given up, a published row not yet
\* deleted is published once more.
LEMMA AgentRestartInv == ASSUME IInv, AgentRestart PROVE PipeInv'
<1>0. /\ TapTypeOK /\ PipeTypeOK /\ FlushedOK /\ OnePlace /\ DeliveriesOK /\ NothingVanishes
  BY DEF IInv, TapInv, PipeInv
<1>1. /\ flushed => ambiguous < MaxAmbiguous
      /\ excused' = excused \cup ToSet(channel) \cup ({sending} \ {None})
      /\ channel' = << >> /\ sending' = None /\ batch' = << >> /\ flushed' = FALSE
      /\ ambiguous' = IF flushed THEN ambiguous + 1 ELSE ambiguous
      /\ UNCHANGED <<events, outbox, wire, stored, prepares>>
  BY DEF AgentRestart, TapRestart
<1>2. UNCHANGED events /\ Ids' = Ids
  BY <1>1 DEF Ids
<1>3. << >> \in Seq(Ids) /\ Len(<< >>) = 0 /\ ToSet(<< >>) = {} /\ IsInjective(<< >>)
  BY EmptySeq DEF ToSet, IsInjective
<1>a. /\ channel' \in Seq(Ids) /\ Len(channel') <= ChanCap /\ ToSet(channel') = {} /\ IsInjective(channel')
      /\ batch' \in Seq(Ids) /\ Len(batch') <= Batch /\ ToSet(batch') = {} /\ IsInjective(batch')
  BY <1>1, <1>3
<1>b. excused' \subseteq Ids /\ ambiguous' \in 0..MaxAmbiguous
  BY <1>0, <1>1, PipeTypes DEF PipeTypeOK
<1>4. PipeTypeOK'
  BY <1>0, <1>1, <1>2, <1>a, <1>b DEF PipeTypeOK
<1>5. FlushedOK'
  BY <1>1 DEF FlushedOK
<1>6. OnePlace'
  BY <1>0, <1>1, <1>a, PipeTypes DEF OnePlace
<1>7. DeliveriesOK'
  <2> SUFFICES ASSUME NEW e \in Ids PROVE prepares[e] + Wired(e)' + Due(e)' <= 1 + ambiguous'
    BY <1>1, <1>2 DEF DeliveriesOK
  <2>1. prepares[e] + Wired(e) + Due(e) <= 1 + ambiguous
    BY <1>0 DEF DeliveriesOK
  <2>2. /\ prepares[e] \in Nat /\ Wired(e)' = Wired(e) /\ Wired(e) \in Nat /\ ambiguous \in Nat
    BY <1>0, <1>1, PipeTypes DEF Wired
  <2>3. Due(e)' \in {0, 1} /\ Due(e) \in {0, 1}
    BY DEF Due
  <2>4. ~flushed => Due(e)' <= Due(e)
    <3>1. ~flushed /\ Owed(e)' => Owed(e)
      BY <1>0, <1>1, <1>a, PipeTypes DEF Owed
    <3> QED BY <3>1 DEF Due
  <2>5. CASE flushed
    BY <2>1, <2>2, <2>3, <2>5, <1>1
  <2>6. CASE ~flushed
    BY <2>1, <2>2, <2>3, <2>4, <2>6, <1>1
  <2> QED BY <2>5, <2>6
<1>8. NothingVanishes'
  BY <1>0, <1>1, <1>2, PipeTypes DEF NothingVanishes
<1> QED BY <1>4, <1>5, <1>6, <1>7, <1>8 DEF PipeInv

\* A message taken from the wire.
LEMMA WireTail ==
  ASSUME PipeTypeOK, wire # << >>, wire' = Tail(wire)
  PROVE  /\ Head(wire) \in Ids /\ wire' \in Seq(Ids)
         /\ ToSet(wire) = {Head(wire)} \cup ToSet(wire')
         /\ \A e \in Ids : Wired(e) = Wired(e)' + (IF Head(wire) = e THEN 1 ELSE 0) /\ Wired(e)' \in Nat
<1>1. wire \in Seq(Ids)
  BY DEF PipeTypeOK
<1>2. Head(wire) \in Ids /\ wire' \in Seq(Ids) /\ ToSet(wire) = {Head(wire)} \cup ToSet(wire')
  BY <1>1, TailFacts
<1>3. \A e \in Ids : Wired(e) = Wired(e)' + (IF Head(wire) = e THEN 1 ELSE 0)
  BY <1>1, PlacesTail DEF Wired
<1>4. \A e \in Ids : Wired(e)' \in Nat
  BY <1>2, PlacesFacts DEF Wired
<1> QED BY <1>2, <1>3, <1>4

\* A message is ingested: stored, and handed to prepare once.
LEMMA IngestInv == ASSUME IInv, Ingest PROVE PipeInv'
<1>0. /\ TapTypeOK /\ PipeTypeOK /\ FlushedOK /\ OnePlace /\ DeliveriesOK /\ NothingVanishes
  BY DEF IInv, TapInv, PipeInv
<1> DEFINE h == Head(wire)
<1>1. /\ wire # << >> /\ stored' = stored \cup {h} /\ wire' = Tail(wire)
      /\ prepares' = [prepares EXCEPT ![h] = @ + 1]
      /\ UNCHANGED <<tapVars, channel, sending, outbox, batch, flushed, excused, ambiguous>>
  BY DEF Ingest, InsertMessage
<1>2. UNCHANGED events /\ Ids' = Ids
  BY <1>1 DEF tapVars, Ids
<1>3. /\ h \in Ids /\ wire' \in Seq(Ids) /\ ToSet(wire) = {h} \cup ToSet(wire')
      /\ \A e \in Ids : Wired(e) = Wired(e)' + (IF h = e THEN 1 ELSE 0) /\ Wired(e)' \in Nat
  BY <1>0, <1>1, WireTail
<1> HIDE DEF h
<1>a. /\ prepares' \in Seq(Nat) /\ Len(prepares') = Len(prepares)
      /\ \A e \in Ids : prepares'[e] = prepares[e] + (IF h = e THEN 1 ELSE 0)
  <2>1. /\ prepares \in Seq(Nat) /\ Ids = 1..Len(prepares) /\ Len(prepares) \in Nat
        /\ \A e \in Ids : prepares[e] \in Nat
    BY <1>0, PipeTypes DEF PipeTypeOK
  <2>2. prepares[h] + 1 \in Nat /\ h \in 1..Len(prepares)
    BY <2>1, <1>3
  <2>3. prepares' = [prepares EXCEPT ![h] = prepares[h] + 1]
    BY <1>1
  <2>4. /\ prepares' \in Seq(Nat) /\ Len(prepares') = Len(prepares)
        /\ \A j \in 1..Len(prepares) : prepares'[j] = IF j = h THEN prepares[h] + 1 ELSE prepares[j]
    BY <2>1, <2>2, <2>3, ExceptSeq
  <2> QED BY <2>1, <2>4
<1>4. PipeTypeOK'
  BY <1>0, <1>1, <1>2, <1>3, <1>a DEF PipeTypeOK
<1>5. FlushedOK'
  BY <1>0, <1>1, <1>3 DEF FlushedOK
<1>6. OnePlace'
  BY <1>0, <1>1 DEF OnePlace
<1>7. DeliveriesOK'
  <2> SUFFICES ASSUME NEW e \in Ids PROVE prepares'[e] + Wired(e)' + Due(e)' <= 1 + ambiguous'
    BY <1>1, <1>2 DEF DeliveriesOK
  <2>1. prepares[e] + Wired(e) + Due(e) <= 1 + ambiguous
    BY <1>0 DEF DeliveriesOK
  <2>2. prepares[e] \in Nat /\ Due(e) \in {0, 1} /\ ambiguous \in Nat /\ ambiguous' = ambiguous
    BY <1>0, <1>1, PipeTypes
  <2>3. Due(e)' = Due(e)
    BY <1>1 DEF Due, Owed
  <2> QED BY <2>1, <2>2, <2>3, <1>3, <1>a
<1>8. NothingVanishes'
  BY <1>0, <1>1, <1>2, <1>3 DEF NothingVanishes
<1> QED BY <1>4, <1>5, <1>6, <1>7, <1>8 DEF PipeInv

\* A message is lost behind the broker, or its INSERT fails.
LEMMA IngestFailsInv == ASSUME IInv, IngestFails PROVE PipeInv'
<1>0. /\ TapTypeOK /\ PipeTypeOK /\ FlushedOK /\ OnePlace /\ DeliveriesOK /\ NothingVanishes
  BY DEF IInv, TapInv, PipeInv
<1> DEFINE h == Head(wire)
<1>1. /\ wire # << >> /\ excused' = excused \cup {h} /\ wire' = Tail(wire)
      /\ UNCHANGED <<tapVars, channel, sending, outbox, batch, flushed, stored, prepares, ambiguous>>
  BY DEF IngestFails
<1>2. UNCHANGED events /\ Ids' = Ids
  BY <1>1 DEF tapVars, Ids
<1>3. /\ h \in Ids /\ wire' \in Seq(Ids) /\ ToSet(wire) = {h} \cup ToSet(wire')
      /\ \A e \in Ids : Wired(e) = Wired(e)' + (IF h = e THEN 1 ELSE 0) /\ Wired(e)' \in Nat
  BY <1>0, <1>1, WireTail
<1> HIDE DEF h
<1>4. PipeTypeOK'
  BY <1>0, <1>1, <1>2, <1>3 DEF PipeTypeOK
<1>5. FlushedOK'
  BY <1>0, <1>1, <1>3 DEF FlushedOK
<1>6. OnePlace'
  BY <1>0, <1>1 DEF OnePlace
<1>7. DeliveriesOK'
  <2>1. ASSUME NEW e \in Ids PROVE Wired(e)' + Due(e)' + ambiguous <= Wired(e) + Due(e) + ambiguous'
    <3>1. Due(e)' = Due(e) /\ Due(e) \in {0, 1}
      BY <1>1 DEF Due, Owed
    <3>2. ambiguous \in Nat /\ ambiguous' = ambiguous
      BY <1>0, <1>1, PipeTypes
    <3> QED BY <3>1, <3>2, <1>3
  <2> QED BY <2>1, <1>0, <1>1, <1>4, DeliveriesStep
<1>8. NothingVanishes'
  BY <1>0, <1>1, <1>2, <1>3 DEF NothingVanishes
<1> QED BY <1>4, <1>5, <1>6, <1>7, <1>8 DEF PipeInv

\* The tap sends an event, which is nowhere else yet.
LEMMA TapSendInv == ASSUME IInv, TapSend PROVE PipeInv'
<1>0. /\ TapTypeOK /\ PipeTypeOK /\ FlushedOK /\ OnePlace /\ DeliveriesOK /\ NothingVanishes
  BY DEF IInv, TapInv, PipeInv
<1> DEFINE n == Len(events) + 1
<1>1. PICK s \in toEmit :
        /\ Len(channel) < ChanCap
        /\ events' = Append(events, [unit |-> s.unit, episode |-> s.episode, boot |-> boot])
        /\ channel' = Append(channel, Len(events')) /\ prepares' = Append(prepares, 0)
        /\ UNCHANGED <<sending, outbox, batch, flushed, wire, stored, excused, ambiguous>>
  BY DEF TapSend, Send
<1>2. Len(events) \in Nat /\ Len(events') = n /\ Ids = 1..Len(events) /\ Ids' = 1..n
  <2>1. events \in Seq(Event) /\ [unit |-> s.unit, episode |-> s.episode, boot |-> boot] \in Event
    BY <1>0, <1>1 DEF TapTypeOK, Event, Sighting
  <2> QED BY <2>1, <1>1, AppendProperties, LenProperties DEF Ids
<1> HIDE DEF n
<1>3. Ids' = Ids \cup {n} /\ n \notin Ids /\ n \in Ids' /\ n \in Nat
  BY <1>2 DEF n
<1>a. /\ outbox \in Seq(Ids') /\ batch \in Seq(Ids') /\ wire \in Seq(Ids') /\ channel \in Seq(Ids')
      /\ stored \subseteq Ids' /\ excused \subseteq Ids' /\ sending \in Ids' \cup {None}
  <2>1. \A q \in Seq(Ids) : q \in Seq(Ids')
    BY <1>3, SeqMonotonic
  <2> QED BY <2>1, <1>0, <1>3 DEF PipeTypeOK
<1>b. /\ channel' = Append(channel, n) /\ channel' \in Seq(Ids') /\ Len(channel') <= ChanCap
      /\ ToSet(channel') = ToSet(channel) \cup {n} /\ IsInjective(channel')
  <2>1. IsInjective(channel) /\ n \notin ToSet(channel)
    BY <1>0, <1>3, PipeTypes DEF OnePlace
  <2>2. channel' = Append(channel, n)
    BY <1>1, <1>2
  <2>3. /\ Append(channel, n) \in Seq(Ids') /\ Len(Append(channel, n)) = Len(channel) + 1
        /\ Len(channel) \in Nat
        /\ ToSet(Append(channel, n)) = ToSet(channel) \cup {n} /\ IsInjective(Append(channel, n))
    BY <2>1, <1>3, <1>a, AppendFacts
  <2> QED BY <2>2, <2>3, <1>1
<1>c. /\ prepares' \in Seq(Nat) /\ Len(prepares') = n
      /\ prepares'[n] = 0 /\ \A e \in Ids : prepares'[e] = prepares[e]
  <2>1. prepares \in Seq(Nat) /\ Len(prepares) = Len(events)
    BY <1>0 DEF PipeTypeOK
  <2> QED BY <2>1, <1>1, <1>2, AppendProperties DEF n
<1>4. PipeTypeOK'
  BY <1>0, <1>1, <1>2, <1>a, <1>b, <1>c DEF PipeTypeOK
<1>5. FlushedOK'
  BY <1>0, <1>1 DEF FlushedOK
<1>6. OnePlace'
  <2>1. n \notin ToSet(outbox) \cup ToSet(batch) \cup {sending}
    BY <1>0, <1>3, PipeTypes DEF PipeTypeOK
  <2> QED BY <2>1, <1>0, <1>1, <1>b DEF OnePlace
<1>7. DeliveriesOK'
  <2> SUFFICES ASSUME NEW e \in Ids' PROVE prepares'[e] + Wired(e)' + Due(e)' <= 1 + ambiguous'
    BY DEF DeliveriesOK
  <2>1. CASE e \in Ids
    <3>1. prepares[e] + Wired(e) + Due(e) <= 1 + ambiguous
      BY <2>1, <1>0 DEF DeliveriesOK
    <3>2. Wired(e)' = Wired(e)
      BY <1>1 DEF Wired
    <3>3. Due(e)' = Due(e)
      BY <2>1, <1>1, <1>3, <1>b DEF Due, Owed
    <3> QED BY <2>1, <3>1, <3>2, <3>3, <1>1, <1>c
  <2>2. CASE e = n
    <3>1. Wired(e)' = 0
      BY <2>2, <1>0, <1>1, <1>3, PipeTypes, PlacesFacts DEF Wired, PipeTypeOK
    <3>2. Due(e)' \in {0, 1}
      BY DEF Due
    <3>3. ambiguous' \in Nat
      BY <1>0, <1>1, PipeTypes
    <3> QED BY <2>2, <3>1, <3>2, <3>3, <1>c
  <2> QED BY <2>1, <2>2, <1>3
<1>8. NothingVanishes'
  BY <1>0, <1>1, <1>3, <1>b DEF NothingVanishes
<1> QED BY <1>4, <1>5, <1>6, <1>7, <1>8 DEF PipeInv

-----------------------------------------------------------------------------
(* The theorems *)

\* Every step keeps both invariants.
LEMMA StepInv == IInv /\ [Next]_vars => IInv'
<1> SUFFICES ASSUME IInv, [Next]_vars PROVE IInv'
  OBVIOUS
<1>0. TapInv /\ PipeInv
  BY DEF IInv
<1>1. CASE World
  <2>1. UNCHANGED <<pipeVars, events>>
    BY <1>1 DEF World, UnitFails, UnitRecovers, Tick, Observe
  <2>2. TapInv'
    BY <1>0, <1>1, UnitFailsInv, UnitRecoversInv, TickInv, ObserveInv DEF World
  <2> QED BY <1>0, <2>1, <2>2, PipeStutter DEF IInv
<1>2. CASE TapSend
  <2>1. TapInv'
    BY <1>0, <1>2, SendInv DEF TapSend
  <2> QED BY <1>2, <2>1, TapSendInv DEF IInv
<1>3. CASE AgentRestart
  <2>1. TapInv'
    BY <1>0, <1>3, TapRestartInv DEF AgentRestart
  <2> QED BY <1>3, <2>1, AgentRestartInv DEF IInv
<1>4. CASE Receive \/ PublishOk \/ PublishFails
  <2>1. UNCHANGED tapVars
    BY <1>4 DEF Receive, PublishOk, PublishFails, Others
  <2>2. PipeInv'
    BY <1>4, ReceiveInv, PublishOkInv, PublishFailsInv
  <2> QED BY <1>0, <2>1, <2>2, TapStutter DEF IInv
<1>5. CASE FlushStep
  <2>1. UNCHANGED tapVars
    BY <1>5 DEF FlushStep, Drain, FlushOk, FlushFails, FlushDelete, Others
  <2>2. PipeInv'
    BY <1>5, DrainInv, FlushOkInv, FlushFailsInv, FlushDeleteInv DEF FlushStep
  <2> QED BY <1>0, <2>1, <2>2, TapStutter DEF IInv
<1>6. CASE Ingest \/ IngestFails
  <2>1. UNCHANGED tapVars
    BY <1>6 DEF Ingest, IngestFails
  <2>2. PipeInv'
    BY <1>6, IngestInv, IngestFailsInv
  <2> QED BY <1>0, <2>1, <2>2, TapStutter DEF IInv
<1>7. CASE UNCHANGED vars
  <2>1. UNCHANGED tapVars /\ UNCHANGED <<pipeVars, events>>
    BY <1>7 DEF vars, tapVars
  <2> QED BY <1>0, <2>1, TapStutter, PipeStutter DEF IInv
<1> QED BY <1>1, <1>2, <1>3, <1>4, <1>5, <1>6, <1>7 DEF Next, AgentStep

\* Every behaviour of the pipeline keeps both invariants.
LEMMA AlwaysInv == Spec => []IInv
<1>1. Init => IInv
  BY TapInitInv, PipeInitInv DEF Init, IInv
<1> QED BY <1>1, StepInv, PTL DEF Spec

\* The variables of the tap and of the pipeline have their types, and channel, outbox
\* and batch keep their bounds.
THEOREM PipelineTypeCorrect == Spec => []TypeOK
<1>1. IInv => TypeOK
  <2> SUFFICES ASSUME IInv PROVE TypeOK
    OBVIOUS
  <2>1. TapTypeOK /\ PipeTypeOK
    BY DEF IInv, TapInv, PipeInv
  <2>2. prepares \in [Ids -> Nat]
    BY <2>1, LenProperties DEF PipeTypeOK, Ids
  <2> QED BY <2>1, <2>2 DEF TypeOK, PipeTypeOK
<1> QED BY <1>1, AlwaysInv, PTL

\* No start of the agent reports one failure of a unit twice (GraceTracker::observe).
THEOREM ReportedOnce == Spec => []OncePerEpisode
<1>1. IInv => OncePerEpisode
  BY DEF IInv, TapInv
<1> QED BY <1>1, AlwaysInv, PTL

\* An event that was sent is on its way, stored, or given up for a reason the code
\* names (run_detection, spawn_flush, Buffer::enqueue, persist_message).
THEOREM NoEventVanishes == Spec => []NothingVanishes
<1>1. IInv => NothingVanishes
  BY DEF IInv, PipeInv
<1> QED BY <1>1, AlwaysInv, PTL

\* An event is handed to prepare once, and once more for each accident at most
\* (spawn_flush deletes a row after its publish; persist_message prepares repeats).
THEOREM RepeatsAreExplained == Spec => []PreparesExplained
<1>1. IInv => PreparesExplained
  <2> SUFFICES ASSUME IInv, NEW e \in Ids PROVE prepares[e] <= 1 + ambiguous
    BY DEF PreparesExplained
  <2>1. TapTypeOK /\ PipeTypeOK /\ DeliveriesOK
    BY DEF IInv, TapInv, PipeInv
  <2>2. /\ prepares[e] \in Nat /\ Wired(e) \in Nat /\ Due(e) \in {0, 1} /\ ambiguous \in Nat
        /\ prepares[e] + Wired(e) + Due(e) <= 1 + ambiguous
    BY <2>1, PipeTypes DEF DeliveriesOK
  <2> QED BY <2>2
<1> QED BY <1>1, AlwaysInv, PTL

\* What a poll picks has been failed for the whole window, unless it failed again
\* unseen (GraceTracker::observe).
THEOREM NoEarlyReport == Spec => GraceIsHeld
<1>1. IInv /\ [Next]_vars =>
        [\A s \in toEmit' \ toEmit : s.unit \in blinked \/ steady[s.unit] >= Grace]_tapVars
  <2> SUFFICES ASSUME IInv, [Next]_vars, NEW s \in toEmit' \ toEmit
               PROVE  s.unit \in blinked \/ steady[s.unit] >= Grace
    OBVIOUS
  <2>1. CASE Observe
    <3>1. PICK u \in failed \ emitted : Age(u) >= Grace /\ s = [unit |-> u, episode |-> episode[u]]
      BY <2>1 DEF Observe
    <3>2. TapTypeOK /\ TimersOK /\ s.unit = u /\ u \in Units
      BY <3>1 DEF IInv, TapInv, TapTypeOK
    <3>3. steady[u] \in Nat /\ Age(u) \in Nat
      BY <3>2 DEF TapTypeOK, Age
    <3>4. CASE pending[u] = None
      BY <3>1, <3>2, <3>3, <3>4 DEF Age
    <3>5. CASE pending[u] # None
      BY <3>1, <3>2, <3>3, <3>5 DEF Age, TimersOK, TapTypeOK
    <3> QED BY <3>4, <3>5
  <2>2. CASE ~Observe
    <3>1. toEmit' \subseteq toEmit
      BY <2>2 DEF Next, World, UnitFails, UnitRecovers, Tick, AgentStep, TapSend, Send, FlushStep,
                  Receive, PublishOk, PublishFails, Drain, FlushOk, FlushFails, FlushDelete, Others,
                  Ingest, IngestFails, AgentRestart, TapRestart, NewTracker, vars, tapVars
    <3> QED BY <3>1
  <2> QED BY <2>1, <2>2
<1> QED BY <1>1, AlwaysInv, PTL DEF Spec, GraceIsHeld

\* A row leaves the outbox when it was published, or as the oldest of a full table
\* (Buffer::enqueue, Buffer::delete).
THEOREM OnlyOldestPruned == Spec => OldestPruned
<1>1. IInv /\ [Next]_vars =>
        [\A e \in ToSet(outbox) \ ToSet(outbox') :
           \/ flushed /\ e = Head(batch)
           \/ Len(outbox) = MaxRows /\ Len(outbox') = MaxRows /\ e = outbox[1]]_vars
  <2> SUFFICES ASSUME IInv, [Next]_vars, NEW e \in ToSet(outbox) \ ToSet(outbox')
               PROVE  \/ flushed /\ e = Head(batch)
                      \/ Len(outbox) = MaxRows /\ Len(outbox') = MaxRows /\ e = outbox[1]
    OBVIOUS
  <2>0. PipeTypeOK /\ OnePlace /\ outbox' # outbox
    BY DEF IInv, PipeInv
  <2>1. CASE PublishFails
    <3>1. sending \in Ids /\ sending \notin ToSet(outbox) /\ Enqueue(sending)
      BY <2>0, <2>1 DEF PublishFails, PipeTypeOK, OnePlace
    <3> QED BY <3>1, <2>0, EnqueueFacts
  <2>2. CASE FlushDelete
    <3>1. flushed /\ outbox' = DeleteRow(Head(batch))
      BY <2>0, <2>2 DEF FlushDelete
    <3>2. ToSet(outbox') = ToSet(outbox) \ {Head(batch)}
      BY <3>1, <2>0, DeleteRowFacts
    <3> QED BY <3>1, <3>2
  <2>3. PublishFails \/ FlushDelete
    BY <2>0 DEF Next, World, pipeVars, AgentStep, TapSend, FlushStep, Receive, PublishOk,
                Drain, FlushOk, FlushFails, Ingest, IngestFails, AgentRestart, vars
  <2> QED BY <2>1, <2>2, <2>3
<1> QED BY <1>1, AlwaysInv, PTL DEF Spec, OldestPruned
=============================================================================
