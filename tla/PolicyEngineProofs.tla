------------------------- MODULE PolicyEngineProofs -------------------------
(***************************************************************************)
(* Proofs about PolicyEngine: nothing runs unattended that the rules do    *)
(* not allow, the breaker trips for a reason, and the number of automatic  *)
(* executions in any window of the clock is bounded, for any number of     *)
(* concurrent evaluations, however long each of them takes.                *)
(***************************************************************************)
EXTENDS PolicyEngine, FiniteSetTheorems, WellFoundedInduction, TLAPS

-----------------------------------------------------------------------------
(* StampBags of timestamps *)

StampBags == [Times -> Nat]

\* What a stamp is: a time and a number up to how often the bag has it.
LEMMA StampsMember ==
  ASSUME NEW bag \in StampBags, NEW T \in SUBSET Times, NEW p
  PROVE  p \in Stamps(bag, T) <=> \E t \in T : \E i \in 1..bag[t] : p = <<t, i>>
  BY DEF Stamps

\* There are finitely many times.
LEMMA TimesFinite == IsFiniteSet(Times) /\ Times \subseteq Nat
  BY PolicyAssumption, FS_Interval DEF Times

\* There are finitely many stamps.
LEMMA StampsFinite ==
  ASSUME NEW bag \in StampBags, NEW T \in SUBSET Times
  PROVE  IsFiniteSet(Stamps(bag, T)) /\ Size(bag, T) \in Nat
  <1> DEFINE f == [t \in T |-> {t} \X (1..bag[t])]
             R == {{t} \X (1..bag[t]) : t \in T}
  <1>1. IsFiniteSet(T)
    BY TimesFinite, FS_Subset
  <1>2. f \in Surjection(T, R)
    BY DEF Surjection
  <1>3. \A X \in R : IsFiniteSet(X)
    <2> SUFFICES ASSUME NEW t \in T PROVE IsFiniteSet({t} \X (1..bag[t]))
      OBVIOUS
    <2>1. bag[t] \in Nat
      BY DEF StampBags
    <2>2. IsFiniteSet(1..bag[t])
      BY <2>1, FS_Interval
    <2>3. IsFiniteSet({t})
      BY FS_Singleton
    <2> QED BY <2>2, <2>3, FS_Product
  <1> HIDE DEF f, R
  <1>4. IsFiniteSet(R)
    BY <1>1, <1>2, FS_Surjection
  <1>5. IsFiniteSet(UNION R)
    BY <1>3, <1>4, FS_UNION
  <1>6. IsFiniteSet(Stamps(bag, T))
    BY <1>5 DEF Stamps, R
  <1> QED BY <1>6, FS_CardinalityType DEF Size

\* More stamps of more times: a larger size.
LEMMA SizeMonotone ==
  ASSUME NEW bag \in StampBags, NEW T \in SUBSET Times,
         NEW bag2 \in StampBags, NEW T2 \in SUBSET Times,
         \A t \in T : t \in T2 \/ bag[t] = 0,
         \A t \in T \cap T2 : bag[t] <= bag2[t]
  PROVE  Size(bag, T) <= Size(bag2, T2)
  <1>1. ASSUME NEW p \in Stamps(bag, T) PROVE p \in Stamps(bag2, T2)
    <2>1. PICK t \in T : \E i \in 1..bag[t] : p = <<t, i>>
      BY StampsMember
    <2>1a. PICK i \in 1..bag[t] : p = <<t, i>>
      BY <2>1
    <2>2. bag[t] \in Nat /\ bag2[t] \in Nat /\ i \in Nat
      BY DEF StampBags
    <2>3. t \in T2 /\ i \in 1..bag2[t]
      BY <2>2
    <2> QED BY <2>1a, <2>3, StampsMember
  <1>2. Stamps(bag, T) \in SUBSET Stamps(bag2, T2)
    BY <1>1
  <1> QED BY <1>2, StampsFinite, FS_Subset DEF Size

\* The same stamps: the same size.
LEMMA SizeSame ==
  ASSUME NEW bag \in StampBags, NEW bag2 \in StampBags, NEW T \in SUBSET Times,
         \A t \in T : bag[t] = bag2[t]
  PROVE  Size(bag, T) = Size(bag2, T)
  <1>1. Stamps(bag, T) = Stamps(bag2, T)
    BY DEF Stamps
  <1> QED BY <1>1 DEF Size

\* One more stamp counts once where its time counts.
LEMMA SizeAdd ==
  ASSUME NEW bag \in StampBags, NEW T \in SUBSET Times, NEW n \in Times
  PROVE  /\ [bag EXCEPT ![n] = @ + 1] \in StampBags
         /\ Size([bag EXCEPT ![n] = @ + 1], T) = Size(bag, T) + (IF n \in T THEN 1 ELSE 0)
  <1> DEFINE more == [bag EXCEPT ![n] = @ + 1]
             p == <<n, bag[n] + 1>>
  <1>1. more \in StampBags /\ more[n] = bag[n] + 1 /\ bag[n] \in Nat /\ \A t \in Times \ {n} : more[t] = bag[t]
    BY DEF StampBags
  <1> HIDE DEF more
  <1>2. CASE n \notin T
    <2>1. \A t \in T : more[t] = bag[t]
      BY <1>1, <1>2
    <2>2. Size(more, T) = Size(bag, T)
      BY <1>1, <2>1, SizeSame
    <2>3. Size(bag, T) \in Nat
      BY StampsFinite
    <2> QED BY <1>1, <1>2, <2>2, <2>3 DEF more
  <1>3. CASE n \in T
    <2>1. p \notin Stamps(bag, T)
      <3> SUFFICES ASSUME p \in Stamps(bag, T) PROVE FALSE
        OBVIOUS
      <3>1. PICK t \in T : \E i \in 1..bag[t] : p = <<t, i>>
        BY StampsMember
      <3>1a. PICK i \in 1..bag[t] : p = <<t, i>>
        BY <3>1
      <3> QED BY <1>1, <3>1a
    <2>2. ASSUME NEW q PROVE q \in Stamps(more, T) <=> q \in Stamps(bag, T) \cup {p}
      <3>1. ASSUME q \in Stamps(more, T) PROVE q \in Stamps(bag, T) \cup {p}
        <4>1. PICK t \in T : \E i \in 1..more[t] : q = <<t, i>>
          BY <1>1, <3>1, StampsMember
        <4>1a. PICK i \in 1..more[t] : q = <<t, i>>
          BY <4>1
        <4>2. CASE t = n /\ i = bag[n] + 1
          BY <4>1a, <4>2
        <4>3. CASE ~(t = n /\ i = bag[n] + 1)
          <5>1. i \in 1..bag[t]
            BY <1>1, <4>3
          <5> QED BY <4>1a, <5>1, StampsMember
        <4> QED BY <4>2, <4>3
      <3>2. ASSUME q \in Stamps(bag, T) PROVE q \in Stamps(more, T)
        <4>1. PICK t \in T : \E i \in 1..bag[t] : q = <<t, i>>
          BY <3>2, StampsMember
        <4>1a. PICK i \in 1..bag[t] : q = <<t, i>>
          BY <4>1
        <4>2. i \in 1..more[t]
          BY <1>1, <4>1a DEF StampBags
        <4> QED BY <1>1, <4>1a, <4>2, StampsMember
      <3>3. p \in Stamps(more, T)
        <4>1. bag[n] + 1 \in 1..more[n]
          BY <1>1
        <4> QED BY <1>1, <1>3, <4>1, StampsMember
      <3> QED BY <3>1, <3>2, <3>3
    <2>3. Stamps(more, T) = Stamps(bag, T) \cup {p}
      BY <2>2
    <2>4. Cardinality(Stamps(bag, T) \cup {p}) = Cardinality(Stamps(bag, T)) + 1
      BY <2>1, StampsFinite, FS_AddElement
    <2> QED BY <1>1, <1>3, <2>3, <2>4 DEF Size, more
  <1> QED BY <1>2, <1>3

\* A bag that is not empty has a time.
LEMMA SizePositive ==
  ASSUME NEW bag \in StampBags, NEW T \in SUBSET Times
  PROVE  (\A t \in T : bag[t] = 0) => Size(bag, T) = 0
  <1> SUFFICES ASSUME \A t \in T : bag[t] = 0 PROVE Size(bag, T) = 0
    OBVIOUS
  <1>1. Stamps(bag, T) = {}
    <2> SUFFICES ASSUME NEW p \in Stamps(bag, T) PROVE FALSE
      OBVIOUS
    <2>1. PICK t \in T : \E i \in 1..bag[t] : p = <<t, i>>
      BY StampsMember
    <2>1a. PICK i \in 1..bag[t] : p = <<t, i>>
      BY <2>1
    <2> QED BY <2>1a
  <1> QED BY <1>1, FS_EmptySet DEF Size

\* A nonempty set of numbers has a least one.
LEMMA LeastExists ==
  ASSUME NEW S \in SUBSET Nat, S # {}
  PROVE  Min(S) \in S /\ \A y \in S : Min(S) <= y
  <1> DEFINE R == OpToRel(<, Nat)
  <1>1. IsWellFoundedOn(R, Nat)
    BY NatLessThanWellFounded
  <1>2. \A x, y \in Nat : <<y, x>> \in R <=> y < x
    BY DEF OpToRel
  <1> HIDE DEF R
  <1>3. \E x \in S : \A y \in S : ~(<<y, x>> \in R)
    BY <1>1, WFMin
  <1>4. PICK x \in S : \A y \in S : ~(<<y, x>> \in R)
    BY <1>3
  <1>5. ASSUME NEW y \in S PROVE x <= y
    <2>1. ~(y < x)
      BY <1>2, <1>4
    <2> QED BY <2>1
  <1>6. \E m \in S : \A y \in S : m =< y
    BY <1>5
  <1> QED BY <1>6 DEF Min

-----------------------------------------------------------------------------
(* The base of the invariant: types, times, and what the rules allow *)

\* The calls of evaluate under way.
Busy == {v \in Workers : task[v] # Idle}

PeakOK == IsFiniteSet(Busy) /\ Cardinality(Busy) <= peak
TimeOK == \A v \in Busy : task[v].now <= clock
HitsOK == \A s \in Scopes, t \in Times : hits[s][t] <= autos[s][t]

\* The first rule that matches says auto, and the tier is not the dangerous one.
Allowed(s) ==
  /\ TierOf[s[2]] # "dangerous"
  /\ \E i \in DOMAIN Rules :
       /\ s[1] \in Rules[i].hosts /\ Rules[i].tier = TierOf[s[2]] /\ Rules[i].decision = "auto"
       /\ \A j \in 1..(i - 1) : ~(s[1] \in Rules[j].hosts /\ Rules[j].tier = TierOf[s[2]])

AllowedOK ==
  /\ \A v \in Busy : Allowed(task[v].scope)
  /\ \A s \in Scopes, t \in Times : autos[s][t] > 0 => Allowed(s)

\* With a cap of none, nothing gets past the breaker.
ZeroOK ==
  MaxAuto = 0 =>
    /\ \A v \in Workers : task[v].pc # "record"
    /\ \A s \in Scopes, t \in Times : autos[s][t] = 0

Base == TypeOK /\ PeakOK /\ TimeOK /\ HitsOK /\ AllowedOK /\ ZeroOK

\* The constants' types, in the form the proofs use.
LEMMA ConstantTypes ==
  /\ MaxAuto \in Nat /\ Window \in Nat /\ Lag \in Nat /\ MaxTime \in Nat /\ MaxRestarts \in Nat
  /\ Times \subseteq Nat
  BY PolicyAssumption, TimesFinite

\* A call is idle, checking or recording.
LEMMA TaskCases ==
  ASSUME TypeOK, NEW v \in Workers
  PROVE  \/ task[v] = Idle /\ task[v].pc = "idle"
         \/ /\ task[v] # Idle /\ task[v].pc \in {"check", "record"}
            /\ task[v].scope \in Scopes /\ task[v].now \in Times
            /\ task[v] = Call(task[v].pc, task[v].scope, task[v].now)
            /\ [task[v] EXCEPT !.pc = "record"] = Call("record", task[v].scope, task[v].now)
  <1>1. task[v] \in Calls \/ task[v] = Idle
    BY DEF TypeOK
  <1>2. CASE task[v] = Idle
    BY <1>2 DEF Idle
  <1>3. CASE task[v] \in Calls
    <2>1. PICK pc \in {"check", "record"}, s \in Scopes, now \in Times : task[v] = Call(pc, s, now)
      BY <1>3 DEF Calls
    <2>2. task[v].pc = pc /\ task[v].scope = s /\ task[v].now = now
      BY <2>1 DEF Call
    <2>3. task[v] # Idle
      BY <2>2 DEF Idle
    <2>4. [task[v] EXCEPT !.pc = "record"] = Call("record", s, now)
      BY <2>1 DEF Call
    <2> QED BY <2>1, <2>2, <2>3, <2>4
  <1> QED BY <1>1, <1>2, <1>3

\* A call with its parts.
LEMMA CallParts ==
  ASSUME NEW pc \in {"check", "record"}, NEW s \in Scopes, NEW now \in Times
  PROVE  /\ Call(pc, s, now) \in Calls /\ Call(pc, s, now) # Idle
         /\ Call(pc, s, now).pc = pc /\ Call(pc, s, now).scope = s /\ Call(pc, s, now).now = now
  <1>1. Call(pc, s, now).pc = pc /\ Call(pc, s, now).scope = s /\ Call(pc, s, now).now = now
    BY DEF Call
  <1>2. Call(pc, s, now) # Idle
    BY <1>1 DEF Idle
  <1> QED BY <1>1, <1>2 DEF Calls

\* A step of one worker moves nobody else.
LEMMA BusyMoves ==
  ASSUME TypeOK, NEW w \in Workers, NEW x, task' = [task EXCEPT ![w] = x]
  PROVE  /\ \A v \in Workers : task'[v] = IF v = w THEN x ELSE task[v]
         /\ x = Idle => Busy' = Busy \ {w}
         /\ x # Idle => Busy' = Busy \cup {w}
  <1>1. \A v \in Workers : task'[v] = IF v = w THEN x ELSE task[v]
    BY DEF TypeOK
  <1> QED BY <1>1 DEF Busy

\* The greater of two numbers.
LEMMA MaxOfTwo ==
  ASSUME NEW a \in Nat, NEW b \in Nat
  PROVE  Max({a, b}) \in Nat /\ Max({a, b}) >= a /\ Max({a, b}) >= b
  <1>1. \E m \in {a, b} : \A y \in {a, b} : m >= y
    BY Z3
  <1>2. Max({a, b}) \in {a, b} /\ \A y \in {a, b} : Max({a, b}) >= y
    BY <1>1 DEF Max
  <1> QED BY <1>2

\* What `auto` from the rules and the guardrails means.
LEMMA AutoMeansAllowed ==
  ASSUME NEW h \in Hosts, NEW t \in Templates, Guarded(h, TierOf[t]) = "auto"
  PROVE  Allowed(<<h, t>>)
  <1> DEFINE M == Matching(h, TierOf[t])
             i == Min(M)
  <1>1. Rules \in Seq([hosts : SUBSET Hosts, tier : Tiers, decision : Decisions])
    BY PolicyAssumption
  <1>2. Len(Rules) \in Nat /\ DOMAIN Rules = 1..Len(Rules)
    BY <1>1
  <1>3. Decide(h, TierOf[t]) = "auto" /\ TierOf[t] # "dangerous"
    BY DEF Guarded
  <1>4. M # {} /\ Rules[i].decision = "auto"
    BY <1>3 DEF Decide
  <1>5. M \in SUBSET Nat
    BY <1>2 DEF Matching
  <1> HIDE DEF M
  <1>6. i \in M /\ \A y \in M : i <= y
    BY <1>4, <1>5, LeastExists
  <1>7. i \in DOMAIN Rules /\ h \in Rules[i].hosts /\ Rules[i].tier = TierOf[t]
    BY <1>6 DEF M, Matching
  <1> HIDE DEF i
  <1>8. ASSUME NEW j \in 1..(i - 1) PROVE ~(h \in Rules[j].hosts /\ Rules[j].tier = TierOf[t])
    <2>1. i \in 1..Len(Rules)
      BY <1>2, <1>7
    <2>2. j \in DOMAIN Rules /\ ~(i <= j)
      BY <1>2, <2>1
    <2>3. j \notin M
      BY <1>6, <2>2
    <2> QED BY <2>2, <2>3 DEF M, Matching
  <1> QED BY <1>3, <1>4, <1>7, <1>8 DEF Allowed

\* At the start nothing was done and nobody calls.
LEMMA BaseInit == Init => Base
  <1> SUFFICES ASSUME Init PROVE Base
    OBVIOUS
  <1>1. Busy = {}
    BY DEF Init, Busy
  <1>2. TypeOK
    BY ConstantTypes, TimesFinite DEF Init, TypeOK, NoHits, Times
  <1>3. PeakOK
    BY <1>1, FS_EmptySet DEF Init, PeakOK
  <1>4. \A v \in Workers : task[v].pc # "record"
    BY DEF Init, Idle
  <1>5. \A s \in Scopes, t \in Times : hits[s][t] = 0 /\ autos[s][t] = 0
    BY DEF Init, NoHits
  <1> QED BY <1>1, <1>2, <1>3, <1>4, <1>5 DEF Base, TimeOK, HitsOK, AllowedOK, ZeroOK

\* A call begins.
LEMMA BaseEvaluate ==
  ASSUME Base, NEW w \in Workers, NEW h \in Hosts, NEW t \in Templates, Evaluate(w, h, t)
  PROVE  /\ Base'
         /\ peak' >= peak /\ peak' >= Cardinality(Busy) + 1
  <1> DEFINE s == <<h, t>>
             x == Call("check", s, clock)
  <1>0. UNCHANGED <<clock, autoEnabled, hits, autos, restarts>> /\ task' = [task EXCEPT ![w] = x]
        /\ peak' = Max({peak, 1 + Cardinality(Busy)}) /\ w \notin Busy /\ Allowed(s)
    BY AutoMeansAllowed DEF Evaluate, Busy
  <1>1. s \in Scopes /\ clock \in Times
    BY DEF Base, TypeOK, Scopes
  <1> HIDE DEF s
  <1>2. x \in Calls /\ x # Idle /\ x.pc = "check" /\ x.scope = s /\ x.now = clock
    BY <1>1, CallParts
  <1> HIDE DEF x
  <1>3. Busy' = Busy \cup {w} /\ \A v \in Workers : task'[v] = IF v = w THEN x ELSE task[v]
    BY <1>0, <1>2, BusyMoves DEF Base
  <1>4. Cardinality(Busy) \in Nat /\ peak \in Nat \ {0}
    BY FS_CardinalityType DEF Base, PeakOK, TypeOK
  <1>5. peak' \in Nat /\ peak' >= peak /\ peak' >= Cardinality(Busy) + 1
    BY <1>0, <1>4, MaxOfTwo
  <1>6. PeakOK'
    <2>1. IsFiniteSet(Busy \cup {w}) /\ Cardinality(Busy \cup {w}) = Cardinality(Busy) + 1
      BY <1>0, FS_AddElement DEF Base, PeakOK
    <2>2. IsFiniteSet(Busy') /\ Cardinality(Busy') <= peak'
      BY <1>3, <1>4, <1>5, <2>1
    <2> QED BY <2>2 DEF PeakOK
  <1>7. TypeOK'
    BY <1>0, <1>2, <1>4, <1>5 DEF Base, TypeOK
  <1>8. TimeOK'
    BY <1>0, <1>1, <1>2, <1>3, ConstantTypes DEF Base, TimeOK, Busy
  <1>9. AllowedOK'
    BY <1>0, <1>2, <1>3 DEF Base, AllowedOK, Busy
  <1>10. HitsOK' /\ ZeroOK'
    BY <1>0, <1>2, <1>3 DEF Base, HitsOK, ZeroOK
  <1> QED BY <1>5, <1>6, <1>7, <1>8, <1>9, <1>10 DEF Base

\* What `retain` leaves of a bag.
LEMMA RetainBag ==
  ASSUME NEW bag \in StampBags, NEW n \in Times
  PROVE  /\ Retain(bag, n) \in StampBags
         /\ \A t \in Times : Retain(bag, n)[t] = IF t + Window > n THEN bag[t] ELSE 0
         /\ \A t \in Times : Retain(bag, n)[t] <= bag[t]
  BY ConstantTypes DEF Retain, StampBags

\* The two outcomes of the breaker's check, spelled out.
LEMMA TrippedEffect ==
  ASSUME TypeOK, NEW w \in Workers, Tripped(w)
  PROVE  LET sc == task[w].scope
             n == task[w].now
             recent == Retain(hits[sc], n)
         IN /\ w \in Busy /\ sc \in Scopes /\ n \in Times /\ task[w].pc = "check"
            /\ hits' = [hits EXCEPT ![sc] = recent] /\ recent \in StampBags
            /\ UNCHANGED <<clock, autoEnabled, autos, peak, restarts>>
            /\ \/ task' = [task EXCEPT ![w] = Idle] /\ Size(recent, Times) >= MaxAuto
               \/ task' = [task EXCEPT ![w] = Call("record", sc, n)] /\ Size(recent, Times) < MaxAuto
  <1> DEFINE sc == task[w].scope
             n == task[w].now
             recent == Retain(hits[sc], n)
  <1>1. task[w].pc = "check"
    BY DEF Tripped
  <1>2. w \in Busy /\ sc \in Scopes /\ n \in Times /\ [task[w] EXCEPT !.pc = "record"] = Call("record", sc, n)
    BY <1>1, TaskCases DEF Busy
  <1>3. hits[sc] \in StampBags
    BY <1>2 DEF TypeOK, StampBags
  <1>4. recent \in StampBags
    BY <1>2, <1>3, RetainBag
  <1>5. Size(recent, Times) \in Nat
    BY <1>4, StampsFinite
  <1>6. \/ task' = [task EXCEPT ![w] = Idle] /\ Size(recent, Times) >= MaxAuto
        \/ task' = [task EXCEPT ![w] = Call("record", sc, n)] /\ ~(Size(recent, Times) >= MaxAuto)
    BY <1>2 DEF Tripped
  <1>7. hits' = [hits EXCEPT ![sc] = recent] /\ UNCHANGED <<clock, autoEnabled, autos, peak, restarts>>
    BY DEF Tripped
  <1>8. MaxAuto \in Nat
    BY ConstantTypes
  <1> HIDE DEF recent, sc, n
  <1>9. \/ task' = [task EXCEPT ![w] = Idle] /\ Size(recent, Times) >= MaxAuto
        \/ task' = [task EXCEPT ![w] = Call("record", sc, n)] /\ Size(recent, Times) < MaxAuto
    BY <1>5, <1>6, <1>8
  <1> QED BY <1>1, <1>2, <1>4, <1>7, <1>9 DEF recent, sc, n

\* The check.
LEMMA BaseTripped ==
  ASSUME Base, NEW w \in Workers, Tripped(w)
  PROVE  Base'
  <1> DEFINE sc == task[w].scope
             n == task[w].now
             recent == Retain(hits[sc], n)
  <1>1. /\ w \in Busy /\ sc \in Scopes /\ n \in Times
        /\ hits' = [hits EXCEPT ![sc] = recent]
        /\ UNCHANGED <<clock, autoEnabled, autos, peak, restarts>>
        /\ \/ task' = [task EXCEPT ![w] = Idle]
           \/ task' = [task EXCEPT ![w] = Call("record", sc, n)] /\ Size(recent, Times) < MaxAuto
    BY TrippedEffect DEF Base
  <1>2. hits[sc] \in StampBags
    BY <1>1 DEF Base, TypeOK, StampBags
  <1>3. recent \in StampBags /\ (\A t \in Times : recent[t] <= hits[sc][t]) /\ Size(recent, Times) \in Nat
    BY <1>1, <1>2, RetainBag, StampsFinite
  <1>4. Call("record", sc, n) \in Calls /\ Call("record", sc, n) # Idle
        /\ Call("record", sc, n).scope = sc /\ Call("record", sc, n).now = n
    BY <1>1, CallParts
  <1>5. PICK x : /\ task' = [task EXCEPT ![w] = x]
                 /\ x = Idle \/ (x = Call("record", sc, n) /\ MaxAuto # 0)
    BY <1>1, <1>3, ConstantTypes
  <1> HIDE DEF recent
  <1>6. HitsOK' /\ hits' \in [Scopes -> [Times -> Nat]]
    <2>1. \A s \in Scopes : hits'[s] = IF s = sc THEN recent ELSE hits[s]
      BY <1>1 DEF Base, TypeOK
    <2>2. \A s \in Scopes, t \in Times : hits'[s][t] <= hits[s][t]
      BY <1>3, <2>1 DEF Base, TypeOK
    <2>3. hits' \in [Scopes -> [Times -> Nat]]
      BY <1>1, <1>3 DEF Base, TypeOK, StampBags
    <2>4. ASSUME NEW s \in Scopes, NEW t \in Times PROVE hits'[s][t] <= autos'[s][t]
      <3>1. hits'[s][t] \in Nat /\ hits[s][t] \in Nat /\ autos[s][t] \in Nat
        BY <2>3 DEF Base, TypeOK
      <3> QED BY <1>1, <2>2, <3>1 DEF Base, HitsOK
    <2> QED BY <2>3, <2>4 DEF HitsOK
  <1> HIDE DEF sc, n
  <1>7. /\ \A v \in Workers : task'[v] = IF v = w THEN x ELSE task[v]
        /\ Busy' \subseteq Busy
    BY <1>1, <1>5, BusyMoves DEF Base
  <1>8. TypeOK'
    BY <1>1, <1>4, <1>5, <1>6 DEF Base, TypeOK
  <1>9. PeakOK'
    <2>1. IsFiniteSet(Busy') /\ Cardinality(Busy') <= Cardinality(Busy)
      BY <1>7, FS_Subset DEF Base, PeakOK
    <2>2. Cardinality(Busy') \in Nat /\ Cardinality(Busy) \in Nat /\ peak \in Nat
      BY <2>1, FS_CardinalityType DEF Base, PeakOK, TypeOK
    <2> QED BY <1>1, <2>1, <2>2 DEF Base, PeakOK
  <1>10. \A v \in Busy' : task'[v].scope = task[v].scope /\ task'[v].now = task[v].now
    BY <1>4, <1>5, <1>7 DEF Busy, sc, n
  <1>11. TimeOK' /\ AllowedOK'
    BY <1>1, <1>7, <1>10 DEF Base, TimeOK, AllowedOK
  <1>12. ZeroOK'
    <2>1. x = Idle => x.pc # "record"
      BY DEF Idle
    <2> QED BY <1>1, <1>5, <1>7, <2>1 DEF Base, ZeroOK
  <1> QED BY <1>6, <1>8, <1>9, <1>11, <1>12 DEF Base

\* The hit is logged in both bags.
LEMMA RecordEffect ==
  ASSUME TypeOK, NEW w \in Workers, Record(w)
  PROVE  LET sc == task[w].scope
             n == task[w].now
         IN /\ w \in Busy /\ sc \in Scopes /\ n \in Times /\ task[w].pc = "record"
            /\ UNCHANGED <<clock, autoEnabled, peak, restarts>>
            /\ task' = [task EXCEPT ![w] = Idle]
            /\ \A s \in Scopes :
                 /\ hits'[s] = IF s = sc THEN [hits[s] EXCEPT ![n] = @ + 1] ELSE hits[s]
                 /\ autos'[s] = IF s = sc THEN [autos[s] EXCEPT ![n] = @ + 1] ELSE autos[s]
            /\ hits' \in [Scopes -> [Times -> Nat]] /\ autos' \in [Scopes -> [Times -> Nat]]
  <1> DEFINE sc == task[w].scope
             n == task[w].now
  <1>1. task[w].pc = "record"
    BY DEF Record
  <1>2. w \in Busy /\ sc \in Scopes /\ n \in Times
    BY <1>1, TaskCases DEF Busy
  <1>3. /\ UNCHANGED <<clock, autoEnabled, peak, restarts>> /\ task' = [task EXCEPT ![w] = Idle]
        /\ hits' = [hits EXCEPT ![sc] = [hits[sc] EXCEPT ![n] = @ + 1]]
        /\ autos' = [autos EXCEPT ![sc] = [autos[sc] EXCEPT ![n] = @ + 1]]
    BY DEF Record
  <1>4. hits \in [Scopes -> StampBags] /\ autos \in [Scopes -> StampBags]
    BY DEF TypeOK, StampBags
  <1>5. [hits[sc] EXCEPT ![n] = @ + 1] \in StampBags /\ [autos[sc] EXCEPT ![n] = @ + 1] \in StampBags
    BY <1>2, <1>4, SizeAdd
  <1> HIDE DEF sc, n
  <1>6. hits' \in [Scopes -> StampBags] /\ autos' \in [Scopes -> StampBags]
    BY <1>2, <1>3, <1>4, <1>5
  <1>7. \A s \in Scopes :
          /\ hits'[s] = IF s = sc THEN [hits[s] EXCEPT ![n] = @ + 1] ELSE hits[s]
          /\ autos'[s] = IF s = sc THEN [autos[s] EXCEPT ![n] = @ + 1] ELSE autos[s]
    BY <1>2, <1>3, <1>4
  <1> QED BY <1>1, <1>2, <1>3, <1>6, <1>7 DEF sc, n, StampBags

\* The record.
LEMMA BaseRecord ==
  ASSUME Base, NEW w \in Workers, Record(w)
  PROVE  Base'
  <1> DEFINE sc == task[w].scope
             n == task[w].now
  <1>1. /\ w \in Busy /\ sc \in Scopes /\ n \in Times /\ task[w].pc = "record"
        /\ UNCHANGED <<clock, autoEnabled, peak, restarts>>
        /\ task' = [task EXCEPT ![w] = Idle]
        /\ \A s \in Scopes :
             /\ hits'[s] = IF s = sc THEN [hits[s] EXCEPT ![n] = @ + 1] ELSE hits[s]
             /\ autos'[s] = IF s = sc THEN [autos[s] EXCEPT ![n] = @ + 1] ELSE autos[s]
        /\ hits' \in [Scopes -> [Times -> Nat]] /\ autos' \in [Scopes -> [Times -> Nat]]
    BY RecordEffect DEF Base
  <1>2. MaxAuto # 0 /\ Allowed(sc)
    BY <1>1 DEF Base, ZeroOK, AllowedOK
  <1> HIDE DEF sc, n
  <1>3. Busy' = Busy \ {w} /\ \A v \in Workers : task'[v] = IF v = w THEN Idle ELSE task[v]
    BY <1>1, BusyMoves DEF Base
  <1>4. TypeOK'
    BY <1>1 DEF Base, TypeOK
  <1>5. PeakOK'
    <2>1. IsFiniteSet(Busy') /\ Cardinality(Busy') <= Cardinality(Busy)
      BY <1>3, FS_Subset DEF Base, PeakOK
    <2>2. Cardinality(Busy') \in Nat /\ Cardinality(Busy) \in Nat /\ peak \in Nat
      BY <2>1, FS_CardinalityType DEF Base, PeakOK, TypeOK
    <2> QED BY <1>1, <2>1, <2>2 DEF Base, PeakOK
  <1>6. TimeOK'
    BY <1>1, <1>3 DEF Base, TimeOK, Busy
  <1>7. \A s \in Scopes, t \in Times :
          /\ hits'[s][t] = IF s = sc /\ t = n THEN hits[s][t] + 1 ELSE hits[s][t]
          /\ autos'[s][t] = IF s = sc /\ t = n THEN autos[s][t] + 1 ELSE autos[s][t]
    BY <1>1 DEF Base, TypeOK
  <1>8. HitsOK'
    <2> SUFFICES ASSUME NEW s \in Scopes, NEW t \in Times PROVE hits'[s][t] <= autos'[s][t]
      BY DEF HitsOK
    <2>1. hits[s][t] \in Nat /\ autos[s][t] \in Nat /\ hits[s][t] <= autos[s][t]
      BY DEF Base, TypeOK, HitsOK
    <2> QED BY <1>7, <2>1
  <1>9. AllowedOK'
    <2>1. \A v \in Busy' : Allowed(task'[v].scope)
      BY <1>3 DEF Base, AllowedOK, Busy
    <2>2. ASSUME NEW s \in Scopes, NEW t \in Times, autos'[s][t] > 0 PROVE Allowed(s)
      BY <1>2, <1>7, <2>2 DEF Base, AllowedOK
    <2> QED BY <2>1, <2>2 DEF AllowedOK
  <1>10. ZeroOK'
    BY <1>2 DEF ZeroOK
  <1> QED BY <1>4, <1>5, <1>6, <1>8, <1>9, <1>10 DEF Base

\* Time passes.
LEMMA BaseTick ==
  ASSUME Base, Tick
  PROVE  Base'
  <1>0. UNCHANGED <<autoEnabled, hits, task, autos, peak, restarts>> /\ clock' = clock + 1 /\ clock < MaxTime
    BY DEF Tick
  <1>1. clock \in Nat /\ clock' \in Times
    BY <1>0, ConstantTypes DEF Base, TypeOK, Times
  <1>2. TypeOK'
    BY <1>0, <1>1 DEF Base, TypeOK
  <1>3. Busy' = Busy
    BY <1>0 DEF Busy
  <1>4. TimeOK'
    <2> SUFFICES ASSUME NEW v \in Busy PROVE task[v].now <= clock + 1
      BY <1>0, <1>3 DEF TimeOK
    <2>1. task[v].now \in Nat /\ task[v].now <= clock
      BY TaskCases, ConstantTypes DEF Base, TimeOK, Busy
    <2> QED BY <1>1, <2>1
  <1> QED BY <1>0, <1>2, <1>3, <1>4 DEF Base, PeakOK, HitsOK, AllowedOK, ZeroOK

\* A restart forgets the hits and the calls.
LEMMA BaseRestart ==
  ASSUME Base, Restart
  PROVE  Base'
  <1>0. UNCHANGED <<clock, autos, peak>> /\ hits' = NoHits /\ task' = [w \in Workers |-> Idle]
        /\ restarts' = restarts + 1 /\ restarts < MaxRestarts /\ autoEnabled' \in BOOLEAN
    BY DEF Restart
  <1>1. Busy' = {}
    BY <1>0 DEF Busy
  <1>2. TypeOK'
    BY <1>0, ConstantTypes DEF Base, TypeOK, NoHits
  <1>3. PeakOK'
    BY <1>0, <1>1, FS_EmptySet DEF Base, TypeOK, PeakOK
  <1>4. HitsOK'
    BY <1>0 DEF Base, TypeOK, HitsOK, NoHits
  <1>5. ZeroOK'
    BY <1>0 DEF Base, ZeroOK, Idle
  <1> QED BY <1>0, <1>1, <1>2, <1>3, <1>4, <1>5 DEF Base, TimeOK, AllowedOK

\* Nothing changes.
LEMMA BaseStutter ==
  ASSUME Base, UNCHANGED vars
  PROVE  Base'
  BY DEF vars, Base, TypeOK, PeakOK, TimeOK, HitsOK, AllowedOK, ZeroOK, Busy

\* Every step keeps the base.
LEMMA BaseStep == Base /\ [Next]_vars => Base'
  BY BaseStutter, BaseEvaluate, BaseTripped, BaseRecord, BaseTick, BaseRestart DEF Next

-----------------------------------------------------------------------------
(* The cap *)

\* The window that ends at t, and the calls of a scope that can still add to it.
Win(t) == {u \in Times : u <= t /\ u + Window > t}
Early(pc, s, t) == {v \in Workers : task[v].pc = pc /\ task[v].scope = s /\ task[v].now <= t}

Bound(p) == MaxAuto + (IF Lag = 0 THEN p - 1 ELSE (p - 1) + (p - 1))

\* One window, in numbers. Of its k auto decisions, o are from before the last restart;
\* the breaker's log still has h of the window; r calls are about to record one into it
\* and c are yet to be checked. Until the window is over, the log has all of it, so
\* that a call gets past the check only below the cap. When it is over, only the calls
\* that were under way can add to it, and if they are all yet to be checked, the first
\* that is checked finds the log complete.
Cap(o, k, h, r, c, now, t, p, lives) ==
  /\ o <= lives * Bound(p) /\ o <= k
  /\ \/ now <= t /\ k = o + h /\ k + r <= o + MaxAuto + p - 1
     \/ now > t /\ k + r + c <= o + Bound(p)
     \/ now > t /\ Lag # 0 /\ k = o + h /\ c = p /\ k + r + c <= o + MaxAuto + p + p - 1

CapOK(s, t, o) ==
  Cap(o, InWindow(s, t), Size(hits[s], Win(t)),
      Cardinality(Early("record", s, t)), Cardinality(Early("check", s, t)),
      clock, t, peak, restarts)

CapInv == \A s \in Scopes, t \in Times : \E o \in Nat : CapOK(s, t, o)

\* The bound is a number that grows with the overlap.
LEMMA BoundGrows ==
  /\ \A p \in Nat \ {0} : Bound(p) \in Nat /\ MaxAuto + p - 1 <= Bound(p)
  /\ \A p, q \in Nat \ {0} : p <= q => Bound(p) <= Bound(q)
  /\ Lag # 0 => \A p \in Nat \ {0} : Bound(p) = MaxAuto + p + p - 2
  /\ Lag = 0 => \A p \in Nat \ {0} : Bound(p) = MaxAuto + p - 1
  BY ConstantTypes DEF Bound

\* A product grows with its factor.
LEMMA ProductGrows == \A a, b, c \in Nat : b <= c => a * b <= a * c /\ a * b \in Nat
  BY Z3

\* A window's numbers are numbers, and no more calls are early than are under way.
LEMMA WindowNumbers ==
  ASSUME Base, NEW s \in Scopes, NEW t \in Times
  PROVE  /\ Win(t) \in SUBSET Times
         /\ hits[s] \in StampBags /\ autos[s] \in StampBags
         /\ InWindow(s, t) = Size(autos[s], Win(t))
         /\ InWindow(s, t) \in Nat /\ Size(hits[s], Win(t)) \in Nat
         /\ Early("record", s, t) \subseteq Busy /\ Early("check", s, t) \subseteq Busy
         /\ IsFiniteSet(Early("record", s, t)) /\ IsFiniteSet(Early("check", s, t))
         /\ Cardinality(Early("record", s, t)) \in Nat /\ Cardinality(Early("check", s, t)) \in Nat
         /\ Cardinality(Early("record", s, t)) + Cardinality(Early("check", s, t)) <= Cardinality(Busy)
         /\ Cardinality(Busy) \in Nat /\ Cardinality(Busy) <= peak
         /\ (Cardinality(Early("check", s, t)) = peak => Early("check", s, t) = Busy)
         /\ clock \in Nat /\ peak \in Nat \ {0} /\ restarts \in Nat
  <1> DEFINE R == Early("record", s, t)
             C == Early("check", s, t)
  <1>1. Win(t) \in SUBSET Times /\ InWindow(s, t) = Size(autos[s], Win(t))
    BY DEF Win, InWindow
  <1>2. hits[s] \in StampBags /\ autos[s] \in StampBags
    BY DEF Base, TypeOK, StampBags
  <1>3. InWindow(s, t) \in Nat /\ Size(hits[s], Win(t)) \in Nat
    BY <1>1, <1>2, StampsFinite
  <1>4. R \subseteq Busy /\ C \subseteq Busy
    BY TaskCases DEF Base, Early, Busy
  <1>5. R \cap C = {}
    BY DEF Early
  <1>6. IsFiniteSet(Busy) /\ Cardinality(Busy) \in Nat /\ Cardinality(Busy) <= peak
    BY FS_CardinalityType DEF Base, PeakOK
  <1> HIDE DEF R, C
  <1>7. IsFiniteSet(R) /\ IsFiniteSet(C) /\ Cardinality(C) <= Cardinality(Busy)
        /\ (Cardinality(Busy) = Cardinality(C) => Busy = C)
    BY <1>4, <1>6, FS_Subset
  <1>8. Cardinality(R) \in Nat /\ Cardinality(C) \in Nat
    BY <1>7, FS_CardinalityType
  <1>9. Cardinality(R) + Cardinality(C) <= Cardinality(Busy)
    <2>1. IsFiniteSet(R \cup C) /\ Cardinality(R \cup C) = Cardinality(R) + Cardinality(C) - 0
      BY <1>5, <1>7, FS_Union, FS_EmptySet
    <2>2. Cardinality(R \cup C) <= Cardinality(Busy)
      BY <1>4, <1>6, FS_Subset
    <2> QED BY <1>8, <2>1, <2>2
  <1>10. clock \in Nat /\ peak \in Nat \ {0} /\ restarts \in Nat
    BY ConstantTypes DEF Base, TypeOK
  <1>11. Cardinality(C) = peak => C = Busy
    BY <1>6, <1>7, <1>8, <1>10
  <1> QED BY <1>1, <1>2, <1>3, <1>4, <1>6, <1>7, <1>8, <1>9, <1>10, <1>11 DEF R, C

\* More calls than ever are under way: the bound grows.
LEMMA CapMoreRoom ==
  ASSUME NEW o \in Nat, NEW k \in Nat, NEW h \in Nat, NEW r \in Nat, NEW c \in Nat, NEW c2 \in Nat,
         NEW now \in Nat, NEW t \in Nat, NEW p \in Nat \ {0}, NEW q \in Nat \ {0}, NEW lives \in Nat,
         Cap(o, k, h, r, c, now, t, p, lives),
         p <= q, c < q, now > t => c2 = c
  PROVE  Cap(o, k, h, r, c2, now, t, q, lives)
  <1> USE ConstantTypes
  <1>1. Bound(p) \in Nat /\ Bound(q) \in Nat /\ Bound(p) <= Bound(q)
        /\ (Lag # 0 => Bound(q) = MaxAuto + q + q - 2)
    BY BoundGrows
  <1>2. o <= lives * Bound(q) /\ o <= k
    <2>1. lives * Bound(p) <= lives * Bound(q) /\ lives * Bound(p) \in Nat /\ lives * Bound(q) \in Nat
      BY <1>1, ProductGrows
    <2> QED BY <2>1 DEF Cap
  <1>3. CASE now <= t
    <2>1. k = o + h /\ k + r <= o + MaxAuto + p - 1
      BY <1>3 DEF Cap
    <2>2. k + r <= o + MaxAuto + q - 1
      BY <2>1
    <2> QED BY <1>2, <1>3, <2>1, <2>2 DEF Cap
  <1>4. CASE now > t
    <2>1. k + r + c <= o + Bound(p) \/ (Lag # 0 /\ c = p /\ k + r + c <= o + MaxAuto + p + p - 1)
      BY <1>4 DEF Cap
    <2>2. k + r + c <= o + Bound(q)
      BY <1>1, <2>1
    <2> QED BY <1>2, <1>4, <2>2 DEF Cap
  <1> QED BY <1>3, <1>4

\* A call begins: it is early only for windows that are not over, and one more call
\* under way than ever makes room for it.
LEMMA CapEvaluate ==
  ASSUME Base, NEW w \in Workers, NEW h \in Hosts, NEW tm \in Templates, Evaluate(w, h, tm),
         NEW s \in Scopes, NEW t \in Times, NEW o \in Nat, CapOK(s, t, o)
  PROVE  CapOK(s, t, o)'
  <1> DEFINE k == InWindow(s, t)
             hs == Size(hits[s], Win(t))
             r == Cardinality(Early("record", s, t))
             c == Cardinality(Early("check", s, t))
             b == Cardinality(Busy)
             x == Call("check", <<h, tm>>, clock)
  <1>1. /\ k \in Nat /\ hs \in Nat /\ r \in Nat /\ c \in Nat /\ b \in Nat /\ r + c <= b
        /\ clock \in Nat /\ peak \in Nat \ {0} /\ restarts \in Nat /\ t \in Nat
    BY WindowNumbers, ConstantTypes
  <1>2. Base' /\ peak' >= peak /\ peak' >= b + 1 /\ peak' \in Nat
    BY BaseEvaluate DEF Base, TypeOK
  <1>3. UNCHANGED <<clock, hits, autos, restarts>> /\ task' = [task EXCEPT ![w] = x] /\ task[w] = Idle
    BY DEF Evaluate
  <1>4. x.pc = "check" /\ x.now = clock
    BY DEF Call
  <1>5. w \notin Early("record", s, t) /\ w \notin Early("check", s, t)
    BY <1>3 DEF Early, Idle
  <1> HIDE DEF x
  <1>6. \A v \in Workers : task'[v] = IF v = w THEN x ELSE task[v]
    BY <1>3, BusyMoves DEF Base
  <1>7. Early("record", s, t)' = Early("record", s, t)
    BY <1>4, <1>5, <1>6 DEF Early
  <1>8. /\ clock > t => Early("check", s, t)' = Early("check", s, t)
        /\ Early("check", s, t)' \in {Early("check", s, t), Early("check", s, t) \cup {w}}
    <2>1. clock > t => ~(x.now <= t)
      BY <1>1, <1>4
    <2> QED BY <1>5, <1>6, <2>1 DEF Early
  <1>9. IsFiniteSet(Early("check", s, t)) /\ IsFiniteSet(Early("check", s, t) \cup {w})
    BY WindowNumbers, FS_AddElement
  <1>10. IsFiniteSet(Early("check", s, t)')
    BY <1>8, <1>9
  <1>11. k' = k /\ hs' = hs /\ r' = r /\ (clock > t => c' = c) /\ c' \in Nat
    BY <1>3, <1>7, <1>8, <1>10, FS_CardinalityType DEF InWindow
  <1>12. Cap(o, k, hs, r, c, clock, t, peak, restarts)
    BY DEF CapOK
  <1> HIDE DEF k, hs, r, c, b
  <1>13. PICK q \in Nat \ {0}, c2 \in Nat : q = peak' /\ c2 = c'
    BY <1>1, <1>2, <1>11
  <1>14. peak <= q /\ c < q /\ (clock > t => c2 = c)
    BY <1>1, <1>2, <1>11, <1>13
  <1>15. Cap(o, k, hs, r, c2, clock, t, q, restarts)
    BY <1>1, <1>12, <1>14, CapMoreRoom
  <1> QED BY <1>3, <1>11, <1>13, <1>15 DEF CapOK, k, hs, r, c

\* A call is checked: out of the way when the breaker trips, and about to record when
\* the log has less than the cap.
LEMMA CapChecked ==
  ASSUME NEW o \in Nat, NEW k \in Nat, NEW h \in Nat, NEW r \in Nat, NEW c \in Nat \ {0},
         NEW now \in Nat, NEW t \in Nat, NEW p \in Nat \ {0}, NEW lives \in Nat,
         Cap(o, k, h, r, c, now, t, p, lives), r + c <= p
  PROVE  /\ Cap(o, k, h, r, c - 1, now, t, p, lives)
         /\ h < MaxAuto => Cap(o, k, h, r + 1, c - 1, now, t, p, lives)
  <1> USE ConstantTypes
  <1>1. Bound(p) \in Nat /\ MaxAuto + p - 1 <= Bound(p) /\ (Lag # 0 => Bound(p) = MaxAuto + p + p - 2)
    BY BoundGrows
  <1>2. o <= lives * Bound(p) /\ o <= k
    BY DEF Cap
  <1>3. CASE now <= t
    <2>1. k = o + h /\ k + r <= o + MaxAuto + p - 1
      BY <1>3 DEF Cap
    <2>2. h < MaxAuto => k + (r + 1) <= o + MaxAuto + p - 1
      BY <2>1
    <2> QED BY <1>2, <1>3, <2>1, <2>2 DEF Cap
  <1>4. CASE now > t
    <2>1. k + r + c <= o + Bound(p) \/ (Lag # 0 /\ k = o + h /\ c = p /\ k + r + c <= o + MaxAuto + p + p - 1)
      BY <1>4 DEF Cap
    <2>2. k + r + (c - 1) <= o + Bound(p)
      BY <1>1, <2>1
    <2>3. h < MaxAuto => k + (r + 1) + (c - 1) <= o + Bound(p)
      BY <1>1, <2>1
    <2> QED BY <1>2, <1>4, <2>2, <2>3 DEF Cap
  <1> QED BY <1>3, <1>4

\* A decision is recorded, in the window or before it.
LEMMA CapRecorded ==
  ASSUME NEW o \in Nat, NEW k \in Nat, NEW h \in Nat, NEW r \in Nat \ {0}, NEW c \in Nat,
         NEW now \in Nat, NEW t \in Nat, NEW p \in Nat \ {0}, NEW lives \in Nat, NEW d \in {0, 1},
         Cap(o, k, h, r, c, now, t, p, lives)
  PROVE  Cap(o, k + d, h + d, r - 1, c, now, t, p, lives)
  <1> USE ConstantTypes
  <1>1. Bound(p) \in Nat
    BY BoundGrows
  <1> QED BY <1>1 DEF Cap

\* Time passes, and a window may be over.
LEMMA CapTicked ==
  ASSUME NEW o \in Nat, NEW k \in Nat, NEW h \in Nat, NEW r \in Nat, NEW c \in Nat,
         NEW now \in Nat, NEW t \in Nat, NEW p \in Nat \ {0}, NEW lives \in Nat,
         Cap(o, k, h, r, c, now, t, p, lives), r + c <= p, Lag = 0 => r = 0 /\ c = 0
  PROVE  Cap(o, k, h, r, c, now + 1, t, p, lives)
  <1> USE ConstantTypes
  <1>1. Bound(p) \in Nat /\ (Lag # 0 => Bound(p) = MaxAuto + p + p - 2) /\ (Lag = 0 => Bound(p) = MaxAuto + p - 1)
    BY BoundGrows
  <1>2. o <= lives * Bound(p) /\ o <= k
    BY DEF Cap
  <1>3. CASE now > t
    BY <1>3 DEF Cap
  <1>4. CASE now + 1 <= t
    BY <1>4 DEF Cap
  <1>5. CASE now = t
    <2>1. k = o + h /\ k + r <= o + MaxAuto + p - 1
      BY <1>5 DEF Cap
    <2>2. \/ k + r + c <= o + Bound(p)
          \/ Lag # 0 /\ c = p /\ k + r + c <= o + MaxAuto + p + p - 1
      BY <1>1, <2>1
    <2> QED BY <1>2, <1>5, <2>1, <2>2 DEF Cap
  <1> QED BY <1>3, <1>4, <1>5

\* A window never has more than this life's bound on top of the earlier lives'.
LEMMA CapBounds ==
  ASSUME NEW o \in Nat, NEW k \in Nat, NEW h \in Nat, NEW r \in Nat, NEW c \in Nat,
         NEW now \in Nat, NEW t \in Nat, NEW p \in Nat \ {0}, NEW lives \in Nat,
         Cap(o, k, h, r, c, now, t, p, lives)
  PROVE  k <= (lives + 1) * Bound(p)
  <1> USE ConstantTypes
  <1>1. Bound(p) \in Nat /\ MaxAuto + p - 1 <= Bound(p)
    BY BoundGrows
  <1>2. k <= o + Bound(p)
    BY <1>1 DEF Cap
  <1>3. o <= lives * Bound(p)
    BY DEF Cap
  <1>4. \A a, b \in Nat : (a + 1) * b = a * b + b /\ a * b \in Nat
    BY Z3
  <1> QED BY <1>1, <1>2, <1>3, <1>4

\* A restart: what the window has belongs to the past.
LEMMA CapRestarted ==
  ASSUME NEW o \in Nat, NEW k \in Nat, NEW h \in Nat, NEW r \in Nat, NEW c \in Nat,
         NEW now \in Nat, NEW t \in Nat, NEW p \in Nat \ {0}, NEW lives \in Nat,
         Cap(o, k, h, r, c, now, t, p, lives)
  PROVE  Cap(k, k, 0, 0, 0, now, t, p, lives + 1)
  <1> USE ConstantTypes
  <1>1. Bound(p) \in Nat
    BY BoundGrows
  <1>2. k <= (lives + 1) * Bound(p)
    BY CapBounds
  <1> QED BY <1>1, <1>2 DEF Cap

\* The check, for one window. A window that is not over loses nothing to the pruning.
LEMMA CapTripped ==
  ASSUME Base, NEW w \in Workers, Tripped(w),
         NEW s \in Scopes, NEW t \in Times, NEW o \in Nat, CapOK(s, t, o)
  PROVE  CapOK(s, t, o)'
  <1> DEFINE k == InWindow(s, t)
             hs == Size(hits[s], Win(t))
             r == Cardinality(Early("record", s, t))
             c == Cardinality(Early("check", s, t))
             sc == task[w].scope
             n == task[w].now
             recent == Retain(hits[sc], n)
  <1>1. /\ k \in Nat /\ hs \in Nat /\ r \in Nat /\ c \in Nat /\ r + c <= peak
        /\ clock \in Nat /\ peak \in Nat \ {0} /\ restarts \in Nat /\ t \in Nat
        /\ (c = peak => Early("check", s, t) = Busy)
        /\ IsFiniteSet(Early("record", s, t)) /\ IsFiniteSet(Early("check", s, t))
    BY WindowNumbers, ConstantTypes
  <1>2. /\ w \in Busy /\ sc \in Scopes /\ n \in Times /\ task[w].pc = "check"
        /\ hits' = [hits EXCEPT ![sc] = recent] /\ recent \in StampBags
        /\ UNCHANGED <<clock, autos, peak, restarts>>
        /\ \/ task' = [task EXCEPT ![w] = Idle]
           \/ task' = [task EXCEPT ![w] = Call("record", sc, n)] /\ Size(recent, Times) < MaxAuto
    BY TrippedEffect DEF Base
  <1>3. hits[sc] \in StampBags /\ Win(t) \in SUBSET Times
    BY <1>2, WindowNumbers
  <1>4. \A u \in Times : recent[u] = IF u + Window > n THEN hits[sc][u] ELSE 0
    BY <1>2, <1>3, RetainBag
  <1>5. n \in Nat /\ n <= clock
    BY <1>2, ConstantTypes DEF Base, TimeOK
  <1>6. Call("record", sc, n).pc = "record" /\ Call("record", sc, n).scope = sc /\ Call("record", sc, n).now = n
    BY <1>2, CallParts
  <1>7. Cap(o, k, hs, r, c, clock, t, peak, restarts)
    BY DEF CapOK
  <1>8. PICK x : /\ task' = [task EXCEPT ![w] = x]
                 /\ x = Idle \/ (x = Call("record", sc, n) /\ Size(recent, Times) < MaxAuto)
    BY <1>2
  <1>9. \A v \in Workers : task'[v] = IF v = w THEN x ELSE task[v]
    BY <1>8, BusyMoves DEF Base
  <1>10. Idle.pc = "idle"
    BY DEF Idle
  <1>11. hits'[s] = IF s = sc THEN recent ELSE hits[s]
    BY <1>2 DEF Base, TypeOK
  <1>12. k' = k
    BY <1>2 DEF InWindow
  <1> HIDE DEF recent
  <1>13. CASE s = sc /\ n <= t
    <2>1. \A u \in Win(t) : recent[u] = hits[s][u]
      <3> SUFFICES ASSUME NEW u \in Win(t) PROVE u + Window > n
        BY <1>3, <1>4, <1>13
      <3>1. u \in Nat /\ u + Window > t
        BY ConstantTypes DEF Win
      <3> QED BY <1>1, <1>5, <1>13, <3>1, ConstantTypes
    <2>2. Size(recent, Win(t)) = Size(hits[s], Win(t))
      BY <1>2, <1>3, <1>13, <2>1, SizeSame
    <2>3. hs' = hs
      BY <1>11, <1>13, <2>2
    <2>4. w \in Early("check", s, t) /\ w \notin Early("record", s, t)
      BY <1>2, <1>13 DEF Early, Busy
    <2>5. c # 0 /\ Cardinality(Early("check", s, t) \ {w}) = c - 1
      BY <1>1, <2>4, FS_RemoveElement, FS_EmptySet
    <2>6. Early("check", s, t)' = Early("check", s, t) \ {w}
      BY <1>6, <1>8, <1>9, <1>10 DEF Early
    <2>7. CASE x = Idle
      <3>1. Early("record", s, t)' = Early("record", s, t)
        BY <1>9, <1>10, <2>4, <2>7 DEF Early
      <3>2. r' = r /\ c' = c - 1
        BY <2>5, <2>6, <3>1
      <3> HIDE DEF k, hs, r, c
      <3>3. Cap(o, k, hs, r, c - 1, clock, t, peak, restarts)
        BY <1>1, <1>7, <2>5, CapChecked
      <3> QED BY <1>2, <1>12, <2>3, <3>2, <3>3 DEF CapOK, k, hs, r, c
    <2>8. CASE x = Call("record", sc, n) /\ Size(recent, Times) < MaxAuto
      <3>1. Early("record", s, t)' = Early("record", s, t) \cup {w}
        BY <1>6, <1>9, <1>13, <2>8 DEF Early
      <3>2. Cardinality(Early("record", s, t) \cup {w}) = r + 1
        BY <1>1, <2>4, FS_AddElement
      <3>3. r' = r + 1 /\ c' = c - 1
        BY <2>5, <2>6, <3>1, <3>2
      <3>4. Size(recent, Win(t)) <= Size(recent, Times) /\ Size(recent, Times) \in Nat
        <4>1. \A u \in Win(t) \cap Times : recent[u] <= recent[u]
          BY <1>2 DEF StampBags
        <4>2. \A u \in Win(t) : u \in Times
          BY <1>3
        <4> QED BY <1>2, <1>3, <4>1, <4>2, SizeMonotone, StampsFinite
      <3>5. hs < MaxAuto
        BY <1>1, <2>2, <2>8, <3>4, ConstantTypes
      <3> HIDE DEF k, hs, r, c
      <3>6. Cap(o, k, hs, r + 1, c - 1, clock, t, peak, restarts)
        BY <1>1, <1>7, <2>5, <3>5, CapChecked
      <3> QED BY <1>2, <1>12, <2>3, <3>3, <3>6 DEF CapOK, k, hs, r, c
    <2> QED BY <1>8, <2>7, <2>8
  <1>14. CASE ~(s = sc /\ n <= t)
    <2>1. w \notin Early("check", s, t) /\ w \notin Early("record", s, t)
      BY <1>14 DEF Early
    <2>2. Early("check", s, t)' = Early("check", s, t) /\ Early("record", s, t)' = Early("record", s, t)
      BY <1>6, <1>8, <1>9, <1>10, <1>14, <2>1 DEF Early
    <2>3. r' = r /\ c' = c
      BY <2>2
    <2>4. CASE s # sc
      <3>1. hs' = hs
        BY <1>11, <2>4
      <3> QED BY <1>2, <1>7, <1>12, <2>3, <3>1 DEF CapOK
    <2>5. CASE s = sc /\ ~(n <= t)
      <3>1. clock > t /\ c # peak
        BY <1>1, <1>2, <1>5, <2>1, <2>5
      <3>2. Cap(o, k, hs', r, c, clock, t, peak, restarts)
        BY <1>1, <1>7, <3>1 DEF Cap
      <3> QED BY <1>2, <1>12, <2>3, <3>2 DEF CapOK
    <2> QED BY <1>14, <2>4, <2>5
  <1> QED BY <1>13, <1>14

\* The record, for one window: a call that was early adds one, or its time is before it.
LEMMA CapRecord ==
  ASSUME Base, NEW w \in Workers, Record(w),
         NEW s \in Scopes, NEW t \in Times, NEW o \in Nat, CapOK(s, t, o)
  PROVE  CapOK(s, t, o)'
  <1> DEFINE k == InWindow(s, t)
             hs == Size(hits[s], Win(t))
             r == Cardinality(Early("record", s, t))
             c == Cardinality(Early("check", s, t))
             sc == task[w].scope
             n == task[w].now
  <1>1. /\ k \in Nat /\ hs \in Nat /\ r \in Nat /\ c \in Nat
        /\ clock \in Nat /\ peak \in Nat \ {0} /\ restarts \in Nat /\ t \in Nat
        /\ IsFiniteSet(Early("record", s, t))
        /\ hits[s] \in StampBags /\ autos[s] \in StampBags /\ Win(t) \in SUBSET Times
        /\ k = Size(autos[s], Win(t))
    BY WindowNumbers, ConstantTypes
  <1>2. /\ w \in Busy /\ sc \in Scopes /\ n \in Times /\ task[w].pc = "record"
        /\ UNCHANGED <<clock, autoEnabled, peak, restarts>>
        /\ task' = [task EXCEPT ![w] = Idle]
        /\ hits'[s] = IF s = sc THEN [hits[s] EXCEPT ![n] = @ + 1] ELSE hits[s]
        /\ autos'[s] = IF s = sc THEN [autos[s] EXCEPT ![n] = @ + 1] ELSE autos[s]
    BY RecordEffect DEF Base
  <1>2a. /\ Size([autos[s] EXCEPT ![n] = @ + 1], Win(t)) = Size(autos[s], Win(t)) + (IF n \in Win(t) THEN 1 ELSE 0)
         /\ Size([hits[s] EXCEPT ![n] = @ + 1], Win(t)) = Size(hits[s], Win(t)) + (IF n \in Win(t) THEN 1 ELSE 0)
    <2>1. n \in Times
      BY <1>2
    <2> HIDE DEF n
    <2>2. PICK m \in Times, T \in SUBSET Times : m = n /\ T = Win(t)
      BY <1>1, <2>1
    <2>3. \A bag \in StampBags :
            Size([bag EXCEPT ![m] = @ + 1], T) = Size(bag, T) + (IF m \in T THEN 1 ELSE 0)
      BY SizeAdd
    <2> QED BY <1>1, <2>2, <2>3
  <1>3. \A v \in Workers : task'[v] = IF v = w THEN Idle ELSE task[v]
    BY <1>2, BusyMoves DEF Base
  <1>4. Idle.pc = "idle"
    BY DEF Idle
  <1>5. Cap(o, k, hs, r, c, clock, t, peak, restarts)
    BY DEF CapOK
  <1>6. k' = Size(autos'[s], Win(t)) /\ hs' = Size(hits'[s], Win(t))
    BY DEF InWindow, Win
  <1>7. Early("check", s, t)' = Early("check", s, t)
    BY <1>2, <1>3, <1>4 DEF Early
  <1>8. c' = c
    BY <1>7
  <1>9. CASE s = sc /\ n <= t
    <2>1. w \in Early("record", s, t)
      BY <1>2, <1>9 DEF Early, Busy
    <2>2. Early("record", s, t)' = Early("record", s, t) \ {w}
      BY <1>3, <1>4 DEF Early
    <2>3. r # 0 /\ Cardinality(Early("record", s, t) \ {w}) = r - 1
      BY <1>1, <2>1, FS_RemoveElement, FS_EmptySet
    <2>4. r' = r - 1
      BY <2>2, <2>3
    <2>5. PICK d \in {0, 1} : d = IF n \in Win(t) THEN 1 ELSE 0
      OBVIOUS
    <2>6. Size([autos[s] EXCEPT ![n] = @ + 1], Win(t)) = Size(autos[s], Win(t)) + d
      BY <1>2a, <2>5
    <2>7. Size([hits[s] EXCEPT ![n] = @ + 1], Win(t)) = Size(hits[s], Win(t)) + d
      BY <1>2a, <2>5
    <2>8. k' = k + d
      BY <1>1, <1>2, <1>6, <1>9, <2>6
    <2>9. hs' = hs + d
      BY <1>2, <1>6, <1>9, <2>7
    <2> HIDE DEF k, hs, r, c
    <2>10. Cap(o, k + d, hs + d, r - 1, c, clock, t, peak, restarts)
      BY <1>1, <1>5, <2>3, CapRecorded
    <2> QED BY <1>2, <1>8, <2>4, <2>8, <2>9, <2>10 DEF CapOK, k, hs, r, c
  <1>10. CASE ~(s = sc /\ n <= t)
    <2>1. w \notin Early("record", s, t)
      BY <1>10 DEF Early
    <2>2. Early("record", s, t)' = Early("record", s, t)
      BY <1>3, <1>4, <2>1 DEF Early
    <2>3. r' = r
      BY <2>2
    <2>4. k' = k /\ hs' = hs
      <3>1. CASE s # sc
        BY <1>1, <1>2, <1>6, <3>1
      <3>2. CASE s = sc /\ ~(n <= t)
        <4>1. n \notin Win(t)
          BY <3>2 DEF Win
        <4>2. Size([autos[s] EXCEPT ![n] = @ + 1], Win(t)) = Size(autos[s], Win(t)) + 0
          BY <1>2a, <4>1
        <4>3. Size([hits[s] EXCEPT ![n] = @ + 1], Win(t)) = Size(hits[s], Win(t)) + 0
          BY <1>2a, <4>1
        <4> QED BY <1>1, <1>2, <1>6, <3>2, <4>2, <4>3
      <3> QED BY <1>10, <3>1, <3>2
    <2> QED BY <1>2, <1>5, <1>8, <2>3, <2>4 DEF CapOK
  <1> QED BY <1>9, <1>10

\* Time passes, for one window: without lag, nobody is under way.
LEMMA CapTick ==
  ASSUME Base, Tick,
         NEW s \in Scopes, NEW t \in Times, NEW o \in Nat, CapOK(s, t, o)
  PROVE  CapOK(s, t, o)'
  <1> DEFINE k == InWindow(s, t)
             hs == Size(hits[s], Win(t))
             r == Cardinality(Early("record", s, t))
             c == Cardinality(Early("check", s, t))
  <1>1. /\ k \in Nat /\ hs \in Nat /\ r \in Nat /\ c \in Nat /\ r + c <= peak
        /\ r + c <= Cardinality(Busy) /\ Cardinality(Busy) \in Nat
        /\ clock \in Nat /\ peak \in Nat \ {0} /\ restarts \in Nat /\ t \in Nat
    BY WindowNumbers, ConstantTypes
  <1>2. UNCHANGED <<hits, task, autos, peak, restarts>> /\ clock' = clock + 1
    BY DEF Tick
  <1>3. Lag = 0 => r = 0 /\ c = 0
    <2> SUFFICES ASSUME Lag = 0 PROVE r = 0 /\ c = 0
      OBVIOUS
    <2>1. Busy = {}
      <3> SUFFICES ASSUME NEW v \in Busy PROVE FALSE
        OBVIOUS
      <3>1. clock < task[v].now + Lag /\ task[v].now <= clock
        BY DEF Tick, Busy, Base, TimeOK
      <3>2. task[v].now \in Nat
        BY TaskCases, ConstantTypes DEF Base, Busy
      <3> QED BY <1>1, <3>1, <3>2
    <2>2. Cardinality(Busy) = 0
      BY <2>1, FS_EmptySet
    <2> QED BY <1>1, <2>2
  <1>4. k' = k /\ hs' = hs /\ r' = r /\ c' = c
    BY <1>2 DEF InWindow, Early
  <1>5. Cap(o, k, hs, r, c, clock, t, peak, restarts)
    BY DEF CapOK
  <1> HIDE DEF k, hs, r, c
  <1>6. Cap(o, k, hs, r, c, clock + 1, t, peak, restarts)
    BY <1>1, <1>3, <1>5, CapTicked
  <1> QED BY <1>2, <1>4, <1>6 DEF CapOK, k, hs, r, c

\* A restart, for one window.
LEMMA CapRestart ==
  ASSUME Base, Restart,
         NEW s \in Scopes, NEW t \in Times, NEW o \in Nat, CapOK(s, t, o)
  PROVE  \E p \in Nat : CapOK(s, t, p)'
  <1> DEFINE k == InWindow(s, t)
             hs == Size(hits[s], Win(t))
             r == Cardinality(Early("record", s, t))
             c == Cardinality(Early("check", s, t))
  <1>1. /\ k \in Nat /\ hs \in Nat /\ r \in Nat /\ c \in Nat
        /\ clock \in Nat /\ peak \in Nat \ {0} /\ restarts \in Nat /\ t \in Nat
        /\ Win(t) \in SUBSET Times
    BY WindowNumbers, ConstantTypes
  <1>2. /\ UNCHANGED <<clock, autos, peak>> /\ hits' = NoHits /\ task' = [w \in Workers |-> Idle]
        /\ restarts' = restarts + 1
    BY DEF Restart
  <1>3. k' = k
    BY <1>2 DEF InWindow
  <1>4. hs' = 0
    <2>1. hits'[s] = [u \in Times |-> 0]
      BY <1>2 DEF NoHits
    <2>2. hits'[s] \in StampBags /\ \A u \in Win(t) : hits'[s][u] = 0
      BY <1>1, <2>1 DEF StampBags
    <2>3. Size(hits'[s], Win(t)) = 0
      BY <1>1, <2>2, SizePositive
    <2> QED BY <2>3 DEF Win
  <1>5. r' = 0 /\ c' = 0
    <2>1. Early("record", s, t)' = {} /\ Early("check", s, t)' = {}
      BY <1>2 DEF Early, Idle
    <2> QED BY <2>1, FS_EmptySet
  <1>6. Cap(o, k, hs, r, c, clock, t, peak, restarts)
    BY DEF CapOK
  <1>7. PICK p \in Nat : p = k
    BY <1>1
  <1> HIDE DEF k, hs, r, c
  <1>8. Cap(p, k, 0, 0, 0, clock, t, peak, restarts + 1)
    BY <1>1, <1>6, <1>7, CapRestarted
  <1>9. CapOK(s, t, p)'
    BY <1>2, <1>3, <1>4, <1>5, <1>8 DEF CapOK, k, hs, r, c
  <1> QED BY <1>9

\* At the start every window is empty.
LEMMA CapInit == Init => CapInv
  <1> SUFFICES ASSUME Init, NEW s \in Scopes, NEW t \in Times PROVE CapOK(s, t, 0)
    BY DEF CapInv
  <1>1. hits[s] \in StampBags /\ autos[s] \in StampBags /\ Win(t) \in SUBSET Times
        /\ (\A u \in Win(t) : hits[s][u] = 0) /\ (\A u \in Win(t) : autos[s][u] = 0)
    BY DEF Init, NoHits, StampBags, Win
  <1>2. Size(hits[s], Win(t)) = 0 /\ Size(autos[s], Win(t)) = 0
    BY <1>1, SizePositive
  <1>3. InWindow(s, t) = 0
    BY <1>2 DEF InWindow, Win
  <1>4. Early("record", s, t) = {} /\ Early("check", s, t) = {}
    BY DEF Init, Early, Idle
  <1>5. Cap(0, 0, 0, 0, 0, 0, t, 1, 0)
    BY ConstantTypes, BoundGrows DEF Cap
  <1> QED BY <1>2, <1>3, <1>4, <1>5, FS_EmptySet DEF CapOK, Init

\* Every step keeps the cap of every window.
LEMMA CapStep == Base /\ CapInv /\ [Next]_vars => CapInv'
  <1> SUFFICES ASSUME Base, CapInv, [Next]_vars, NEW s \in Scopes, NEW t \in Times
               PROVE  \E o \in Nat : CapOK(s, t, o)'
    BY DEF CapInv
  <1>1. PICK o \in Nat : CapOK(s, t, o)
    BY DEF CapInv
  <1>2. CASE UNCHANGED vars
    <2>1. CapOK(s, t, o)'
      BY <1>1, <1>2 DEF vars, CapOK, InWindow, Early
    <2> QED BY <2>1
  <1>3. CASE Next
    BY <1>1, <1>3, CapEvaluate, CapTripped, CapRecord, CapTick, CapRestart DEF Next
  <1> QED BY <1>2, <1>3

-----------------------------------------------------------------------------
(* Theorems *)

\* The variables hold values of their types.
THEOREM PolicyTypeCorrect == Spec => []TypeOK
  <1>1. Base => TypeOK
    BY DEF Base
  <1> QED BY <1>1, BaseInit, BaseStep, PTL DEF Spec

\* CircuitBreaker::tripped and ::record: in every window of the clock, the auto
\* decisions of a scope are at most max_auto for each life of the server, plus what
\* slips through between the two locks, for any number of concurrent evaluations and
\* however long they take.
THEOREM BreakerBoundsEveryWindow == Spec => []WindowCap
  <1>1. Base /\ CapInv => WindowCap
    <2> SUFFICES ASSUME Base, CapInv, NEW s \in Scopes, NEW t \in Times
                 PROVE  InWindow(s, t) <=
                          IF MaxAuto = 0 THEN 0
                          ELSE (restarts + 1) * (MaxAuto + (IF Lag = 0 THEN 1 ELSE 2) * (peak - 1))
      BY DEF WindowCap
    <2>1. CASE MaxAuto = 0
      <3>1. autos[s] \in StampBags /\ Win(t) \in SUBSET Times /\ InWindow(s, t) = Size(autos[s], Win(t))
        BY WindowNumbers
      <3>2. \A u \in Win(t) : autos[s][u] = 0
        BY <2>1, <3>1 DEF Base, ZeroOK
      <3>3. Size(autos[s], Win(t)) = 0
        BY <3>1, <3>2, SizePositive
      <3> QED BY <2>1, <3>1, <3>3
    <2>2. CASE MaxAuto # 0
      <3> DEFINE k == InWindow(s, t)
                 hs == Size(hits[s], Win(t))
                 r == Cardinality(Early("record", s, t))
                 c == Cardinality(Early("check", s, t))
      <3>1. PICK o \in Nat : Cap(o, k, hs, r, c, clock, t, peak, restarts)
        BY DEF CapInv, CapOK
      <3>2. /\ k \in Nat /\ hs \in Nat /\ r \in Nat /\ c \in Nat
            /\ clock \in Nat /\ peak \in Nat \ {0} /\ restarts \in Nat /\ t \in Nat
        BY WindowNumbers, ConstantTypes
      <3> HIDE DEF k, hs, r, c
      <3>3. k <= (restarts + 1) * Bound(peak)
        BY <3>1, <3>2, CapBounds
      <3>4. Bound(peak) = MaxAuto + (IF Lag = 0 THEN 1 ELSE 2) * (peak - 1)
        BY <3>2, ConstantTypes DEF Bound
      <3> QED BY <2>2, <3>3, <3>4 DEF k
    <2> QED BY <2>1, <2>2
  <1> QED BY <1>1, BaseInit, BaseStep, CapInit, CapStep, PTL DEF Spec

\* PolicyEngine::evaluate: nothing is executed without a human unless the first rule
\* that matches its host and tier says so, and never in the dangerous tier.
THEOREM OnlyAllowedRunsUnattended == Spec => []AutoIsAllowed
  <1>1. Base => AutoIsAllowed
    <2> SUFFICES ASSUME Base, NEW h \in Hosts, NEW t \in Templates,
                        Size(autos[<<h, t>>], Times) > 0
                 PROVE  Allowed(<<h, t>>)
      BY DEF AutoIsAllowed, Allowed
    <2>1. <<h, t>> \in Scopes
      BY DEF Scopes
    <2>2. autos[<<h, t>>] \in StampBags
      BY <2>1 DEF Base, TypeOK, StampBags
    <2>3. ~(\A u \in Times : autos[<<h, t>>][u] = 0)
      BY <2>2, SizePositive
    <2>4. PICK u \in Times : autos[<<h, t>>][u] # 0
      BY <2>3
    <2>5. autos[<<h, t>>][u] > 0
      BY <2>2, <2>4 DEF StampBags
    <2> QED BY <2>1, <2>5 DEF Base, AllowedOK
  <1> QED BY <1>1, BaseInit, BaseStep, PTL DEF Spec

\* CircuitBreaker::tripped: a decision is downgraded only when the caller's window
\* really has max_auto auto decisions; no stale or foreign hit is counted.
THEOREM TripsForAReason == Spec => TripIsJustified
  <1> DEFINE A == \A w \in Workers :
       task[w] # Idle /\ task[w].pc = "check" /\ task'[w] = Idle /\ restarts' = restarts =>
         Size(autos[task[w].scope], {u \in Times : u + Window > task[w].now}) >= MaxAuto
  <1>1. Base /\ Next => A
    <2> SUFFICES ASSUME Base, Next, NEW w \in Workers, task[w] # Idle, task[w].pc = "check",
                        task'[w] = Idle, restarts' = restarts
                 PROVE  Size(autos[task[w].scope], {u \in Times : u + Window > task[w].now}) >= MaxAuto
      OBVIOUS
    <2> DEFINE sc == task[w].scope
               n == task[w].now
               recent == Retain(hits[sc], n)
               T == {u \in Times : u + Window > n}
    <2>1. Tripped(w)
      <3>1. ASSUME NEW v \in Workers, v # w, NEW x, task' = [task EXCEPT ![v] = x] PROVE FALSE
        BY <3>1 DEF Base, TypeOK
      <3>2. ~Tick
        BY DEF Tick
      <3>3. ~Restart
        BY DEF Restart, Base, TypeOK
      <3>4. ASSUME NEW v \in Workers, NEW h \in Hosts, NEW t \in Templates, Evaluate(v, h, t) PROVE FALSE
        BY <3>1, <3>4 DEF Evaluate
      <3>5. ASSUME NEW v \in Workers, Record(v) PROVE FALSE
        <4>1. v # w
          BY <3>5 DEF Record
        <4> QED BY <3>1, <3>5, <4>1 DEF Record
      <3>6. ASSUME NEW v \in Workers, Tripped(v) PROVE v = w
        BY <3>1, <3>6 DEF Tripped
      <3> QED BY <3>2, <3>3, <3>4, <3>5, <3>6 DEF Next
    <2>2. /\ sc \in Scopes /\ n \in Times /\ recent \in StampBags
          /\ \/ task' = [task EXCEPT ![w] = Idle] /\ Size(recent, Times) >= MaxAuto
             \/ task' = [task EXCEPT ![w] = Call("record", sc, n)]
      BY <2>1, TrippedEffect DEF Base
    <2>3. Call("record", sc, n) # Idle
      BY <2>2, CallParts
    <2>4. Size(recent, Times) >= MaxAuto
      BY <2>2, <2>3 DEF Base, TypeOK
    <2>5. hits[sc] \in StampBags /\ autos[sc] \in StampBags
      BY <2>2 DEF Base, TypeOK, StampBags
    <2>6. \A u \in Times : recent[u] = IF u + Window > n THEN hits[sc][u] ELSE 0
      BY <2>2, <2>5, RetainBag
    <2>7. \A u \in Times : hits[sc][u] <= autos[sc][u]
      BY <2>2 DEF Base, HitsOK
    <2>8. /\ T \in SUBSET Times
          /\ \A u \in Times : u \in T \/ recent[u] = 0
          /\ \A u \in Times \cap T : recent[u] <= autos[sc][u]
      BY <2>6, <2>7
    <2> HIDE DEF recent, sc, T
    <2>9. Size(recent, Times) <= Size(autos[sc], T) /\ Size(recent, Times) \in Nat /\ Size(autos[sc], T) \in Nat
      BY <2>2, <2>5, <2>8, SizeMonotone, StampsFinite
    <2>10. Size(autos[sc], T) >= MaxAuto
      BY <2>4, <2>9, ConstantTypes
    <2> QED BY <2>10 DEF sc, T
  <1>2. Base /\ [Next]_vars => [A]_vars
    BY <1>1
  <1>3. Spec => [][A]_vars
    BY <1>2, BaseInit, BaseStep, PTL DEF Spec
  <1> QED BY <1>3, PTL DEF TripIsJustified

=============================================================================
