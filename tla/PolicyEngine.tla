---------------------------- MODULE PolicyEngine ----------------------------
(***************************************************************************)
(* The decision point of autonomous remediation (ravn-server policy.rs):   *)
(* the ordered rules, the kill switch, the dangerous tier, and the         *)
(* per-(host, template) circuit breaker, called by concurrent prepare      *)
(* tasks. CircuitBreaker::tripped and ::record take the lock of the hit    *)
(* log one after the other, so two evaluations can interleave between      *)
(* them; each uses the time its caller read before it called evaluate.     *)
(*                                                                         *)
(* The timestamps of a scope are a bag: hits[s][t] of them are t. A glob   *)
(* is the set of hosts it matches (module GlobMatch).                      *)
(***************************************************************************)
EXTENDS Naturals, Sequences, FiniteSetsExt

CONSTANTS
  Hosts, Templates, Workers,
  TierOf,      \* template -> its risk tier
  Rules,       \* the policy file: a sequence of [hosts, tier, decision]
  MaxAuto,     \* CircuitBreaker.max_auto
  Window,      \* CircuitBreaker.window, in ticks
  Lag,         \* the ticks a call of evaluate may take (it never awaits)
  MaxTime,     \* bound on the clock
  MaxRestarts  \* bound on the restarts of the server

Tiers == {"safe", "guarded", "dangerous"}
Decisions == {"auto", "approve", "forbid"}

ASSUME PolicyAssumption ==
  /\ TierOf \in [Templates -> Tiers]
  /\ Rules \in Seq([hosts : SUBSET Hosts, tier : Tiers, decision : Decisions])
  /\ MaxAuto \in Nat /\ Window \in Nat /\ Lag \in Nat /\ MaxTime \in Nat /\ MaxRestarts \in Nat

Times == 0..MaxTime
Scopes == Hosts \X Templates

VARIABLES
  clock,        \* wall-clock time
  autoEnabled,  \* PolicyEngine.auto_enabled, read from the environment at startup
  hits,         \* CircuitBreaker.hits: scope -> bag of timestamps
  task,         \* worker -> where its call of evaluate is
  autos,        \* every auto decision ever returned: scope -> bag of timestamps
  peak,         \* the most calls of evaluate that were ever under way together
  restarts

vars == <<clock, autoEnabled, hits, task, autos, peak, restarts>>

Idle == [pc |-> "idle"]
Call(pc, s, now) == [pc |-> pc, scope |-> s, now |-> now]
Calls == {Call(pc, s, now) : pc \in {"check", "record"}, s \in Scopes, now \in Times}

\* The variables hold values of their types.
TypeOK ==
  /\ clock \in Times
  /\ autoEnabled \in BOOLEAN
  /\ hits \in [Scopes -> [Times -> Nat]]
  /\ task \in [Workers -> Calls \cup {Idle}]
  /\ autos \in [Scopes -> [Times -> Nat]]
  /\ peak \in Nat \ {0}
  /\ restarts \in 0..MaxRestarts

NoHits == [s \in Scopes |-> [t \in Times |-> 0]]

Init ==
  /\ clock = 0
  /\ autoEnabled \in BOOLEAN
  /\ hits = NoHits
  /\ task = [w \in Workers |-> Idle]
  /\ autos = NoHits
  /\ peak = 1
  /\ restarts = 0

-----------------------------------------------------------------------------
Matching(h, tier) == {i \in DOMAIN Rules : h \in Rules[i].hosts /\ Rules[i].tier = tier}

\* (mutation of Decide: the last matching rule wins)
DecideLast(h, tier) ==
  IF Matching(h, tier) = {} THEN "approve" ELSE Rules[Max(Matching(h, tier))].decision

\* Policy::decide: the first matching rule wins; no rule means approval.
Decide(h, tier) ==
  IF Matching(h, tier) = {} THEN "approve" ELSE Rules[Min(Matching(h, tier))].decision

\* What the guardrails in front of the breaker leave of the rule's decision.
Guarded(h, tier) ==
  LET d == Decide(h, tier) IN
  IF d = "auto" /\ (~autoEnabled \/ tier = "dangerous") THEN "approve" ELSE d

\* Vec::retain of the timestamps after now - window.
Retain(bag, now) == [t \in Times |-> IF t + Window > now THEN bag[t] ELSE 0]

\* The timestamps of a bag that are among some times, and Vec::len of them.
Stamps(bag, times) == UNION {{t} \X (1..bag[t]) : t \in times}
Size(bag, times) == Cardinality(Stamps(bag, times))

-----------------------------------------------------------------------------
\* The caller reads the time and calls evaluate. Anything but `auto` is final and
\* leaves the engine as it was.
Evaluate(w, h, t) ==
  /\ task[w] = Idle
  /\ Guarded(h, TierOf[t]) = "auto"
  /\ task' = [task EXCEPT ![w] = Call("check", <<h, t>>, clock)]
  /\ peak' = Max({peak, 1 + Cardinality({v \in Workers : task[v] # Idle})})
  /\ UNCHANGED <<clock, autoEnabled, hits, autos, restarts>>

\* (mutation of Tripped: aged-out timestamps are counted before they are pruned)
TrippedUnpruned(w) ==
  LET c == task[w] IN
  /\ c.pc = "check"
  /\ hits' = [hits EXCEPT ![c.scope] = Retain(@, c.now)]
  /\ task' = [task EXCEPT ![w] =
       IF Size(hits[c.scope], Times) >= MaxAuto THEN Idle ELSE [c EXCEPT !.pc = "record"]]
  /\ UNCHANGED <<clock, autoEnabled, autos, peak, restarts>>

\* CircuitBreaker::tripped: prune, count; at the cap the decision is downgraded
\* to `approve` and the call returns.
Tripped(w) ==
  LET c == task[w]
      recent == Retain(hits[c.scope], c.now)
  IN
  /\ c.pc = "check"
  /\ hits' = [hits EXCEPT ![c.scope] = recent]
  /\ task' = [task EXCEPT ![w] =
       IF Size(recent, Times) >= MaxAuto THEN Idle ELSE [c EXCEPT !.pc = "record"]]
  /\ UNCHANGED <<clock, autoEnabled, autos, peak, restarts>>

\* (mutation of Record: the decision is returned without logging the hit)
RecordNothing(w) ==
  LET c == task[w] IN
  /\ c.pc = "record"
  /\ autos' = [autos EXCEPT ![c.scope][c.now] = @ + 1]
  /\ task' = [task EXCEPT ![w] = Idle]
  /\ UNCHANGED <<clock, autoEnabled, hits, peak, restarts>>

\* CircuitBreaker::record, and evaluate returns `auto`.
Record(w) ==
  LET c == task[w] IN
  /\ c.pc = "record"
  /\ hits' = [hits EXCEPT ![c.scope][c.now] = @ + 1]
  /\ autos' = [autos EXCEPT ![c.scope][c.now] = @ + 1]
  /\ task' = [task EXCEPT ![w] = Idle]
  /\ UNCHANGED <<clock, autoEnabled, peak, restarts>>

\* Time passes, but a call under way is at most Lag ticks old.
Tick ==
  /\ clock < MaxTime
  /\ \A w \in Workers : task[w] # Idle => clock < task[w].now + Lag
  /\ clock' = clock + 1
  /\ UNCHANGED <<autoEnabled, hits, task, autos, peak, restarts>>

\* The hit log is in memory only; the kill switch is read again.
Restart ==
  /\ restarts < MaxRestarts
  /\ restarts' = restarts + 1
  /\ autoEnabled' \in BOOLEAN
  /\ hits' = NoHits
  /\ task' = [w \in Workers |-> Idle]
  /\ UNCHANGED <<clock, autos, peak>>

Next ==
  \/ \E w \in Workers :
       \/ \E h \in Hosts, t \in Templates : Evaluate(w, h, t)
       \/ Tripped(w) \/ Record(w)
  \/ Tick \/ Restart

Spec == Init /\ [][Next]_vars

-----------------------------------------------------------------------------
(* Properties *)

\* The auto decisions of a scope in the window that ends at time t.
InWindow(s, t) == Size(autos[s], {u \in Times : u <= t /\ u + Window > t})

\* CircuitBreaker: "at most `max_auto` auto-executions within `window`", in every
\* window of the clock, is what holds while calls of evaluate do not overlap and the
\* server is not restarted. Each call that ran beside another can slip one more
\* through between `tripped` and `record`, and one more if calls can lag, because a
\* later caller prunes hits that an earlier one should still have counted; every
\* restart starts afresh. How long a call takes does not matter, not even when it is
\* longer than the window: only the calls under way when a window ends can add to it.
WindowCap ==
  LET slack == (IF Lag = 0 THEN 1 ELSE 2) * (peak - 1) IN
  \A s \in Scopes, t \in Times :
    InWindow(s, t) <= IF MaxAuto = 0 THEN 0 ELSE (restarts + 1) * (MaxAuto + slack)

\* The breaker trips only if the cap is really reached: in the window of the
\* caller there are max_auto auto decisions or more. A stale or foreign hit never
\* downgrades a decision.
TripIsJustified ==
  [][\A w \in Workers :
       task[w] # Idle /\ task[w].pc = "check" /\ task'[w] = Idle /\ restarts' = restarts =>
         Size(autos[task[w].scope], {u \in Times : u + Window > task[w].now}) >= MaxAuto]_vars

\* Nothing is executed without a human unless the first rule that matches its host
\* and tier says so, and never in the dangerous tier.
AutoIsAllowed ==
  \A h \in Hosts, t \in Templates :
    Size(autos[<<h, t>>], Times) > 0 =>
      /\ TierOf[t] # "dangerous"
      /\ \E i \in DOMAIN Rules :
           /\ h \in Rules[i].hosts /\ Rules[i].tier = TierOf[t] /\ Rules[i].decision = "auto"
           /\ \A j \in 1..(i - 1) : ~(h \in Rules[j].hosts /\ Rules[j].tier = TierOf[t])
=============================================================================
