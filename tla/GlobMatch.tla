----------------------------- MODULE GlobMatch -----------------------------
(***************************************************************************)
(* glob_match (ravn-server policy.rs), the two-pointer wildcard match that *)
(* decides which hosts a policy rule is about, one action per turn of its  *)
(* loop, against the meaning of `*` (any run) and `?` (any one character). *)
(*                                                                         *)
(* Characters are model values; hosts are built from Letters, so that no   *)
(* host contains a `*`, a pattern also from the two wildcards.             *)
(***************************************************************************)
EXTENDS Naturals, Sequences

CONSTANTS
  Letters,      \* the characters of a host name
  Star, Quest,  \* `*` and `?`
  MaxPattern, MaxText,  \* bounds on the lengths
  None          \* star = None

ASSUME GlobAssumption ==
  /\ Star \notin Letters /\ Quest \notin Letters /\ Star # Quest
  /\ MaxPattern \in Nat /\ MaxText \in Nat
  /\ None \notin Nat

VARIABLES p, t,         \* the arguments
          pi, ti,       \* the two pointers, as in the code, from 0
          star, starTi, \* where the last `*` is, and up to where it has eaten
          answer        \* "none" while the loop runs

globVars == <<p, t, pi, ti, star, starTi, answer>>

Strings(S, n) == UNION {[1..k -> S] : k \in 0..n}

\* p[i] of the code: sequences start at 1.
P(i) == p[i + 1]
T(i) == t[i + 1]

GlobInit ==
  /\ p \in Strings(Letters \cup {Star, Quest}, MaxPattern)
  /\ t \in Strings(Letters, MaxText)
  /\ pi = 0 /\ ti = 0 /\ star = None /\ starTi = 0
  /\ answer = "none"

Looping == answer = "none" /\ ti < Len(t)
Literal == pi < Len(p) /\ (P(pi) = Quest \/ P(pi) = T(ti))
AtStar  == pi < Len(p) /\ P(pi) = Star

\* One character of the text is matched.
Advance ==
  /\ Looping /\ Literal
  /\ pi' = pi + 1 /\ ti' = ti + 1
  /\ UNCHANGED <<p, t, star, starTi, answer>>

\* A `*` is met: for now it stands for nothing.
MeetStar ==
  /\ Looping /\ ~Literal /\ AtStar
  /\ star' = pi /\ starTi' = ti /\ pi' = pi + 1
  /\ UNCHANGED <<p, t, ti, answer>>

\* (mutation of Backtrack: the last `*` does not eat another character)
BacktrackInPlace ==
  /\ Looping /\ ~Literal /\ ~AtStar /\ star # None
  /\ pi' = star + 1
  /\ ti' = starTi
  /\ UNCHANGED <<p, t, star, starTi, answer>>

\* A mismatch: the last `*` eats one character more.
Backtrack ==
  /\ Looping /\ ~Literal /\ ~AtStar /\ star # None
  /\ pi' = star + 1
  /\ starTi' = starTi + 1
  /\ ti' = starTi + 1
  /\ UNCHANGED <<p, t, star, answer>>

\* A mismatch and no `*` to blame.
Fail ==
  /\ Looping /\ ~Literal /\ ~AtStar /\ star = None
  /\ answer' = "no"
  /\ UNCHANGED <<p, t, pi, ti, star, starTi>>

\* (mutation of Finish: trailing `*`s of the pattern are not skipped)
FinishStrict ==
  /\ answer = "none" /\ ti = Len(t)
  /\ answer' = IF pi = Len(p) THEN "yes" ELSE "no"
  /\ UNCHANGED <<p, t, pi, ti, star, starTi>>

\* The text is used up: what is left of the pattern must be `*`s.
Finish ==
  /\ answer = "none" /\ ti = Len(t)
  /\ answer' = IF \A i \in pi..(Len(p) - 1) : P(i) = Star THEN "yes" ELSE "no"
  /\ UNCHANGED <<p, t, pi, ti, star, starTi>>

GlobNext == Advance \/ MeetStar \/ Backtrack \/ Fail \/ Finish

-----------------------------------------------------------------------------
(* Properties *)

\* The character i of the pattern stands for the text from a up to b.
Covers(i, a, b) ==
  IF P(i) = Star THEN a <= b ELSE b = a + 1 /\ (P(i) = Quest \/ P(i) = T(a))

\* The meaning of a glob: the text can be cut so that each character of the pattern
\* stands for its piece of it, the character i for the one from cut[i] to cut[i + 1].
Meaning ==
  \E cut \in [0..Len(p) -> 0..Len(t)] :
    /\ cut[0] = 0 /\ cut[Len(p)] = Len(t)
    /\ \A i \in 0..(Len(p) - 1) : Covers(i, cut[i], cut[i + 1])

\* glob_match answers what `*` and `?` mean: falling back to the last `*` only is
\* enough, and no rule ever covers a host it should not.
GlobIsRight == answer # "none" => (answer = "yes") = Meaning

\* The loop ends for every pattern and host.
GlobEnds == <>(answer # "none")
=============================================================================
