-------------------------- MODULE GlobMatchProofs --------------------------
(***************************************************************************)
(* glob_match answers what a glob means, for every pattern and every text. *)
(* What has to be shown is that going back to the last `*` alone loses     *)
(* nothing, although the earlier ones stay as short as they were when the  *)
(* next `*` was met.                                                       *)
(***************************************************************************)
EXTENDS GlobMatch, SequenceTheorems, WellFoundedInduction, TLAPS

USE GlobAssumption

GlobSpec == GlobInit /\ [][GlobNext]_globVars

GlobTypeOK ==
  /\ p \in Seq(Letters \cup {Star, Quest}) /\ t \in Seq(Letters)
  /\ pi \in 0..Len(p) /\ ti \in 0..Len(t)
  /\ star # None => star \in Nat /\ star < pi /\ P(star) = Star
  /\ starTi \in Nat /\ starTi <= ti
  /\ answer \in {"none", "yes", "no"}

\* The ways to cut the text, those that fit the first k characters of the pattern, and
\* those that fit all of it.
Cuts == [0..Len(p) -> 0..Len(t)]
Fits(h, k) == h[0] = 0 /\ \A i \in 0..(k - 1) : Covers(i, h[i], h[i + 1])
Full(h) == Fits(h, Len(p)) /\ h[Len(p)] = Len(t)

(***************************************************************************)
(* The inductive invariant. Sound: the text up to ti has been matched by   *)
(* the pattern up to pi, and up to the last `*` by no more than starTi.    *)
(* Complete: no way to match all of the text ends the last `*`, or the     *)
(* pattern up to pi, before where the loop is; and one that ends the `*`   *)
(* there has gone the loop's way since.                                    *)
(***************************************************************************)
Sound ==
  /\ answer = "none" => \E h \in Cuts : Fits(h, pi) /\ h[pi] = ti
  /\ star # None => \E h \in Cuts : Fits(h, star) /\ h[star] <= starTi

Complete ==
  \A h \in Cuts : Full(h) =>
    IF star = None THEN h[pi] = ti
    ELSE /\ h[star + 1] >= starTi /\ h[pi] >= ti
         /\ h[star + 1] = starTi => h[pi] = ti

GlobInv == GlobTypeOK /\ Sound /\ Complete /\ GlobIsRight

\* The meaning of a glob in these terms.
LEMMA MeaningIsFull == Meaning <=> \E h \in Cuts : Full(h)
BY DEF Meaning, Cuts, Full, Fits

\* The lengths and the characters.
LEMMA Lengths ==
  ASSUME GlobTypeOK
  PROVE  /\ Len(p) \in Nat /\ Len(t) \in Nat /\ pi \in Nat /\ ti \in Nat
         /\ pi <= Len(p) /\ ti <= Len(t)
         /\ \A i \in Nat : i < Len(t) => T(i) # Star
<1>1. p \in Seq(Letters \cup {Star, Quest}) /\ t \in Seq(Letters)
  BY DEF GlobTypeOK
<1>2. Len(p) \in Nat /\ Len(t) \in Nat
  BY <1>1, LenProperties
<1>3. ASSUME NEW i \in Nat, i < Len(t) PROVE T(i) # Star
  <2>1. i + 1 \in 1..Len(t)
    BY <1>2, <1>3
  <2>2. t[i + 1] \in Letters
    BY <1>1, <2>1, ElementOfSeq
  <2> QED BY <2>2 DEF T
<1> QED BY <1>2, <1>3 DEF GlobTypeOK

\* A cut is made of numbers.
LEMMA CutsAreNumbers ==
  ASSUME GlobTypeOK, NEW h \in Cuts, NEW i \in 0..Len(p)
  PROVE  h[i] \in Nat /\ h[i] <= Len(t)
BY Lengths DEF Cuts

\* What a character of the pattern does to a way to match all of it.
LEMMA FullStep ==
  ASSUME GlobTypeOK, NEW h \in Cuts, Full(h), NEW i \in Nat, i < Len(p)
  PROVE  /\ h[i] \in Nat /\ h[i] <= Len(t) /\ h[i + 1] \in Nat /\ h[i + 1] <= Len(t)
         /\ P(i) = Star => h[i] <= h[i + 1]
         /\ P(i) # Star => h[i + 1] = h[i] + 1 /\ (P(i) = Quest \/ P(i) = T(h[i]))
<1>1. i \in 0..Len(p) /\ i + 1 \in 0..Len(p) /\ i \in 0..(Len(p) - 1)
  BY Lengths
<1>2. Covers(i, h[i], h[i + 1])
  BY <1>1 DEF Full, Fits
<1> QED BY <1>1, <1>2, CutsAreNumbers DEF Covers

-----------------------------------------------------------------------------
(* Steps *)

LEMMA GlobInitInv == GlobInit => GlobInv
<1> SUFFICES ASSUME GlobInit PROVE GlobInv
  OBVIOUS
<1>1. pi = 0 /\ ti = 0 /\ star = None /\ starTi = 0 /\ answer = "none"
  BY DEF GlobInit
<1>2. p \in Seq(Letters \cup {Star, Quest}) /\ t \in Seq(Letters)
  <2>1. ASSUME NEW S, NEW n \in Nat, NEW s \in Strings(S, n) PROVE s \in Seq(S)
    <3>1. PICK k \in 0..n : s \in [1..k -> S]
      BY DEF Strings
    <3>2. k \in Nat
      OBVIOUS
    <3> QED BY <3>1, <3>2, IsASeq
  <2> QED BY <2>1 DEF GlobInit
<1>3. Len(p) \in Nat /\ Len(t) \in Nat
  BY <1>2, LenProperties
<1>4. GlobTypeOK
  BY <1>1, <1>2, <1>3 DEF GlobTypeOK
<1>5. Sound
  <2>1. PICK h : h = [i \in 0..Len(p) |-> 0]
    OBVIOUS
  <2>2. h \in Cuts /\ h[0] = 0
    BY <1>3, <2>1 DEF Cuts
  <2>3. Fits(h, 0)
    BY <2>2 DEF Fits
  <2> QED BY <1>1, <2>2, <2>3 DEF Sound
<1>6. Complete
  BY <1>1 DEF Complete, Full, Fits
<1>7. GlobIsRight
  BY <1>1 DEF GlobIsRight
<1> QED BY <1>4, <1>5, <1>6, <1>7 DEF GlobInv

\* The arguments do not change, and so neither do the ways to match.
LEMMA SameArguments ==
  ASSUME UNCHANGED <<p, t>>
  PROVE  /\ Cuts' = Cuts /\ Meaning' = Meaning
         /\ \A i : P(i)' = P(i) /\ T(i)' = T(i)
         /\ \A h, k : Fits(h, k)' = Fits(h, k) /\ Full(h)' = Full(h)
BY DEF Cuts, Meaning, P, T, Fits, Full, Covers

LEMMA AdvanceInv == ASSUME GlobInv, Advance PROVE GlobInv'
<1>0. GlobTypeOK /\ Sound /\ Complete
  BY DEF GlobInv
<1>1. /\ answer = "none" /\ ti < Len(t) /\ pi < Len(p) /\ (P(pi) = Quest \/ P(pi) = T(ti))
      /\ pi' = pi + 1 /\ ti' = ti + 1 /\ UNCHANGED <<p, t, star, starTi, answer>>
  BY DEF Advance, Looping, Literal
<1>2. Len(p) \in Nat /\ Len(t) \in Nat /\ pi \in Nat /\ ti \in Nat /\ P(pi) # Star
  BY <1>0, <1>1, Lengths
<1>3. GlobTypeOK'
  <2>1. pi' \in 0..Len(p) /\ ti' \in 0..Len(t) /\ starTi <= ti'
    BY <1>0, <1>1, <1>2 DEF GlobTypeOK
  <2>2. star # None => star \in Nat /\ star < pi' /\ P(star) = Star
    BY <1>0, <1>1, <1>2 DEF GlobTypeOK
  <2> QED BY <1>0, <1>1, <2>1, <2>2 DEF GlobTypeOK, P
<1>4. Sound'
  <2>1. PICK h \in Cuts : Fits(h, pi) /\ h[pi] = ti
    BY <1>0, <1>1 DEF Sound
  <2>2. PICK g : g = [h EXCEPT ![pi + 1] = ti + 1]
    OBVIOUS
  <2>3. g \in Cuts /\ g[pi + 1] = ti + 1 /\ \A i \in 0..pi : g[i] = h[i]
    BY <1>1, <1>2, <2>2 DEF Cuts
  <2>4. ASSUME NEW i \in 0..pi PROVE Covers(i, g[i], g[i + 1])
    <3>1. CASE i = pi
      BY <1>1, <1>2, <2>1, <2>3, <3>1 DEF Covers
    <3>2. CASE i # pi
      <4>1. i \in 0..(pi - 1) /\ i + 1 \in 0..pi
        BY <1>2, <3>2
      <4>2. g[i] = h[i] /\ g[i + 1] = h[i + 1]
        BY <2>3, <4>1
      <4> QED BY <2>1, <4>1, <4>2 DEF Fits
    <3> QED BY <3>1, <3>2
  <2>5. Fits(g, pi + 1)
    <3>1. (pi + 1) - 1 = pi /\ 0 \in 0..pi
      BY <1>2
    <3> QED BY <2>1, <2>3, <2>4, <3>1 DEF Fits
  <2> QED BY <1>0, <1>1, <2>3, <2>5, SameArguments DEF Sound
<1>5. Complete'
  <2> SUFFICES ASSUME NEW h \in Cuts, Full(h)
               PROVE  IF star = None THEN h[pi'] = ti'
                      ELSE /\ h[star + 1] >= starTi /\ h[pi'] >= ti'
                           /\ h[star + 1] = starTi => h[pi'] = ti'
    BY <1>1, SameArguments DEF Complete
  <2>1. h[pi + 1] = h[pi] + 1 /\ h[pi] \in Nat
    BY <1>0, <1>1, <1>2, FullStep
  <2> QED BY <1>0, <1>1, <1>2, <2>1 DEF Complete
<1>6. GlobIsRight'
  BY <1>1 DEF GlobIsRight
<1> QED BY <1>3, <1>4, <1>5, <1>6 DEF GlobInv

LEMMA MeetStarInv == ASSUME GlobInv, MeetStar PROVE GlobInv'
<1>0. GlobTypeOK /\ Sound /\ Complete
  BY DEF GlobInv
<1>1. /\ answer = "none" /\ pi < Len(p) /\ P(pi) = Star
      /\ star' = pi /\ starTi' = ti /\ pi' = pi + 1 /\ UNCHANGED <<p, t, ti, answer>>
  BY DEF MeetStar, Looping, AtStar
<1>2. Len(p) \in Nat /\ Len(t) \in Nat /\ pi \in Nat /\ ti \in Nat /\ star' # None
  BY <1>0, <1>1, Lengths
<1>3. GlobTypeOK'
  BY <1>0, <1>1, <1>2 DEF GlobTypeOK, P
<1>4. Sound'
  <2>1. PICK h \in Cuts : Fits(h, pi) /\ h[pi] = ti
    BY <1>0, <1>1 DEF Sound
  <2>2. PICK g : g = [h EXCEPT ![pi + 1] = ti]
    OBVIOUS
  <2>3. g \in Cuts /\ g[pi + 1] = ti /\ \A i \in 0..pi : g[i] = h[i]
    BY <1>0, <1>1, <1>2, <2>2 DEF Cuts, GlobTypeOK
  <2>4. ASSUME NEW i \in 0..pi PROVE Covers(i, g[i], g[i + 1])
    <3>1. CASE i = pi
      BY <1>1, <1>2, <2>1, <2>3, <3>1 DEF Covers
    <3>2. CASE i # pi
      <4>1. i \in 0..(pi - 1) /\ i + 1 \in 0..pi
        BY <1>2, <3>2
      <4>2. g[i] = h[i] /\ g[i + 1] = h[i + 1]
        BY <2>3, <4>1
      <4> QED BY <2>1, <4>1, <4>2 DEF Fits
    <3> QED BY <3>1, <3>2
  <2>5. Fits(g, pi + 1)
    <3>1. (pi + 1) - 1 = pi /\ 0 \in 0..pi
      BY <1>2
    <3> QED BY <2>1, <2>3, <2>4, <3>1 DEF Fits
  <2>6. h[pi] <= ti
    BY <1>2, <2>1
  <2> QED BY <1>1, <2>1, <2>3, <2>5, <2>6, SameArguments DEF Sound
<1>5. Complete'
  <2> SUFFICES ASSUME NEW h \in Cuts, Full(h) PROVE h[pi + 1] >= ti
    BY <1>1, <1>2, SameArguments DEF Complete
  <2>1. h[pi] <= h[pi + 1] /\ h[pi] \in Nat /\ h[pi + 1] \in Nat
    BY <1>0, <1>1, <1>2, FullStep
  <2>2. h[pi] >= ti
    BY <1>0, <1>2 DEF Complete
  <2> QED BY <1>2, <2>1, <2>2
<1>6. GlobIsRight'
  BY <1>1 DEF GlobIsRight
<1> QED BY <1>3, <1>4, <1>5, <1>6 DEF GlobInv

\* At a mismatch, no way to match all of the text has come here.
LEMMA Mismatch ==
  ASSUME GlobTypeOK, Looping, ~Literal, ~AtStar, NEW h \in Cuts, Full(h)
  PROVE  h[pi] # ti
<1> SUFFICES ASSUME h[pi] = ti PROVE FALSE
  OBVIOUS
<1>1. Len(p) \in Nat /\ Len(t) \in Nat /\ pi \in Nat /\ ti \in Nat /\ pi <= Len(p) /\ ti < Len(t)
  BY Lengths DEF Looping
<1>2. CASE pi = Len(p)
  BY <1>1, <1>2 DEF Full
<1>3. CASE pi # Len(p)
  <2>1. pi < Len(p)
    BY <1>1, <1>3
  <2> QED BY <1>1, <2>1, FullStep DEF Literal, AtStar
<1> QED BY <1>2, <1>3

LEMMA BacktrackInv == ASSUME GlobInv, Backtrack PROVE GlobInv'
<1>0. GlobTypeOK /\ Sound /\ Complete
  BY DEF GlobInv
<1>1. /\ Looping /\ ~Literal /\ ~AtStar /\ star # None /\ answer = "none" /\ ti < Len(t)
      /\ pi' = star + 1 /\ starTi' = starTi + 1 /\ ti' = starTi + 1
      /\ UNCHANGED <<p, t, star, answer>>
  BY DEF Backtrack, Looping
<1>2. /\ Len(p) \in Nat /\ Len(t) \in Nat /\ star \in Nat /\ star < Len(p) /\ P(star) = Star
      /\ starTi \in Nat /\ starTi < Len(t)
  BY <1>0, <1>1, Lengths DEF GlobTypeOK
<1>3. GlobTypeOK'
  BY <1>0, <1>1, <1>2 DEF GlobTypeOK, P
<1>4. PICK h \in Cuts : Fits(h, star) /\ h[star] <= starTi
  BY <1>0, <1>1 DEF Sound
<1>h. h[star] \in Nat /\ h[star] <= starTi + 1
  BY <1>0, <1>2, <1>4, CutsAreNumbers
<1>5. Sound'
  <2>2. PICK g : g = [h EXCEPT ![star + 1] = starTi + 1]
    OBVIOUS
  <2>3. g \in Cuts /\ g[star + 1] = starTi + 1 /\ \A i \in 0..star : g[i] = h[i]
    BY <1>2, <2>2 DEF Cuts
  <2>4. ASSUME NEW i \in 0..star PROVE Covers(i, g[i], g[i + 1])
    <3>1. CASE i = star
      BY <1>2, <1>h, <2>3, <3>1 DEF Covers
    <3>2. CASE i # star
      <4>1. i \in 0..(star - 1) /\ i + 1 \in 0..star
        BY <1>2, <3>2
      <4>2. g[i] = h[i] /\ g[i + 1] = h[i + 1]
        BY <2>3, <4>1
      <4> QED BY <1>4, <4>1, <4>2 DEF Fits
    <3> QED BY <3>1, <3>2
  <2>5. Fits(g, star + 1)
    <3>1. (star + 1) - 1 = star /\ 0 \in 0..star
      BY <1>2
    <3> QED BY <1>4, <2>3, <2>4, <3>1 DEF Fits
  <2> QED BY <1>1, <1>4, <1>h, <2>3, <2>5, SameArguments DEF Sound
<1>6. Complete'
  <2> SUFFICES ASSUME NEW k \in Cuts, Full(k) PROVE k[star + 1] >= starTi + 1
    BY <1>1, SameArguments DEF Complete
  <2>1. k[pi] # ti
    BY <1>0, <1>1, Mismatch
  <2>2. k[star + 1] >= starTi /\ k[star + 1] # starTi
    BY <1>0, <1>1, <2>1 DEF Complete
  <2>3. k[star + 1] \in Nat
    BY <1>0, <1>2, FullStep
  <2> QED BY <1>2, <2>2, <2>3
<1>7. GlobIsRight'
  BY <1>1 DEF GlobIsRight
<1> QED BY <1>3, <1>5, <1>6, <1>7 DEF GlobInv

\* A step that only answers, and answers right.
LEMMA AnswerInv ==
  ASSUME GlobInv, UNCHANGED <<p, t, pi, ti, star, starTi>>, answer' \in {"yes", "no"},
         (answer' = "yes") <=> Meaning
  PROVE  GlobInv'
<1>1. GlobTypeOK' /\ GlobIsRight'
  BY SameArguments DEF GlobInv, GlobTypeOK, GlobIsRight, P
<1>2. Sound' /\ Complete'
  BY SameArguments DEF GlobInv, Sound, Complete
<1> QED BY <1>1, <1>2 DEF GlobInv

LEMMA FailInv == ASSUME GlobInv, Fail PROVE GlobInv'
<1>0. GlobTypeOK /\ Complete
  BY DEF GlobInv
<1>1. /\ Looping /\ ~Literal /\ ~AtStar /\ star = None /\ answer' = "no"
      /\ UNCHANGED <<p, t, pi, ti, star, starTi>>
  BY DEF Fail
<1>2. ~\E h \in Cuts : Full(h)
  <2> SUFFICES ASSUME NEW h \in Cuts, Full(h) PROVE FALSE
    OBVIOUS
  <2>1. h[pi] = ti
    BY <1>0, <1>1 DEF Complete
  <2> QED BY <1>0, <1>1, <2>1, Mismatch
<1> QED BY <1>1, <1>2, AnswerInv, MeaningIsFull

\* A set of numbers has a least one.
LEMMA LeastNumber ==
  ASSUME NEW I, I \subseteq Nat, I # {}
  PROVE  \E x \in I : \A y \in I : x <= y
<1> DEFINE R == OpToRel(<, Nat)
<1>1. IsWellFoundedOn(R, Nat)
  BY NatLessThanWellFounded
<1> HIDE DEF R
<1>2. PICK x \in I : \A y \in I : ~(<<y, x>> \in R)
  BY <1>1, WFMin
<1>3. \A y \in Nat, z \in Nat : <<y, z>> \in R <=> y < z
  BY DEF R, OpToRel
<1>4. ASSUME NEW y \in I PROVE x <= y
  <2>1. x \in Nat /\ y \in Nat
    OBVIOUS
  <2>2. ~(y < x)
    BY <1>2, <1>3, <2>1
  <2> QED BY <2>1, <2>2
<1> QED BY <1>2, <1>4

\* Where the text is used up nothing but a `*` has anything left to stand for.
LEMMA UsedUp ==
  ASSUME GlobTypeOK, NEW h \in Cuts, Full(h), h[pi] = Len(t)
  PROVE  \A i \in pi..(Len(p) - 1) : P(i) = Star
<1>1. Len(p) \in Nat /\ Len(t) \in Nat /\ pi \in Nat /\ pi <= Len(p)
  BY Lengths
<1>2. PICK I : I = {i \in pi..Len(p) : h[i] # Len(t)}
  OBVIOUS
<1>3. I = {}
  <2> SUFFICES ASSUME I # {} PROVE FALSE
    OBVIOUS
  <2>1. I \subseteq Nat
    BY <1>1, <1>2
  <2>2. PICK x \in I : \A y \in I : x <= y
    BY <2>1, LeastNumber
  <2>3. x \in Nat /\ x > pi /\ x <= Len(p) /\ h[x] # Len(t)
    BY <1>1, <1>2, <2>2
  <2>4. x - 1 \in pi..Len(p) /\ x - 1 \in Nat /\ x - 1 < Len(p) /\ (x - 1) + 1 = x /\ ~(x <= x - 1)
    BY <1>1, <2>3
  <2>5. h[x - 1] = Len(t)
    BY <1>2, <2>2, <2>4
  <2>6. h[x - 1] <= h[x] /\ h[x] \in Nat /\ h[x] <= Len(t)
    <3>1. /\ h[x - 1] \in Nat /\ h[x - 1] <= Len(t) /\ h[(x - 1) + 1] \in Nat /\ h[(x - 1) + 1] <= Len(t)
          /\ P(x - 1) = Star => h[x - 1] <= h[(x - 1) + 1]
          /\ P(x - 1) # Star => h[(x - 1) + 1] = h[x - 1] + 1
      BY <2>4, FullStep
    <3> QED BY <2>4, <3>1
  <2> QED BY <1>1, <2>3, <2>5, <2>6
<1>4. ASSUME NEW i \in pi..(Len(p) - 1), P(i) # Star PROVE FALSE
  <2>1. i \in Nat /\ i < Len(p) /\ i \in pi..Len(p) /\ i + 1 \in pi..Len(p)
    BY <1>1
  <2>2. h[i + 1] = h[i] + 1
    BY <1>4, <2>1, FullStep
  <2>3. h[i] = Len(t) /\ h[i + 1] = Len(t)
    BY <1>2, <1>3, <2>1
  <2> QED BY <1>1, <2>2, <2>3
<1> QED BY <1>4

LEMMA FinishInv == ASSUME GlobInv, Finish PROVE GlobInv'
<1>0. GlobTypeOK /\ Sound /\ Complete
  BY DEF GlobInv
<1>1. /\ answer = "none" /\ ti = Len(t) /\ UNCHANGED <<p, t, pi, ti, star, starTi>>
      /\ answer' = IF \A i \in pi..(Len(p) - 1) : P(i) = Star THEN "yes" ELSE "no"
  BY DEF Finish
<1>2. Len(p) \in Nat /\ Len(t) \in Nat /\ pi \in Nat /\ pi <= Len(p)
  BY <1>0, Lengths
<1>3. ASSUME \A i \in pi..(Len(p) - 1) : P(i) = Star PROVE \E h \in Cuts : Full(h)
  <2>1. PICK h \in Cuts : Fits(h, pi) /\ h[pi] = ti
    BY <1>0, <1>1 DEF Sound
  <2>2. PICK g : g = [i \in 0..Len(p) |-> IF i <= pi THEN h[i] ELSE Len(t)]
    OBVIOUS
  <2>3. g \in Cuts
    <3>1. \A i \in 0..Len(p) : h[i] \in 0..Len(t) /\ Len(t) \in 0..Len(t)
      BY <1>2 DEF Cuts
    <3> QED BY <2>2, <3>1 DEF Cuts
  <2>4. /\ \A i \in 0..pi : g[i] = h[i]
        /\ \A i \in pi..Len(p) : g[i] = Len(t)
    BY <1>1, <1>2, <2>1, <2>2
  <2>5. ASSUME NEW i \in 0..(Len(p) - 1) PROVE Covers(i, g[i], g[i + 1])
    <3>1. CASE i < pi
      <4>1. i \in 0..(pi - 1) /\ i \in 0..pi /\ i + 1 \in 0..pi
        BY <1>2, <3>1
      <4> QED BY <2>1, <2>4, <4>1 DEF Fits
    <3>2. CASE i >= pi
      <4>1. i \in pi..Len(p) /\ i + 1 \in pi..Len(p) /\ i \in pi..(Len(p) - 1)
        BY <1>2, <3>2
      <4> QED BY <1>2, <1>3, <2>4, <4>1 DEF Covers
    <3> QED BY <1>2, <3>1, <3>2
  <2>6. g[0] = 0 /\ g[Len(p)] = Len(t)
    BY <1>2, <2>1, <2>4 DEF Fits
  <2>7. Full(g)
    BY <2>5, <2>6 DEF Full, Fits
  <2> QED BY <2>3, <2>7
<1>4. ASSUME NEW h \in Cuts, Full(h) PROVE \A i \in pi..(Len(p) - 1) : P(i) = Star
  <2>1. h[pi] >= ti
    <3>1. ti \in Nat
      BY <1>0, Lengths
    <3>2. IF star = None THEN h[pi] = ti ELSE h[pi] >= ti
      BY <1>0, <1>4 DEF Complete
    <3> QED BY <3>1, <3>2
  <2>2. h[pi] \in Nat /\ h[pi] <= Len(t)
    BY <1>0, <1>2, CutsAreNumbers
  <2>3. h[pi] = Len(t)
    BY <1>1, <1>2, <2>1, <2>2
  <2> QED BY <1>0, <1>4, <2>3, UsedUp
<1>5. (answer' = "yes") <=> Meaning
  BY <1>1, <1>3, <1>4, MeaningIsFull
<1> QED BY <1>1, <1>5, AnswerInv

LEMMA GlobStep == GlobInv /\ [GlobNext]_globVars => GlobInv'
<1> SUFFICES ASSUME GlobInv, [GlobNext]_globVars PROVE GlobInv'
  OBVIOUS
<1>1. CASE UNCHANGED globVars
  <2>1. UNCHANGED <<p, t, pi, ti, star, starTi, answer>>
    BY <1>1 DEF globVars
  <2> QED BY <2>1, SameArguments DEF GlobInv, GlobTypeOK, Sound, Complete, GlobIsRight, P
<1> QED BY <1>1, AdvanceInv, MeetStarInv, BacktrackInv, FailInv, FinishInv DEF GlobNext

LEMMA GlobInvariance == GlobSpec => []GlobInv
BY GlobInitInv, GlobStep, PTL DEF GlobSpec

\* glob_match answers what `*` and `?` mean, for every pattern and every host: going
\* back to the last `*` only is enough, and no rule covers a host it should not.
THEOREM GlobAnswersRight == GlobSpec => []GlobIsRight
<1>1. GlobInv => GlobIsRight
  BY DEF GlobInv
<1> QED BY <1>1, GlobInvariance, PTL
-----------------------------------------------------------------------------
(* The loop gets on. *)

\* The position of the last `*`, with 0 for none.
Anchor == IF star = None THEN 0 ELSE star + 1

\* Where a turn of the loop may go: a later last `*`, or the same one having eaten more,
\* or a later place in the pattern; all three are bounded by the lengths.
Onward ==
  /\ Anchor' <= Len(p) /\ starTi' <= Len(t) /\ pi' <= Len(p)
  /\ \/ Anchor' > Anchor
     \/ Anchor' = Anchor /\ starTi' > starTi
     \/ Anchor' = Anchor /\ starTi' = starTi /\ pi' > pi

LEMMA TurnGetsOn == ASSUME GlobInv, GlobNext PROVE answer' # "none" \/ Onward
<1>0. GlobTypeOK
  BY DEF GlobInv
<1>1. /\ Len(p) \in Nat /\ Len(t) \in Nat /\ pi \in Nat /\ ti \in Nat
      /\ pi <= Len(p) /\ ti <= Len(t) /\ starTi \in Nat /\ starTi <= ti
      /\ star # None => star \in Nat /\ star < pi
  BY <1>0, Lengths DEF GlobTypeOK
<1>2. CASE Advance
  <2>1. pi < Len(p) /\ pi' = pi + 1 /\ star' = star /\ starTi' = starTi
    BY <1>2 DEF Advance, Literal
  <2>2. Anchor' = Anchor /\ Anchor <= Len(p)
    BY <1>1, <2>1 DEF Anchor
  <2> QED BY <1>1, <2>1, <2>2 DEF Onward
<1>3. CASE MeetStar
  <2>1. pi < Len(p) /\ pi' = pi + 1 /\ star' = pi /\ starTi' = ti
    BY <1>3 DEF MeetStar, AtStar
  <2>2. Anchor' = pi + 1 /\ Anchor < pi + 1
    BY <1>1, <2>1 DEF Anchor
  <2> QED BY <1>1, <2>1, <2>2 DEF Onward
<1>4. CASE Backtrack
  <2>1. star # None /\ ti < Len(t) /\ pi' = star + 1 /\ star' = star /\ starTi' = starTi + 1
    BY <1>4 DEF Backtrack, Looping
  <2>2. Anchor' = Anchor /\ Anchor <= Len(p) /\ pi' <= Len(p)
    BY <1>1, <2>1 DEF Anchor
  <2> QED BY <1>1, <2>1, <2>2 DEF Onward
<1>5. CASE Fail \/ Finish
  BY <1>5 DEF Fail, Finish
<1> QED BY <1>2, <1>3, <1>4, <1>5 DEF GlobNext

\* The loop of glob_match cannot go round: every turn answers, or moves on in an order
\* that is bounded by the two lengths. This is what GlobEnds needs besides fairness.
THEOREM GlobNeverGoesRound == GlobSpec => [][answer' # "none" \/ Onward]_globVars
<1>1. GlobInv /\ [GlobNext]_globVars => [answer' # "none" \/ Onward]_globVars
  BY TurnGetsOn
<1> QED BY <1>1, GlobInvariance, PTL DEF GlobSpec
=============================================================================
