------------------------------ MODULE RingRuns ------------------------------
(***************************************************************************)
(* Rings of n descriptors that two parties go round, as the receive and    *)
(* transmit rings of the cards are: facts about the run of descriptors     *)
(* between the offsets of the two, for rings of every size.                *)
(***************************************************************************)
EXTENDS Integers, TLAPS

Slots(n) == 0..n - 1

(* The descriptor after descriptor i.                                      *)
After(n, i) == IF i + 1 >= n THEN 0 ELSE i + 1

(* How far descriptor i is behind descriptor lo, going round the ring.     *)
Pos(n, lo, i) == IF i >= lo THEN i - lo ELSE i - lo + n

(* The descriptors of S are the run from lo up to hi.  When the two meet,  *)
(* the run is empty or the whole ring.                                     *)
IsRun(n, S, lo, hi) ==
    /\ lo # hi => S = {i \in Slots(n) : Pos(n, lo, i) < Pos(n, lo, hi)}
    /\ lo = hi => S = {} \/ S = Slots(n)

RunLength(n, S, lo, hi) ==
    IF lo # hi THEN Pos(n, lo, hi) ELSE IF S = {} THEN 0 ELSE n

LEMMA AfterType ==
    ASSUME NEW n \in Nat \ {0}, NEW i \in Slots(n)
    PROVE  After(n, i) \in Slots(n)
BY DEF Slots, After

LEMMA PosFacts ==
    ASSUME NEW n \in Nat \ {0}, NEW lo \in Slots(n), NEW i \in Slots(n)
    PROVE  /\ Pos(n, lo, i) \in 0..n - 1
           /\ Pos(n, lo, i) = 0 <=> i = lo
           /\ i # lo => Pos(n, After(n, lo), i) = Pos(n, lo, i) - 1
           /\ Pos(n, After(n, lo), lo) = n - 1
           /\ After(n, i) # lo => Pos(n, lo, After(n, i)) = Pos(n, lo, i) + 1
           /\ After(n, i) = lo <=> Pos(n, lo, i) = n - 1
           /\ \A j \in Slots(n) : Pos(n, lo, i) = Pos(n, lo, j) => i = j
BY DEF Slots, After, Pos

(* Taking the first descriptor off a run, and adding one at its end.       *)
LEMMA RunShrinks ==
    ASSUME NEW n \in Nat \ {0}, NEW lo \in Slots(n), NEW hi \in Slots(n), NEW S \in SUBSET Slots(n),
           IsRun(n, S, lo, hi), lo \in S
    PROVE  /\ IsRun(n, S \ {lo}, After(n, lo), hi)
           /\ RunLength(n, S \ {lo}, After(n, lo), hi) = RunLength(n, S, lo, hi) - 1
<1> DEFINE next == After(n, lo)
<1>r. n \in Nat \ {0} /\ next \in Slots(n)
  BY AfterType
<1>p. /\ \A i \in Slots(n) : i # lo => Pos(n, next, i) = Pos(n, lo, i) - 1
      /\ Pos(n, next, lo) = n - 1
      /\ \A i \in Slots(n) : Pos(n, lo, i) \in 0..n - 1 /\ Pos(n, next, i) \in 0..n - 1
      /\ \A i \in Slots(n) : (Pos(n, lo, i) = 0 <=> i = lo) /\ (Pos(n, next, i) = 0 <=> i = next)
  BY PosFacts, <1>r
<1> HIDE DEF next
<1>1. CASE lo # hi
  <2>1. S = {i \in Slots(n) : Pos(n, lo, i) < Pos(n, lo, hi)}
    BY <1>1 DEF IsRun
  <2>2. CASE next = hi
    <3>1. Pos(n, lo, hi) = 1
      BY <1>1, <1>p, <2>2, <1>r
    <3>2. S \ {lo} = {}
      BY <2>1, <3>1, <1>p
    <3> QED
      BY <1>1, <2>2, <3>1, <3>2 DEF IsRun, RunLength, next
  <2>3. CASE next # hi
    <3>1. Pos(n, next, hi) = Pos(n, lo, hi) - 1
      BY <1>1, <1>p
    <3>2. S \ {lo} = {i \in Slots(n) : Pos(n, next, i) < Pos(n, next, hi)}
      BY <2>1, <3>1, <1>p, <1>r
    <3> QED
      BY <1>1, <2>3, <3>1, <3>2 DEF IsRun, RunLength, next
  <2> QED
    BY <2>2, <2>3
<1>2. CASE lo = hi
  <2>1. S = Slots(n)
    BY <1>2 DEF IsRun
  <2>2. CASE next = hi
    <3>1. n = 1
      BY <1>2, <2>2, <1>p, <1>r
    <3>2. S \ {lo} = {} /\ S # {}
      BY <2>1, <3>1 DEF Slots
    <3> QED
      BY <1>2, <2>2, <3>1, <3>2 DEF IsRun, RunLength, next
  <2>3. CASE next # hi
    <3>1. Pos(n, next, hi) = n - 1
      BY <1>2, <1>p
    <3>2. S \ {lo} = {i \in Slots(n) : Pos(n, next, i) < Pos(n, next, hi)}
      BY <2>1, <3>1, <1>p, <1>r, <1>2
    <3> QED
      BY <1>2, <2>1, <2>3, <3>1, <3>2 DEF IsRun, RunLength, next
  <2> QED
    BY <2>2, <2>3
<1> QED
  BY <1>1, <1>2

LEMMA RunGrows ==
    ASSUME NEW n \in Nat \ {0}, NEW lo \in Slots(n), NEW hi \in Slots(n), NEW S \in SUBSET Slots(n),
           IsRun(n, S, lo, hi), hi \notin S
    PROVE  /\ IsRun(n, S \cup {hi}, lo, After(n, hi))
           /\ RunLength(n, S \cup {hi}, lo, After(n, hi)) = RunLength(n, S, lo, hi) + 1
           /\ RunLength(n, S, lo, hi) = Pos(n, lo, hi)
           /\ \A i \in S : Pos(n, lo, i) < Pos(n, lo, hi)
<1> DEFINE next == After(n, hi)
<1>r. n \in Nat \ {0} /\ next \in Slots(n)
  BY AfterType
<1>p. /\ next # lo => Pos(n, lo, next) = Pos(n, lo, hi) + 1
      /\ next = lo <=> Pos(n, lo, hi) = n - 1
      /\ \A i \in Slots(n) : Pos(n, lo, i) \in 0..n - 1
      /\ \A i \in Slots(n) : Pos(n, lo, i) = 0 <=> i = lo
      /\ \A i \in Slots(n) : Pos(n, lo, i) = Pos(n, lo, hi) => i = hi
  BY PosFacts, <1>r
<1> HIDE DEF next
<1>1. /\ S = {i \in Slots(n) : Pos(n, lo, i) < Pos(n, lo, hi)}
      /\ RunLength(n, S, lo, hi) = Pos(n, lo, hi)
  <2>1. CASE lo # hi
    BY <2>1 DEF IsRun, RunLength
  <2>2. CASE lo = hi
    <3>1. S = {} /\ Pos(n, lo, hi) = 0
      BY <2>2, <1>p DEF IsRun
    <3> QED
      BY <2>2, <3>1, <1>p DEF RunLength
  <2> QED
    BY <2>1, <2>2
<1>2. S \cup {hi} = {i \in Slots(n) : Pos(n, lo, i) < Pos(n, lo, hi) + 1}
  BY <1>1, <1>p
<1>3. CASE next = lo
  <2>1. S \cup {hi} = Slots(n)
    BY <1>2, <1>3, <1>p, <1>r
  <2> QED
    BY <1>1, <1>3, <2>1, <1>p, <1>r DEF IsRun, RunLength, next
<1>4. CASE next # lo
  BY <1>1, <1>2, <1>4, <1>p DEF IsRun, RunLength, next
<1> QED
  BY <1>1, <1>3, <1>4
=============================================================================
