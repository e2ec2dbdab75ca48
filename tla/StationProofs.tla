--------------------------- MODULE StationProofs ---------------------------
(***************************************************************************)
(* Proofs about Station for every value of its constants: any machines,    *)
(* frames and keys, words of any width and a table of any size.            *)
(*                                                                         *)
(* The first part is about data: induction and recursion over the          *)
(* positions of a sequence, the least of a set of numbers, and the ranks   *)
(* of the elements of an ordered set.  The second is about what the model  *)
(* computes with them: checksums, the table of PCI functions, the numbers  *)
(* of an address.  The third is about the steps of the station.            *)
(***************************************************************************)
EXTENDS Station, FiniteSetTheorems, SequenceTheorems, TLAPS

-----------------------------------------------------------------------------
(* Induction over the naturals, for the members of a set.                  *)
LEMMA SetInduction ==
    ASSUME NEW S, 0 \in S, \A n \in Nat : n \in S => n + 1 \in S
    PROVE  \A n \in Nat : n \in S
<1> DEFINE T == {n \in Nat : n \notin S}
           R == OpToRel(<, Nat)
<1>1. IsWellFoundedOn(R, Nat)
  BY NatLessThanWellFounded
<1>2. ASSUME T # {} PROVE \E x \in T : \A y \in T : ~(<<y, x>> \in R)
  BY <1>1, <1>2, WFMin
<1>3. \A x, y \in Nat : <<y, x>> \in R <=> y < x
  BY DEF OpToRel
<1> HIDE DEF R
<1>4. ASSUME T # {} PROVE FALSE
  <2>1. PICK x \in T : \A y \in T : ~(<<y, x>> \in R)
    BY <1>2, <1>4
  <2>2. x \in Nat /\ x \notin S /\ x # 0
    OBVIOUS
  <2>3. x - 1 \in Nat /\ (x - 1) + 1 = x /\ x - 1 < x
    BY <2>2
  <2>4. x - 1 \notin S
    BY <2>2, <2>3
  <2> QED
    BY <2>1, <2>3, <2>4, <1>3
<1> QED
  BY <1>4

(* Induction up to a last number.                                          *)
LEMMA UptoInduction ==
    ASSUME NEW n \in Nat, NEW S,
           0 \in S, \A i \in 0..n : i < n /\ i \in S => i + 1 \in S
    PROVE  \A i \in 0..n : i \in S
<1> DEFINE T == {i \in Nat : i <= n => i \in S}
<1>1. 0 \in T
  OBVIOUS
<1>2. ASSUME NEW i \in Nat, i \in T PROVE i + 1 \in T
  BY <1>2
<1>3. \A i \in Nat : i \in T
  <2> HIDE DEF T
  <2> QED BY <1>1, <1>2, SetInduction
<1> QED
  BY <1>3

(* Recursion: the value at i is a step from the one before.  The step is a *)
(* function, so that the lemma can be applied.                             *)
Recursion(n, X, base, step, f) ==
    /\ f \in [0..n -> X]
    /\ f[0] = base
    /\ \A i \in 1..n : f[i] = step[<<i, f[i - 1]>>]

LEMMA RecursionExists ==
    ASSUME NEW n \in Nat, NEW X, NEW base \in X, NEW step \in [(1..n) \X X -> X]
    PROVE  \E f : Recursion(n, X, base, step, f)
<1> DEFINE Upto(k, f) == /\ f \in [0..k -> X]
                         /\ f[0] = base
                         /\ \A i \in 1..k : f[i] = step[<<i, f[i - 1]>>]
           S == {k \in 0..n : \E f : Upto(k, f)}
<1>1. 0 \in S
  <2>1. Upto(0, [i \in 0..0 |-> base])
    OBVIOUS
  <2> HIDE DEF Upto
  <2> QED BY <2>1
<1>2. ASSUME NEW k \in 0..n, k < n, k \in S PROVE k + 1 \in S
  <2>1. PICK f : Upto(k, f)
    BY <1>2
  <2> DEFINE g == [i \in 0..k + 1 |-> IF i <= k THEN f[i] ELSE step[<<i, f[k]>>]]
  <2>0. k \in Nat /\ k + 1 \in 1..n
    BY <1>2
  <2>2. \A i \in 0..k : g[i] = f[i] /\ f[i] \in X
    BY <2>0, <2>1
  <2>3. g[k + 1] = step[<<k + 1, f[k]>>]
    BY <2>0
  <2>4. g[k + 1] \in X
    <3> HIDE DEF g
    <3>1. k \in 0..k
      BY <2>0
    <3>2. f[k] \in X
      BY <2>2, <3>1
    <3>3. <<k + 1, f[k]>> \in (1..n) \X X
      BY <2>0, <3>2
    <3> QED BY <2>3, <3>3
  <2>5. g \in [0..k + 1 -> X]
    <3>1. \A i \in 0..k + 1 : g[i] \in X
      <4> HIDE DEF g
      <4>1. \A i \in 0..k + 1 : i \in 0..k \/ i = k + 1
        BY <2>0
      <4> QED BY <4>1, <2>2, <2>4
    <3>2. g = [i \in 0..k + 1 |-> g[i]]
      OBVIOUS
    <3> HIDE DEF g
    <3> QED BY <3>1, <3>2
  <2>6. g[0] = base
    BY <2>0, <2>1, <2>2
  <2>7. ASSUME NEW i \in 1..k + 1 PROVE g[i] = step[<<i, g[i - 1]>>]
    <3>1. i - 1 \in 0..k /\ g[i - 1] = f[i - 1]
      BY <2>0, <2>2
    <3>2. CASE i <= k
      <4>1. i \in 1..k /\ i \in 0..k
        BY <3>2, <2>0
      <4>2. f[i] = step[<<i, f[i - 1]>>] /\ g[i] = f[i]
        BY <2>1, <2>2, <4>1
      <4> QED BY <3>1, <4>2
    <3>3. CASE i = k + 1
      <4>1. i - 1 = k
        BY <3>3, <2>0
      <4> QED BY <3>1, <3>3, <4>1, <2>3
    <3> QED BY <3>2, <3>3, <2>0
  <2> HIDE DEF g
  <2>8. Upto(k + 1, g)
    BY <2>5, <2>6, <2>7
  <2> QED BY <2>8, <2>0
<1>3. n \in S
  <2> HIDE DEF S
  <2>1. n \in 0..n
    OBVIOUS
  <2> QED BY <1>1, <1>2, <2>1, UptoInduction
<1>4. PICK f : Upto(n, f)
  BY <1>3
<1> QED
  BY <1>4 DEF Recursion

-----------------------------------------------------------------------------
(* Checksums.                                                              *)

LEMMA AddWordType ==
    ASSUME NEW s \in 0..Word - 1, NEW w \in 0..Word - 1
    PROVE  /\ AddWord(s, w) \in 0..Word - 1
           /\ AddWord(s, w) = IF s + w < Word THEN s + w ELSE s + w - (Word - 1)
<1>0. Word \in Nat /\ Word >= 2
  BY FilterConstants
<1>1. CASE s + w < Word
  <2>1. (s + w) \div Word = 0
    BY <1>0, <1>1
  <2>2. (s + w) % Word = s + w
    BY <1>0, <1>1
  <2> QED BY <1>0, <1>1, <2>1, <2>2 DEF AddWord
<1>2. CASE s + w >= Word
  <2>1. (s + w) \div Word = 1
    BY <1>0, <1>2
  <2>2. (s + w + 1) % Word = s + w + 1 - Word
    BY <1>0, <1>2
  <2> QED BY <1>0, <1>2, <2>1, <2>2 DEF AddWord
<1> QED
  BY <1>0, <1>1, <1>2

(* The sums satisfy their equation.                                        *)
LEMMA SumsEquation ==
    ASSUME NEW words \in Seq(0..Word - 1), NEW at \in Nat
    PROVE  Sums(words, at) =
              [i \in 0..Len(words) |->
                  IF i = 0 THEN 0
                  ELSE IF i = at THEN Sums(words, at)[i - 1]
                  ELSE AddWord(Sums(words, at)[i - 1], words[i])]
<1> DEFINE n == Len(words)
           X == 0..Word - 1
           E(f) == f = [i \in 0..n |-> IF i = 0 THEN 0
                                       ELSE IF i = at THEN f[i - 1]
                                       ELSE AddWord(f[i - 1], words[i])]
           step == [p \in (1..n) \X X |-> IF p[1] = at THEN p[2] ELSE AddWord(p[2], words[p[1]])]
<1>0. n \in Nat /\ \A i \in 1..n : words[i] \in X
  BY LenProperties, ElementOfSeq
<1>1. step \in [(1..n) \X X -> X]
  <2>1. ASSUME NEW p \in (1..n) \X X
        PROVE  (IF p[1] = at THEN p[2] ELSE AddWord(p[2], words[p[1]])) \in X
    <3>1. p[1] \in 1..n /\ p[2] \in 0..Word - 1
      OBVIOUS
    <3>2. words[p[1]] \in 0..Word - 1
      BY <3>1, <1>0
    <3>3. AddWord(p[2], words[p[1]]) \in 0..Word - 1
      BY <3>1, <3>2, AddWordType
    <3> QED BY <3>1, <3>3
  <2> QED BY <2>1
<1>2. 0 \in X
  BY FilterConstants
<1>3. PICK g : Recursion(n, X, 0, step, g)
  <2> HIDE DEF step, X, n
  <2>1. n \in Nat
    BY <1>0
  <2> QED BY <1>1, <1>2, <2>1, RecursionExists, Zenon
<1>4. E(g)
  <2>1. ASSUME NEW i \in 1..n
        PROVE  g[i] = IF i = at THEN g[i - 1] ELSE AddWord(g[i - 1], words[i])
    <3>1. i - 1 \in 0..n
      BY <1>0
    <3>a. g[i - 1] \in X
      BY <1>3, <3>1 DEF Recursion
    <3>b. <<i, g[i - 1]>> \in (1..n) \X X
      BY <3>a
    <3>2. g[i] = step[<<i, g[i - 1]>>]
      BY <1>3, Zenon DEF Recursion
    <3> QED BY <3>b, <3>2
  <2> QED BY <1>3, <2>1 DEF Recursion
<1>5. Sums(words, at) = CHOOSE f : E(f)
  BY DEF Sums
<1> QED
  BY <1>4, <1>5

LEMMA SumsFacts ==
    ASSUME NEW words \in Seq(0..Word - 1), NEW at \in Nat
    PROVE  /\ Sums(words, at)[0] = 0
           /\ \A i \in 1..Len(words) :
                 Sums(words, at)[i] = IF i = at THEN Sums(words, at)[i - 1]
                                      ELSE AddWord(Sums(words, at)[i - 1], words[i])
           /\ \A i \in 0..Len(words) : Sums(words, at)[i] \in 0..Word - 1
<1> DEFINE n == Len(words)
           f == Sums(words, at)
           g == [i \in 0..n |-> IF i = 0 THEN 0
                                ELSE IF i = at THEN f[i - 1] ELSE AddWord(f[i - 1], words[i])]
           S == {i \in 0..n : f[i] \in 0..Word - 1}
<1>n. n \in Nat
  BY LenProperties
<1>w. \A i \in 1..n : words[i] \in 0..Word - 1
  BY ElementOfSeq
<1>e. f = g
  BY SumsEquation
<1>g. g[0] = 0 /\ \A i \in 1..n : g[i] = IF i = at THEN f[i - 1] ELSE AddWord(f[i - 1], words[i])
  BY <1>n
<1> HIDE DEF n, f, g
<1>1. f[0] = 0
  BY <1>e, <1>g
<1>2. ASSUME NEW i \in 1..n
      PROVE  f[i] = IF i = at THEN f[i - 1] ELSE AddWord(f[i - 1], words[i])
  <2>1. g[i] = IF i = at THEN f[i - 1] ELSE AddWord(f[i - 1], words[i])
    BY <1>g
  <2> QED BY <1>e, <2>1, Zenon
<1>3. 0 \in S
  BY <1>1, <1>n, FilterConstants
<1>4. ASSUME NEW i \in 0..n, i < n, i \in S PROVE i + 1 \in S
  <2>1. i + 1 \in 1..n /\ i + 1 \in 0..n /\ (i + 1) - 1 = i
    BY <1>4, <1>n
  <2>2. f[i + 1] = IF i + 1 = at THEN f[i] ELSE AddWord(f[i], words[i + 1])
    BY <1>2, <2>1
  <2>3. f[i] \in 0..Word - 1 /\ words[i + 1] \in 0..Word - 1
    BY <1>4, <1>w, <2>1
  <2>4. AddWord(f[i], words[i + 1]) \in 0..Word - 1
    BY <2>3, AddWordType
  <2>5. f[i + 1] \in 0..Word - 1
    BY <2>2, <2>3, <2>4
  <2> QED BY <2>1, <2>5
<1>5. \A i \in 0..n : i \in S
  <2> HIDE DEF S
  <2> QED BY <1>3, <1>4, <1>n, UptoInduction
<1>6. \A i \in 0..n : f[i] \in 0..Word - 1
  BY <1>5
<1> QED
  BY <1>1, <1>2, <1>6 DEF n, f

LEMMA TotalsEquation ==
    ASSUME NEW words \in Seq(Nat)
    PROVE  Totals(words) =
              [i \in 0..Len(words) |-> IF i = 0 THEN 0 ELSE Totals(words)[i - 1] + words[i]]
<1> DEFINE n == Len(words)
           E(f) == f = [i \in 0..n |-> IF i = 0 THEN 0 ELSE f[i - 1] + words[i]]
           step == [p \in (1..n) \X Nat |-> p[2] + words[p[1]]]
<1>0. n \in Nat /\ \A i \in 1..n : words[i] \in Nat
  BY LenProperties, ElementOfSeq
<1>1. step \in [(1..n) \X Nat -> Nat]
  <2>1. ASSUME NEW p \in (1..n) \X Nat PROVE p[2] + words[p[1]] \in Nat
    <3>1. p[1] \in 1..n /\ p[2] \in Nat
      OBVIOUS
    <3>2. words[p[1]] \in Nat
      BY <3>1, <1>0
    <3> QED BY <3>1, <3>2
  <2> QED BY <2>1
<1>3. PICK g : Recursion(n, Nat, 0, step, g)
  <2> HIDE DEF step, n
  <2>1. n \in Nat
    BY <1>0
  <2>2. 0 \in Nat
    OBVIOUS
  <2> QED BY <1>1, <2>1, <2>2, RecursionExists, Zenon
<1>4. E(g)
  <2>1. ASSUME NEW i \in 1..n PROVE g[i] = g[i - 1] + words[i]
    <3>1. i - 1 \in 0..n
      BY <1>0
    <3>a. g[i - 1] \in Nat
      BY <1>3, <3>1 DEF Recursion
    <3>b. <<i, g[i - 1]>> \in (1..n) \X Nat
      BY <3>a
    <3>2. g[i] = step[<<i, g[i - 1]>>]
      BY <1>3, Zenon DEF Recursion
    <3> QED BY <3>b, <3>2
  <2> QED BY <1>3, <2>1 DEF Recursion
<1>5. Totals(words) = CHOOSE f : E(f)
  BY DEF Totals
<1> QED
  BY <1>4, <1>5

LEMMA TotalsFacts ==
    ASSUME NEW words \in Seq(Nat)
    PROVE  /\ Totals(words)[0] = 0
           /\ \A i \in 1..Len(words) : Totals(words)[i] = Totals(words)[i - 1] + words[i]
           /\ \A i \in 0..Len(words) : Totals(words)[i] \in Nat
<1> DEFINE n == Len(words)
           f == Totals(words)
           g == [i \in 0..n |-> IF i = 0 THEN 0 ELSE f[i - 1] + words[i]]
           S == {i \in 0..n : f[i] \in Nat}
<1>n. n \in Nat
  BY LenProperties
<1>w. \A i \in 1..n : words[i] \in Nat
  BY ElementOfSeq
<1>e. f = g
  BY TotalsEquation
<1>g. g[0] = 0 /\ \A i \in 1..n : g[i] = f[i - 1] + words[i]
  BY <1>n
<1> HIDE DEF n, f, g
<1>1. f[0] = 0
  BY <1>e, <1>g
<1>2. ASSUME NEW i \in 1..n PROVE f[i] = f[i - 1] + words[i]
  <2>1. g[i] = f[i - 1] + words[i]
    BY <1>g
  <2> QED BY <1>e, <2>1, Zenon
<1>3. 0 \in S
  BY <1>1, <1>n
<1>4. ASSUME NEW i \in 0..n, i < n, i \in S PROVE i + 1 \in S
  <2>1. i + 1 \in 1..n /\ i + 1 \in 0..n /\ (i + 1) - 1 = i
    BY <1>4, <1>n
  <2>2. f[i + 1] = f[i] + words[i + 1]
    BY <1>2, <2>1
  <2>3. f[i] \in Nat /\ words[i + 1] \in Nat
    BY <1>4, <1>w, <2>1
  <2> QED BY <2>1, <2>2, <2>3
<1>5. \A i \in 0..n : i \in S
  <2> HIDE DEF S
  <2> QED BY <1>3, <1>4, <1>n, UptoInduction
<1>6. \A i \in 0..n : f[i] \in Nat
  BY <1>5
<1> QED
  BY <1>1, <1>2, <1>6 DEF n, f

(* Division with remainder: its result is the only one there is.           *)
LEMMA ModUnique ==
    ASSUME NEW m \in Nat \ {0}, NEW q \in Nat, NEW r \in 0..m - 1
    PROVE  (q * m + r) % m = r
OBVIOUS

LEMMA ModExists ==
    ASSUME NEW m \in Nat \ {0}, NEW a \in Nat
    PROVE  \E q \in Nat : a = q * m + (a % m)
<1>1. a \div m \in Nat /\ a = (a \div m) * m + (a % m)
  OBVIOUS
<1> QED BY <1>1

LEMMA TimesSuccessor ==
    ASSUME NEW k \in Nat, NEW m \in Nat
    PROVE  k * m \in Nat /\ (k + 1) * m = k * m + m
OBVIOUS

(* The sum with the carries added at the low end is the plain total but    *)
(* for a multiple of Word - 1, and it is 0 only if all words are.          *)
LEMMA SumsAndTotals ==
    ASSUME NEW words \in Seq(0..Word - 1), NEW at \in 1..Len(words)
    PROVE  \A i \in 0..Len(words) : \E k \in Nat :
              Totals(words)[i] = Sums(words, at)[i] + k * (Word - 1) + IF at <= i THEN words[at] ELSE 0
<1> DEFINE n == Len(words)
           m == Word - 1
           f == Sums(words, at)
           t == Totals(words)
           x(i) == IF at <= i THEN words[at] ELSE 0
           P(i, k) == t[i] = f[i] + k * m + x(i)
           S == {i \in 0..n : \E k \in Nat : P(i, k)}
<1>m. m \in Nat \ {0} /\ m = Word - 1 /\ Word \in Nat
  BY FilterConstants
<1>n. n \in Nat /\ at \in 1..n /\ at \in Nat
  BY LenProperties
<1>w. \A i \in 1..n : words[i] \in 0..m
  BY ElementOfSeq
<1>s. words \in Seq(Nat)
  <2>1. 0..Word - 1 \in SUBSET Nat
    BY <1>m
  <2>2. words \in [1..n -> Nat]
    BY LenProperties, <2>1
  <2> QED BY <1>n, <2>2
<1>f. /\ f[0] = 0
      /\ \A i \in 1..n : f[i] = IF i = at THEN f[i - 1] ELSE AddWord(f[i - 1], words[i])
      /\ \A i \in 0..n : f[i] \in 0..m
  BY SumsFacts, <1>n
<1>t. /\ t[0] = 0
      /\ \A i \in 1..n : t[i] = t[i - 1] + words[i]
      /\ \A i \in 0..n : t[i] \in Nat
  BY TotalsFacts, <1>s
<1> HIDE DEF n, m, f, t
<1>1. 0 \in S
  <2>1. P(0, 0)
    BY <1>f, <1>t, <1>n, <1>m
  <2> QED BY <2>1, <1>n
<1>2. ASSUME NEW i \in 0..n, i < n, i \in S PROVE i + 1 \in S
  <2>1. PICK k \in Nat : P(i, k)
    BY <1>2
  <2>2. i + 1 \in 1..n /\ i + 1 \in 0..n /\ (i + 1) - 1 = i /\ i \in Nat
    BY <1>2, <1>n
  <2>3. t[i + 1] = t[i] + words[i + 1] /\ t[i] \in Nat
    BY <1>t, <2>2
  <2>4. f[i + 1] = IF i + 1 = at THEN f[i] ELSE AddWord(f[i], words[i + 1])
    BY <1>f, <2>2
  <2>5. f[i] \in 0..m /\ words[i + 1] \in 0..m /\ words[at] \in 0..m
    BY <1>f, <1>w, <1>n, <2>2
  <2>6. k * m \in Nat /\ (k + 1) * m = k * m + m
    BY <1>m, TimesSuccessor
  <2>7. AddWord(f[i], words[i + 1]) = IF f[i] + words[i + 1] < Word THEN f[i] + words[i + 1]
                                      ELSE f[i] + words[i + 1] - m
    BY <2>5, <1>m, AddWordType
  <2>b. x(i) \in Nat /\ (i + 1 # at => x(i + 1) = x(i))
    BY <2>2, <2>5, <1>n, <1>m
  <2>8. CASE i + 1 = at
    <3>1. at <= i + 1 /\ ~(at <= i) /\ f[i + 1] = f[i] /\ words[i + 1] = words[at]
      BY <2>2, <2>4, <2>8
    <3>2. P(i + 1, k)
      BY <3>1, <2>1, <2>3, <2>5, <2>6, <1>m, SMTT(30)
    <3> QED BY <3>2, <2>2
  <2>9. CASE i + 1 # at /\ f[i] + words[i + 1] < Word
    <3>a. f[i + 1] = f[i] + words[i + 1]
      BY <2>4, <2>7, <2>9
    <3>1. P(i + 1, k)
      <4> DEFINE km == k * m
                 y == x(i)
      <4>1. km \in Nat /\ y \in Nat /\ t[i] = f[i] + km + y
        BY <2>1, <2>6, <2>b
      <4> HIDE DEF km, y
      <4>2. t[i + 1] = f[i + 1] + km + y
        <5>1. f[i] \in Int /\ words[i + 1] \in Int /\ m \in Int
          BY <2>5, <1>m
        <5>2. km \in Int /\ y \in Int
          BY <4>1
        <5>3. \A a, b, c, d \in Int : (a + c + d) + b = (a + b) + c + d
          OBVIOUS
        <5>4. (f[i] + km + y) + words[i + 1] = (f[i] + words[i + 1]) + km + y
          BY <5>1, <5>2, <5>3
        <5> QED BY <4>1, <5>4, <3>a, <2>3, Zenon
      <4> QED BY <4>2, <2>b, <2>9 DEF km, y
    <3> QED BY <3>1, <2>2
  <2>10. CASE i + 1 # at /\ ~(f[i] + words[i + 1] < Word)
    <3>a. f[i + 1] = f[i] + words[i + 1] - m
      BY <2>4, <2>7, <2>10
    <3>1. P(i + 1, k + 1)
      <4> DEFINE km == k * m
                 km1 == (k + 1) * m
                 y == x(i)
      <4>1. km \in Nat /\ km1 = km + m /\ y \in Nat /\ t[i] = f[i] + km + y
        BY <2>1, <2>6, <2>b
      <4> HIDE DEF km, km1, y
      <4>2. t[i + 1] = f[i + 1] + km1 + y
        <5>1. f[i] \in Int /\ words[i + 1] \in Int /\ m \in Int
          BY <2>5, <1>m
        <5>2. km \in Int /\ y \in Int
          BY <4>1
        <5>0. \A a, b, c, d, e \in Int : (a + b - e) + (c + e) + d = (a + c + d) + b
          OBVIOUS
        <5>3. (f[i] + words[i + 1] - m) + (km + m) + y = (f[i] + km + y) + words[i + 1]
          BY <5>0, <5>1, <5>2, SMTT(30)
        <5>4. f[i + 1] + km1 + y = (f[i] + words[i + 1] - m) + (km + m) + y
          BY <3>a, <4>1
        <5>5. t[i + 1] = (f[i] + km + y) + words[i + 1]
          BY <4>1, <2>3
        <5> QED BY <5>3, <5>4, <5>5
      <4> QED BY <4>2, <2>b, <2>10 DEF km1, y
    <3>2. k + 1 \in Nat
      OBVIOUS
    <3> QED BY <3>1, <3>2, <2>2
  <2> QED BY <2>8, <2>9, <2>10
<1>3. \A i \in 0..n : i \in S
  <2> HIDE DEF S
  <2> QED BY <1>1, <1>2, <1>n, UptoInduction
<1>4. \A i \in 0..n : \E k \in Nat : P(i, k)
  BY <1>3
<1> QED
  BY <1>4 DEF n, m, f, t

LEMMA SumsPositive ==
    ASSUME NEW words \in Seq(0..Word - 1), NEW at \in Nat, at # 1, Len(words) > 0, words[1] > 0
    PROVE  \A i \in 1..Len(words) : Sums(words, at)[i] > 0
<1> DEFINE n == Len(words)
           f == Sums(words, at)
           S == {i \in 0..n : i = 0 \/ f[i] > 0}
<1>m. Word \in Nat
  BY FilterConstants
<1>n. n \in Nat /\ 1 \in 1..n
  BY LenProperties
<1>w. \A i \in 1..n : words[i] \in 0..Word - 1
  BY ElementOfSeq
<1>f. /\ f[0] = 0
      /\ \A i \in 1..n : f[i] = IF i = at THEN f[i - 1] ELSE AddWord(f[i - 1], words[i])
      /\ \A i \in 0..n : f[i] \in 0..Word - 1
  BY SumsFacts
<1> HIDE DEF n, f
<1>1. 0 \in S
  BY <1>n
<1>2. ASSUME NEW i \in 0..n, i < n, i \in S PROVE i + 1 \in S
  <2>2. i + 1 \in 1..n /\ i + 1 \in 0..n /\ (i + 1) - 1 = i /\ i \in Nat
    BY <1>2, <1>n
  <2>4. f[i + 1] = IF i + 1 = at THEN f[i] ELSE AddWord(f[i], words[i + 1])
    BY <1>f, <2>2
  <2>5. f[i] \in 0..Word - 1 /\ words[i + 1] \in 0..Word - 1
    BY <1>f, <1>w, <2>2
  <2>7. AddWord(f[i], words[i + 1]) = IF f[i] + words[i + 1] < Word THEN f[i] + words[i + 1]
                                      ELSE f[i] + words[i + 1] - (Word - 1)
    BY <2>5, AddWordType
  <2>8. CASE i = 0
    <3>1. i + 1 # at /\ words[i + 1] > 0 /\ f[i] = 0
      BY <2>8, <1>f
    <3>2. f[i + 1] > 0
      BY <3>1, <2>4, <2>5, <2>7, <1>m
    <3> QED BY <3>2, <2>2
  <2>9. CASE i # 0
    <3>1. f[i] > 0
      BY <1>2, <2>9
    <3>2. f[i + 1] > 0
      BY <3>1, <2>4, <2>5, <2>7, <1>m, SMTT(30)
    <3> QED BY <3>2, <2>2
  <2> QED BY <2>8, <2>9
<1>3. \A i \in 0..n : i \in S
  <2> HIDE DEF S
  <2> QED BY <1>1, <1>2, <1>n, UptoInduction
<1>4. \A i \in 1..n : f[i] > 0
  BY <1>3, <1>n
<1> QED
  BY <1>4 DEF n, f

LEMMA WordsAreNaturals ==
    ASSUME NEW words \in Seq(0..Word - 1)
    PROVE  words \in Seq(Nat)
<1>1. \A w \in 0..Word - 1 : w \in Nat
  BY FilterConstants
<1>2. words \in [1..Len(words) -> Nat] /\ Len(words) \in Nat
  BY <1>1, LenProperties
<1> QED
  BY <1>2

(* The total of a valid datagram is a multiple of Word - 1 and not 0.      *)
LEMMA ValidIsMultiple ==
    ASSUME NEW words, Total(words) \in Nat
    PROVE  Valid(words) <=> \E j \in Nat : Total(words) = (j + 1) * (Word - 1)
<1> DEFINE m == Word - 1
           t == Total(words)
<1>m. m \in Nat \ {0}
  BY FilterConstants
<1>v. Valid(words) <=> t # 0 /\ 1 + ((t - 1) % m) = m
  BY <1>m DEF Valid, OnesSum
<1>t. t \in Nat
  OBVIOUS
<1> HIDE DEF m, t
<1>1. ASSUME t # 0, 1 + ((t - 1) % m) = m PROVE \E j \in Nat : t = (j + 1) * m
  <2>1. t - 1 \in Nat
    BY <1>1, <1>t
  <2>2. PICK q \in Nat : t - 1 = q * m + ((t - 1) % m)
    BY <2>1, <1>m, ModExists
  <2>3. q * m \in Nat /\ (q + 1) * m = q * m + m
    BY <1>m, TimesSuccessor
  <2> DEFINE r == (t - 1) % m
             qm == q * m
             qm1 == (q + 1) * m
  <2>4. r \in Int
    BY <2>1, <1>m
  <2>5. t - 1 = qm + r /\ qm \in Nat /\ qm1 = qm + m /\ 1 + r = m
    BY <2>2, <2>3, <1>1
  <2> HIDE DEF r, qm, qm1
  <2>6. t = qm1
    BY <2>4, <2>5, <1>t, <1>m
  <2> QED BY <2>6 DEF qm1
<1>2. ASSUME NEW j \in Nat, t = (j + 1) * m PROVE t # 0 /\ 1 + ((t - 1) % m) = m
  <2>1. j * m \in Nat /\ (j + 1) * m = j * m + m
    BY <1>m, TimesSuccessor
  <2>2. m - 1 \in 0..m - 1
    BY <1>m
  <2>3. (j * m + (m - 1)) % m = m - 1
    BY <1>m, <2>2, ModUnique
  <2> DEFINE jm == j * m
  <2>4. jm \in Nat /\ t = jm + m /\ (jm + (m - 1)) % m = m - 1
    BY <2>1, <2>3, <1>2
  <2> HIDE DEF jm
  <2>5. t # 0 /\ t - 1 = jm + (m - 1)
    BY <2>4, <1>m
  <2> QED BY <2>4, <2>5, <1>m
<1>3. Valid(words) <=> \E j \in Nat : t = (j + 1) * m
  BY <1>1, <1>2, <1>v
<1> QED
  BY <1>3 DEF m, t

(* A datagram with the checksum of the loop in its place is valid.         *)
LEMMA ChecksumIsValid ==
    ASSUME NEW words \in Seq(0..Word - 1), NEW at \in 1..Len(words),
           words[at] = Checksum(words, at)
    PROVE  Valid(words)
<1> DEFINE n == Len(words)
           m == Word - 1
           s == Sums(words, at)[n]
           w == words[at]
           t == Totals(words)[n]
<1>n. n \in Nat /\ n \in 0..n /\ at <= n /\ at \in Nat
  BY LenProperties
<1>m. m \in Nat \ {0}
  BY FilterConstants
<1>s. s \in 0..m
  BY <1>n, SumsFacts
<1>t. t \in Nat
  BY <1>n, WordsAreNaturals, TotalsFacts
<1>w. w = m - s
  BY DEF Checksum
<1>1. PICK k \in Nat : t = s + k * m + IF at <= n THEN w ELSE 0
  BY <1>n, SumsAndTotals
<1>2. k * m \in Nat /\ (k + 1) * m = k * m + m
  BY <1>m, TimesSuccessor
<1>3. t = (k + 1) * m
  <2> DEFINE km == k * m
             km1 == (k + 1) * m
  <2>1. km \in Nat /\ km1 = km + m /\ t = s + km + w
    BY <1>1, <1>2, <1>n
  <2> HIDE DEF km, km1, s, w, t, m
  <2>2. t = km1
    BY <2>1, <1>w, <1>s, <1>m
  <2> QED BY <2>2 DEF km1
<1> QED
  BY <1>3, <1>t, ValidIsMultiple DEF Total

(* A valid one has that checksum there, unless it is the negative zero.    *)
LEMMA ValidIsChecksum ==
    ASSUME NEW words \in Seq(0..Word - 1), NEW at \in 2..Len(words), words[1] > 0,
           Valid(words), words[at] # Word - 1
    PROVE  words[at] = Checksum(words, at)
<1> DEFINE n == Len(words)
           m == Word - 1
           s == Sums(words, at)[n]
           w == words[at]
           t == Totals(words)[n]
<1>n. n \in Nat /\ n \in 0..n /\ n \in 1..n /\ at <= n /\ at \in Nat /\ at # 1 /\ at \in 1..n
  BY LenProperties
<1>m. m \in Nat \ {0}
  BY FilterConstants
<1>s. s \in 1..m
  <2>1. s \in 0..m
    BY <1>n, SumsFacts
  <2>2. s > 0
    BY <1>n, SumsPositive
  <2> QED BY <1>m, <2>1, <2>2
<1>t. t \in Nat
  BY <1>n, WordsAreNaturals, TotalsFacts
<1>w. w \in 0..m - 1
  <2>1. w \in 0..m /\ w # m
    BY <1>n, ElementOfSeq
  <2> QED BY <1>m, <2>1
<1>1. PICK k \in Nat : t = s + k * m + IF at <= n THEN w ELSE 0
  BY <1>n, SumsAndTotals
<1>2. PICK j \in Nat : t = (j + 1) * m
  BY <1>t, ValidIsMultiple DEF Total
<1> HIDE DEF n, m, s, w, t
<1>3. s + w = m
  <2>1. s + w \in 1..m + m - 1
    BY <1>s, <1>w, <1>m
  <2>2. t = k * m + (s + w)
    <3> DEFINE km == k * m
    <3>1. km \in Int /\ t = s + km + w
      BY <1>1, <1>n, <1>m
    <3> HIDE DEF km
    <3>2. t = km + (s + w)
      BY <3>1, <1>s, <1>w, <1>m
    <3> QED BY <3>2 DEF km
  <2>3. CASE s + w < m
    <3>1. s + w \in 0..m - 1
      BY <2>1, <2>3, <1>m
    <3>2. t % m = s + w
      BY <2>2, <3>1, <1>m, ModUnique
    <3>3. 0 \in 0..m - 1 /\ j + 1 \in Nat
      BY <1>m
    <3>4. ((j + 1) * m + 0) % m = 0
      BY <3>3, <1>m, ModUnique
    <3>5. (j + 1) * m + 0 = t
      BY <1>2, <1>t
    <3> QED BY <3>2, <3>4, <3>5, <2>1, <1>m
  <2>4. CASE s + w > m
    <3>1. (s + w) - m \in 0..m - 1 /\ (s + w) - m # 0
      BY <2>1, <2>4, <1>m
    <3>2. k * m \in Nat /\ (k + 1) * m = k * m + m /\ k + 1 \in Nat
      BY <1>m, TimesSuccessor
    <3>3. t = (k + 1) * m + ((s + w) - m)
      <4> DEFINE km == k * m
                 km1 == (k + 1) * m
                 sw == s + w
      <4>1. km \in Nat /\ km1 = km + m /\ t = km + sw /\ sw \in Int
        BY <3>2, <2>2, <2>1, <1>m
      <4> HIDE DEF km, km1, sw
      <4>2. t = km1 + (sw - m)
        BY <4>1, <1>m
      <4> QED BY <4>2 DEF km1, sw
    <3>4. t % m = (s + w) - m
      BY <3>1, <3>2, <3>3, <1>m, ModUnique
    <3>5. 0 \in 0..m - 1 /\ j + 1 \in Nat
      BY <1>m
    <3>6. ((j + 1) * m + 0) % m = 0
      BY <3>5, <1>m, ModUnique
    <3>7. (j + 1) * m + 0 = t
      BY <1>2, <1>t
    <3> QED BY <3>1, <3>4, <3>6, <3>7
  <2> QED BY <2>1, <2>3, <2>4, <1>m
<1>4. w = m - s
  BY <1>3, <1>s, <1>w, <1>m
<1> QED
  BY <1>4 DEF Checksum, n, m, s, w

(* The word that holds the checksum does not count.                        *)
LEMMA ChecksumElsewhere ==
    ASSUME NEW u \in Seq(0..Word - 1), NEW v \in Seq(0..Word - 1), NEW at \in Nat,
           Len(u) = Len(v), \A i \in 1..Len(u) : i # at => u[i] = v[i]
    PROVE  Checksum(u, at) = Checksum(v, at)
<1> DEFINE n == Len(u)
           f == Sums(u, at)
           g == Sums(v, at)
           S == {i \in 0..n : f[i] = g[i]}
<1>n. n \in Nat /\ n \in 0..n
  BY LenProperties
<1>u. \A i \in 1..n : i # at => u[i] = v[i]
  OBVIOUS
<1>f. f[0] = 0 /\ \A i \in 1..n : f[i] = IF i = at THEN f[i - 1] ELSE AddWord(f[i - 1], u[i])
  BY SumsFacts
<1>g. g[0] = 0 /\ \A i \in 1..n : g[i] = IF i = at THEN g[i - 1] ELSE AddWord(g[i - 1], v[i])
  BY SumsFacts
<1> HIDE DEF n, f, g
<1>1. 0 \in S
  BY <1>n, <1>f, <1>g
<1>2. ASSUME NEW i \in 0..n, i < n, i \in S PROVE i + 1 \in S
  <2>1. i + 1 \in 1..n /\ i + 1 \in 0..n /\ (i + 1) - 1 = i
    BY <1>2, <1>n
  <2>2. f[i + 1] = IF i + 1 = at THEN f[i] ELSE AddWord(f[i], u[i + 1])
    BY <1>f, <2>1
  <2>3. g[i + 1] = IF i + 1 = at THEN g[i] ELSE AddWord(g[i], v[i + 1])
    BY <1>g, <2>1
  <2>4. f[i] = g[i] /\ (i + 1 # at => u[i + 1] = v[i + 1])
    BY <1>2, <1>u, <2>1
  <2>5. f[i + 1] = g[i + 1]
    BY <2>2, <2>3, <2>4
  <2> QED BY <2>1, <2>5
<1>3. \A i \in 0..n : i \in S
  <2> HIDE DEF S
  <2> QED BY <1>1, <1>2, <1>n, UptoInduction
<1>4. f[n] = g[n]
  BY <1>3, <1>n
<1> QED
  BY <1>4 DEF Checksum, n, f, g

LEMMA ChecksumType ==
    ASSUME NEW words \in Seq(0..Word - 1), NEW at \in Nat
    PROVE  Checksum(words, at) \in 0..Word - 1
<1>1. Len(words) \in Nat /\ Len(words) \in 0..Len(words)
  BY LenProperties
<1>2. Sums(words, at)[Len(words)] \in 0..Word - 1
  BY <1>1, SumsFacts
<1> QED
  BY <1>2, FilterConstants DEF Checksum

(* The echo requests that have to be answered, by the data alone.          *)
IsRequest(data) == Len(data) >= MinIcmp /\ data[1] = Echo /\ Valid(data) /\ data[2] # Word - 1

LEMMA RequestIsRecognized ==
    ASSUME NEW data \in Seq(0..Word - 1)
    PROVE  IsRequest(data) <=> Len(data) >= MinIcmp /\ Checksum(data, 2) = data[2] /\ data[1] = Echo
<1>1. SUFFICES ASSUME Len(data) >= MinIcmp, data[1] = Echo
               PROVE  Valid(data) /\ data[2] # Word - 1 <=> Checksum(data, 2) = data[2]
  BY DEF IsRequest
<1>2. Len(data) \in Nat /\ 2 \in 2..Len(data) /\ 2 \in 1..Len(data) /\ Len(data) > 0
  BY <1>1, LenProperties, FilterConstants
<1>3. data[1] > 0 /\ Len(data) \in 1..Len(data)
  BY <1>1, <1>2, FilterConstants
<1>4. ASSUME Checksum(data, 2) = data[2] PROVE Valid(data) /\ data[2] # Word - 1
  <2>1. Valid(data)
    BY <1>2, <1>4, ChecksumIsValid
  <2>2. Sums(data, 2)[Len(data)] > 0
    BY <1>2, <1>3, SumsPositive
  <2>3. Sums(data, 2)[Len(data)] \in 0..Word - 1
    BY <1>2, SumsFacts
  <2>4. data[2] # Word - 1
    BY <1>4, <2>2, <2>3, FilterConstants DEF Checksum
  <2> QED BY <2>1, <2>4
<1>5. ASSUME Valid(data), data[2] # Word - 1 PROVE Checksum(data, 2) = data[2]
  BY <1>2, <1>3, <1>5, ValidIsChecksum
<1> QED
  BY <1>4, <1>5

(* The words of the reply.                                                 *)
LEMMA ReplyWords ==
    ASSUME NEW data \in Seq(0..Word - 1), Len(data) >= 2
    PROVE  LET echo == [data EXCEPT ![1] = 0]
               words == [echo EXCEPT ![2] = Checksum(echo, 2)]
           IN  /\ Valid(words)
               /\ words[1] = 0
               /\ SubSeq(words, 3, Len(words)) = SubSeq(data, 3, Len(data))
<1> DEFINE echo == [data EXCEPT ![1] = 0]
           c == Checksum(echo, 2)
           words == [echo EXCEPT ![2] = c]
           n == Len(data)
<1>n. n \in Nat /\ 1 \in 1..n /\ 2 \in 1..n /\ 0 \in 0..Word - 1
  BY LenProperties, FilterConstants
<1>1. /\ echo \in Seq(0..Word - 1)
      /\ Len(echo) = n
      /\ \A j \in 1..n : echo[j] = IF j = 1 THEN 0 ELSE data[j]
  <2> HIDE DEF n
  <2>1. n = Len(data)
    BY DEF n
  <2> QED BY <1>n, <2>1, ExceptSeq
<1>2. c \in 0..Word - 1
  BY <1>1, ChecksumType
<1> HIDE DEF echo, c
<1>3. /\ words \in Seq(0..Word - 1)
      /\ Len(words) = n
      /\ \A j \in 1..n : words[j] = IF j = 2 THEN c ELSE echo[j]
  <2> HIDE DEF n
  <2> QED BY <1>n, <1>1, <1>2, ExceptSeq
<1> HIDE DEF words, n
<1>4. Checksum(words, 2) = c
  <2>1. \A i \in 1..Len(words) : i # 2 => words[i] = echo[i]
    BY <1>3
  <2>2. Checksum(words, 2) = Checksum(echo, 2)
    BY <1>1, <1>3, <2>1, ChecksumElsewhere
  <2> QED BY <2>2 DEF c
<1>5. Valid(words)
  BY <1>3, <1>4, <1>n, ChecksumIsValid
<1>6. words[1] = 0
  BY <1>1, <1>3, <1>n
<1>7. SubSeq(words, 3, Len(words)) = SubSeq(data, 3, Len(data))
  <2>1. \A i \in 3..n : words[i] \in 0..Word - 1 /\ data[i] \in 0..Word - 1 /\ words[i] = data[i]
    <3>1. \A i \in 3..n : i \in 1..n /\ i # 1 /\ i # 2
      BY <1>n
    <3>2. \A i \in 1..n : words[i] \in 0..Word - 1 /\ data[i] \in 0..Word - 1
      BY <1>3, ElementOfSeq DEF n
    <3> QED BY <3>1, <3>2, <1>1, <1>3
  <2> DEFINE s == SubSeq(words, 3, n)
             t == SubSeq(data, 3, n)
  <2>2. /\ s \in Seq(0..Word - 1) /\ Len(s) = IF 3 <= n THEN n - 3 + 1 ELSE 0
        /\ \A i \in 1..n - 3 + 1 : s[i] = words[3 + i - 1]
    BY <2>1, <1>n, SubSeqProperties
  <2>3. /\ t \in Seq(0..Word - 1) /\ Len(t) = IF 3 <= n THEN n - 3 + 1 ELSE 0
        /\ \A i \in 1..n - 3 + 1 : t[i] = data[3 + i - 1]
    BY <2>1, <1>n, SubSeqProperties
  <2> HIDE DEF s, t
  <2>4. Len(s) = Len(t)
    BY <2>2, <2>3
  <2>5. ASSUME NEW i \in 1..Len(s) PROVE s[i] = t[i]
    <3>1. 3 <= n /\ i \in 1..n - 3 + 1 /\ 3 + i - 1 \in 3..n
      BY <2>2, <1>n
    <3>2. words[3 + i - 1] = data[3 + i - 1]
      BY <3>1, <2>1
    <3> QED BY <3>1, <3>2, <2>2, <2>3
  <2>6. s = t
    BY <2>2, <2>3, <2>4, <2>5, SeqEqual
  <2> QED BY <2>6, <1>3 DEF s, t, n
<1> QED
  BY <1>5, <1>6, <1>7 DEF words, echo, c

(* The data of a datagram that passes the tests of the header is there.    *)
LEMMA DataType ==
    ASSUME NEW f \in Frames, f.type = "ipv4", NEW addr, ForMe(f, addr)
    PROVE  /\ Data(f) \in Seq(0..Word - 1)
           /\ f.sz >= MinHeader /\ f.header <= f.sz
<1>1. /\ f.sz \in Nat /\ f.header \in Nat /\ f.total \in Nat
      /\ f.words \in Seq(0..Word - 1)
      /\ MinHeader <= f.header /\ f.total <= f.sz => f.total - f.header <= Len(f.words)
  BY FramesAssumption
<1>2. MinHeader <= f.header /\ f.header <= f.total /\ f.total <= f.sz
  BY DEF ForMe
<1>3. MinHeader \in Nat
  BY FilterConstants
<1> DEFINE words == f.words
           n == f.total - f.header
<1>4. n \in Nat /\ n <= Len(words) /\ words \in Seq(0..Word - 1)
  BY <1>1, <1>2
<1> HIDE DEF words, n
<1>5. \A i \in 1..n : words[i] \in 0..Word - 1
  <2>1. Len(words) \in Nat /\ \A i \in 1..Len(words) : words[i] \in 0..Word - 1
    BY <1>4, LenProperties, ElementOfSeq
  <2>2. \A i \in 1..n : i \in 1..Len(words)
    BY <1>4, <2>1
  <2> QED BY <2>1, <2>2
<1>6. SubSeq(words, 1, n) \in Seq(0..Word - 1)
  BY <1>4, <1>5, SubSeqProperties
<1> QED
  BY <1>1, <1>2, <1>3, <1>6 DEF Data, words, n

(* What the handlers make of a datagram.                                   *)
LEMMA DatagramAnswer ==
    ASSUME NEW f \in Frames, f.type = "ipv4", NEW addr
    PROVE  net_idle_handle(f, addr) =
              IF ~ForMe(f, addr) THEN None
              ELSE IF f.proto = "icmp" THEN net_on_ipv4_icmp(f, Data(f))
              ELSE IF f.proto = "udp" THEN [type |-> "command", to |-> f.src, ip |-> f.from]
              ELSE None
<1>1. CASE f.dst \notin {"all", "me"}
  <2>1. ~ForMe(f, addr)
    BY <1>1 DEF ForMe
  <2>2. net_idle_handle(f, addr) = None
    BY <1>1 DEF net_idle_handle
  <2> QED BY <2>1, <2>2
<1>2. CASE f.dst \in {"all", "me"}
  <2>1. net_idle_handle(f, addr) = net_on_ipv4(f, addr)
    BY <1>2 DEF net_idle_handle
  <2>2. CASE ForMe(f, addr)
    <3>1. f.sz >= MinHeader /\ f.header <= f.sz
      BY <2>2, DataType
    <3>2. f.header >= MinHeader
      BY <2>2, FilterConstants, FramesAssumption DEF ForMe
    <3>3. net_on_ipv4(f, addr) =
              CASE f.proto = "icmp" -> net_on_ipv4_icmp(f, Data(f))
                [] f.proto = "udp"  -> [type |-> "command", to |-> f.src, ip |-> f.from]
                [] OTHER -> None
      BY <2>2, <3>1, <3>2 DEF net_on_ipv4, ForMe, Data
    <3> QED BY <2>1, <2>2, <3>3
  <2>3. CASE ~ForMe(f, addr)
    <3>1. f.header >= MinHeader <=> MinHeader <= f.header
      BY FilterConstants, FramesAssumption
    <3>2. net_on_ipv4(f, addr) = None
      BY <1>2, <2>3, <3>1 DEF net_on_ipv4, ForMe
    <3> QED BY <2>1, <2>3, <3>2
  <2> QED BY <2>2, <2>3
<1> QED
  BY <1>1, <1>2

LEMMA IcmpAnswer ==
    ASSUME NEW f, NEW data \in Seq(0..Word - 1)
    PROVE  LET a == net_on_ipv4_icmp(f, data)
           IN  /\ ~IsRequest(data) => a = None
               /\ IsRequest(data) =>
                     /\ a.type = "echo reply" /\ a.to = f.src /\ a.ip = f.from
                     /\ Valid(a.words) /\ a.words[1] = 0
                     /\ SubSeq(a.words, 3, Len(a.words)) = SubSeq(data, 3, Len(data))
<1> DEFINE echo == [data EXCEPT ![1] = 0]
           words == [echo EXCEPT ![2] = Checksum(echo, 2)]
           a == net_on_ipv4_icmp(f, data)
           b == [type |-> "echo reply", to |-> f.src, ip |-> f.from, odd |-> f.odd, words |-> words]
<1>1. a = IF IsRequest(data) THEN b ELSE None
  BY RequestIsRecognized DEF net_on_ipv4_icmp
<1>2. ASSUME IsRequest(data)
      PROVE  /\ Valid(words) /\ words[1] = 0
             /\ SubSeq(words, 3, Len(words)) = SubSeq(data, 3, Len(data))
  <2>1. Len(data) >= 2
    BY <1>2, LenProperties, FilterConstants DEF IsRequest
  <2> QED BY <2>1, ReplyWords
<1> HIDE DEF words
<1>3. b.type = "echo reply" /\ b.to = f.src /\ b.ip = f.from /\ b.words = words
  OBVIOUS
<1> HIDE DEF a, b
<1>4. IsRequest(data) =>
         /\ a.type = "echo reply" /\ a.to = f.src /\ a.ip = f.from
         /\ Valid(a.words) /\ a.words[1] = 0
         /\ SubSeq(a.words, 3, Len(a.words)) = SubSeq(data, 3, Len(data))
  BY <1>1, <1>2, <1>3
<1> QED
  BY <1>1, <1>4 DEF a

(* The second part of RightAnswers, for every address.                     *)
LEMMA FramesAnswered ==
    ASSUME NEW f \in Frames, NEW addr
    PROVE  LET a == net_idle_handle(f, addr)
           IN  /\ f.type = "other" => a = None
               /\ f.type = "arp" =>
                     (a # None <=> f.dst \in {"all", "me"} /\ f.form = "ethernet and IPv4"
                                     /\ f.op = "request" /\ f.ip = addr)
               /\ f.type = "ipv4" /\ f.proto # "icmp" =>
                     (a # None <=> ForMe(f, addr) /\ f.proto = "udp")
               /\ f.type = "ipv4" /\ f.proto = "icmp" =>
                     IF EchoForMe(f, addr)
                     THEN /\ a.type = "echo reply" /\ a.to = f.src /\ a.ip = f.from
                          /\ Valid(a.words) /\ a.words[1] = 0
                          /\ SubSeq(a.words, 3, Len(a.words)) = SubSeq(Data(f), 3, Len(Data(f)))
                     ELSE a = None
               /\ a.type = "echo reply" => Valid(a.words)
<1> DEFINE a == net_idle_handle(f, addr)
<1>n. None.type = "none"
  BY DEF None
<1>1. ASSUME f.type \notin {"arp", "ipv4"} PROVE a = None
  BY <1>1 DEF net_idle_handle
<1>2. ASSUME f.type = "arp"
      PROVE  /\ (a # None <=> f.dst \in {"all", "me"} /\ f.form = "ethernet and IPv4"
                                /\ f.op = "request" /\ f.ip = addr)
             /\ a.type # "echo reply"
  <2> DEFINE b == [type |-> "arp reply", to |-> f.src, ip |-> addr, asked |-> f.from]
             ok == f.dst \in {"all", "me"} /\ f.form = "ethernet and IPv4"
                      /\ f.op = "request" /\ f.ip = addr
  <2>1. a = IF ok THEN b ELSE None
    BY <1>2 DEF net_idle_handle, net_on_arp
  <2>2. b.type = "arp reply"
    OBVIOUS
  <2> HIDE DEF a, b
  <2> QED BY <2>1, <2>2, <1>n
<1>3. ASSUME f.type = "ipv4", f.proto # "icmp"
      PROVE  /\ (a # None <=> ForMe(f, addr) /\ f.proto = "udp")
             /\ a.type # "echo reply"
  <2> DEFINE b == [type |-> "command", to |-> f.src, ip |-> f.from]
  <2>1. a = IF ForMe(f, addr) /\ f.proto = "udp" THEN b ELSE None
    BY <1>3, DatagramAnswer
  <2>2. b.type = "command"
    OBVIOUS
  <2> HIDE DEF a, b
  <2> QED BY <2>1, <2>2, <1>n
<1>4. ASSUME f.type = "ipv4", f.proto = "icmp"
      PROVE  IF EchoForMe(f, addr)
             THEN /\ a.type = "echo reply" /\ a.to = f.src /\ a.ip = f.from
                  /\ Valid(a.words) /\ a.words[1] = 0
                  /\ SubSeq(a.words, 3, Len(a.words)) = SubSeq(Data(f), 3, Len(Data(f)))
             ELSE a = None
  <2> DEFINE b == net_on_ipv4_icmp(f, Data(f))
  <2>1. a = IF ForMe(f, addr) THEN b ELSE None
    BY <1>4, DatagramAnswer
  <2>2. EchoForMe(f, addr) <=> ForMe(f, addr) /\ IsRequest(Data(f))
    BY DEF EchoForMe, IsRequest
  <2> HIDE DEF a
  <2>3. CASE ForMe(f, addr)
    <3>1. Data(f) \in Seq(0..Word - 1)
      BY <1>4, <2>3, DataType
    <3>2. /\ ~IsRequest(Data(f)) => b = None
          /\ IsRequest(Data(f)) =>
               /\ b.type = "echo reply" /\ b.to = f.src /\ b.ip = f.from
               /\ Valid(b.words) /\ b.words[1] = 0
               /\ SubSeq(b.words, 3, Len(b.words)) = SubSeq(Data(f), 3, Len(Data(f)))
      BY <3>1, IcmpAnswer
    <3> HIDE DEF b
    <3>3. a = b
      BY <2>1, <2>3
    <3> QED BY <2>2, <2>3, <3>2, <3>3
  <2>4. CASE ~ForMe(f, addr)
    BY <2>1, <2>2, <2>4
  <2> QED BY <2>3, <2>4
<1>5. a.type = "echo reply" => Valid(a.words)
  <2> HIDE DEF a
  <2>1. CASE f.type \notin {"arp", "ipv4"}
    BY <2>1, <1>1, <1>n
  <2>2. CASE f.type = "arp"
    BY <2>2, <1>2
  <2>3. CASE f.type = "ipv4" /\ f.proto # "icmp"
    BY <2>3, <1>3
  <2>4. CASE f.type = "ipv4" /\ f.proto = "icmp"
    BY <2>4, <1>4, <1>n
  <2> QED BY <2>1, <2>2, <2>3, <2>4
<1> HIDE DEF a
<1>6. f.type = "other" => a = None
  BY <1>1
<1> QED
  BY <1>2, <1>3, <1>4, <1>5, <1>6 DEF a

-----------------------------------------------------------------------------
(* The table of PCI functions.                                             *)

LEMMA MinFacts ==
    ASSUME NEW S \in SUBSET Nat, S # {}
    PROVE  Min(S) \in S /\ \A y \in S : Min(S) <= y
<1> DEFINE R == OpToRel(<, Nat)
<1>1. IsWellFoundedOn(R, Nat)
  BY NatLessThanWellFounded
<1>2. PICK x \in S : \A y \in S : ~(<<y, x>> \in R)
  BY <1>1, WFMin
<1>3. \A u, v \in Nat : <<v, u>> \in R <=> v < u
  BY DEF OpToRel
<1> HIDE DEF R
<1>4. x \in S /\ \A y \in S : x <= y
  <2>1. ASSUME NEW y \in S PROVE x <= y
    <3>1. x \in Nat /\ y \in Nat /\ ~(y < x)
      BY <1>2, <1>3
    <3> QED BY <3>1
  <2> QED BY <2>1
<1> QED
  BY <1>4 DEF Min

(* An ordered set has an element of every rank, and only one.              *)
Below(S, R, a) == {b \in S : <<b, a>> \in R}

LEMMA RanksAreDistinct ==
    ASSUME NEW S, IsFiniteSet(S), NEW R,
           \A a \in S : <<a, a>> \notin R,
           \A a, b, c \in S : <<a, b>> \in R /\ <<b, c>> \in R => <<a, c>> \in R,
           NEW a \in S, NEW b \in S, <<a, b>> \in R
    PROVE  Cardinality(Below(S, R, a)) # Cardinality(Below(S, R, b))
<1>1. Below(S, R, b) \in SUBSET S
  BY DEF Below
<1>2. IsFiniteSet(Below(S, R, b))
  BY <1>1, FS_Subset
<1>3. Below(S, R, a) \in SUBSET Below(S, R, b)
  BY DEF Below
<1>4. a \in Below(S, R, b) /\ a \notin Below(S, R, a)
  BY DEF Below
<1>5. Below(S, R, b) # Below(S, R, a)
  BY <1>4
<1> QED
  BY <1>2, <1>3, <1>5, FS_Subset

LEMMA EveryRank ==
    ASSUME NEW S, IsFiniteSet(S), NEW R,
           \A a \in S : <<a, a>> \notin R,
           \A a, b, c \in S : <<a, b>> \in R /\ <<b, c>> \in R => <<a, c>> \in R,
           \A a, b \in S : a = b \/ <<a, b>> \in R \/ <<b, a>> \in R
    PROVE  \A i \in 1..Cardinality(S) : \E a \in S : Cardinality(Below(S, R, a)) = i - 1
<1> DEFINE n == Cardinality(S)
           r == [a \in S |-> Cardinality(Below(S, R, a))]
<1>n. n \in Nat
  BY FS_CardinalityType
<1>1. ASSUME NEW a \in S PROVE Cardinality(Below(S, R, a)) \in 0..n - 1
  <2>1. Below(S, R, a) \in SUBSET (S \ {a})
    BY DEF Below
  <2>2. IsFiniteSet(S \ {a}) /\ Cardinality(S \ {a}) = n - 1
    BY FS_RemoveElement
  <2>3. IsFiniteSet(Below(S, R, a)) /\ Cardinality(Below(S, R, a)) <= n - 1
    BY <2>1, <2>2, FS_Subset
  <2>4. Cardinality(Below(S, R, a)) \in Nat
    BY <2>3, FS_CardinalityType
  <2> QED BY <2>3, <2>4, <1>n
<1>2. \A a, b \in S : r[a] = r[b] => a = b
  <2>1. ASSUME NEW a \in S, NEW b \in S, a # b PROVE r[a] # r[b]
    <3>1. CASE <<a, b>> \in R
      BY <3>1, RanksAreDistinct
    <3>2. CASE <<b, a>> \in R
      BY <3>2, RanksAreDistinct
    <3> QED BY <2>1, <3>1, <3>2
  <2> QED BY <2>1
<1>3. r \in Injection(S, 0..n - 1)
  BY <1>1, <1>2 DEF Injection, IsInjective
<1>4. IsFiniteSet(0..n - 1) /\ Cardinality(0..n - 1) = n
  <2>1. 0 \in Int /\ n - 1 \in Int
    BY <1>n
  <2>2. IsFiniteSet(0..n - 1) /\ Cardinality(0..n - 1) = IF 0 > n - 1 THEN 0 ELSE (n - 1) - 0 + 1
    BY <2>1, FS_Interval
  <2> QED BY <2>2, <1>n
<1> HIDE DEF r
<1>5. r \in Surjection(S, 0..n - 1)
  BY <1>3, <1>4, FS_Injection
<1>6. ASSUME NEW i \in 1..n PROVE \E a \in S : Cardinality(Below(S, R, a)) = i - 1
  <2>1. i - 1 \in 0..n - 1
    BY <1>n
  <2>2. PICK a \in S : r[a] = i - 1
    BY <1>5, <2>1 DEF Surjection
  <2> QED BY <2>2 DEF r
<1> QED
  BY <1>6

(* The scan ends before the numbers of the buses wrap around.              *)
LEMMA ScanEndsBeforeWrap ==
    ASSUME NEW m, m.buses \in Nat \ {0}
    PROVE  pci_max_bus(m) \in Nat /\ pci_max_bus(m) <= m.buses
<1> DEFINE n == m.buses
           S == SameAsBus0(m)
           e == pci_max_bus(m)
<1>b. Buses \in Nat \ {0}
  BY PciConstants
<1>n. n \in Nat \ {0}
  OBVIOUS
<1>s. S \in SUBSET (1..Buses - 1)
  BY DEF SameAsBus0
<1>1. n \in 1..Buses - 1 => n \in S
  <2>1. n % n = 0 /\ 0 % n = 0
    <3>1. 0 \in 0..n - 1
      BY <1>n
    <3>2. (1 * n + 0) % n = 0 /\ (0 * n + 0) % n = 0
      BY <3>1, <1>n, ModUnique
    <3>3. 1 * n + 0 = n /\ 0 * n + 0 = 0
      BY <1>n
    <3> QED BY <3>2, <3>3
  <2>2. pci_config_read_imm(m, n, 0, 0) = pci_config_read_imm(m, 0, 0, 0)
    BY <2>1 DEF pci_config_read_imm
  <2> QED BY <2>2 DEF SameAsBus0
<1>2. e = IF S = {} THEN Buses ELSE Min(S)
  BY DEF pci_max_bus
<1> HIDE DEF n, S, e
<1>3. CASE S = {}
  BY <1>1, <1>2, <1>3, <1>b, <1>n DEF n, e
<1>4. CASE S # {}
  <2>1. S \in SUBSET Nat
    BY <1>s, <1>b
  <2>2. e \in S /\ \A y \in S : e <= y
    BY <1>2, <1>4, <2>1, MinFacts
  <2>3. e \in 1..Buses - 1
    BY <2>2, <1>s
  <2>4. e \in Nat /\ e <= n
    BY <2>2, <2>3, <1>1, <1>n, <1>b
  <2> QED BY <2>4 DEF n, e
<1> QED
  BY <1>3, <1>4

LEMMA BusesDistinct ==
    ASSUME NEW m, m.buses \in Nat \ {0},
           NEW u \in 0..pci_max_bus(m) - 1, NEW v \in 0..pci_max_bus(m) - 1,
           u % m.buses = v % m.buses
    PROVE  u = v
<1> DEFINE n == m.buses
<1>n. n \in Nat \ {0}
  OBVIOUS
<1>1. u \in 0..n - 1 /\ v \in 0..n - 1
  BY ScanEndsBeforeWrap
<1>2. u % n = v % n
  OBVIOUS
<1> HIDE DEF n
<1>3. (0 * n + u) % n = u /\ (0 * n + v) % n = v
  BY <1>1, <1>n, ModUnique
<1>4. 0 * n + u = u /\ 0 * n + v = v
  BY <1>1, <1>n
<1> QED
  BY <1>2, <1>3, <1>4

(* The addresses that answer are ordered by Before.                        *)
LEMMA AnsweringFacts ==
    ASSUME NEW m, m.buses \in Nat \ {0}
    PROVE  /\ IsFiniteSet(Answering(m))
           /\ \A a \in Answering(m) :
                 /\ a = <<a[1], a[2], a[3]>>
                 /\ a[1] \in 0..pci_max_bus(m) - 1 /\ a[2] \in Nat /\ a[3] \in Nat
<1> DEFINE B == 0..pci_max_bus(m) - 1
           D == 0..Devices - 1
           F == 0..Functions - 1
<1>b. pci_max_bus(m) \in Nat /\ Devices \in Nat /\ Functions \in Nat
  BY PciConstants, ScanEndsBeforeWrap
<1>1. IsFiniteSet(B) /\ IsFiniteSet(D) /\ IsFiniteSet(F)
  <2>1. 0 \in Int /\ pci_max_bus(m) - 1 \in Int /\ Devices - 1 \in Int /\ Functions - 1 \in Int
    BY <1>b
  <2> QED BY <2>1, FS_Interval
<1>d. D \in SUBSET Nat /\ F \in SUBSET Nat
  BY <1>b
<1>a. Answering(m) \in SUBSET (B \X D \X F)
  BY DEF Answering
<1> HIDE DEF B, D, F
<1>2. IsFiniteSet(B \X D \X F)
  <2> DEFINE DF == D \X F
             BDF == B \X DF
             g == [p \in BDF |-> <<p[1], p[2][1], p[2][2]>>]
             T == B \X D \X F
  <2>1. IsFiniteSet(BDF)
    BY <1>1, FS_Product
  <2>2. g \in Surjection(BDF, T)
    <3>1. g \in [BDF -> T]
      OBVIOUS
    <3>2. ASSUME NEW t \in T PROVE \E p \in BDF : g[p] = t
      <4>1. t[1] \in B /\ t[2] \in D /\ t[3] \in F /\ t = <<t[1], t[2], t[3]>>
        OBVIOUS
      <4>2. <<t[1], <<t[2], t[3]>>>> \in BDF
        BY <4>1
      <4>3. g[<<t[1], <<t[2], t[3]>>>>] = t
        BY <4>1, <4>2
      <4> QED BY <4>2, <4>3
    <3> QED BY <3>1, <3>2 DEF Surjection
  <2> HIDE DEF g, BDF, T
  <2>3. IsFiniteSet(T)
    BY <2>1, <2>2, FS_Surjection
  <2> QED BY <2>3 DEF T
<1>3. IsFiniteSet(Answering(m))
  BY <1>a, <1>2, FS_Subset
<1>4. ASSUME NEW a \in Answering(m)
      PROVE  a = <<a[1], a[2], a[3]>> /\ a[1] \in B /\ a[2] \in Nat /\ a[3] \in Nat
  <2>1. a \in B \X D \X F
    BY <1>a
  <2>2. a = <<a[1], a[2], a[3]>> /\ a[1] \in B /\ a[2] \in D /\ a[3] \in F
    BY <2>1
  <2> QED BY <2>2, <1>d
<1> QED
  BY <1>3, <1>4 DEF B

LEMMA NthFacts ==
    ASSUME NEW m, m.buses \in Nat \ {0}, NEW i \in 1..Cardinality(Answering(m))
    PROVE  /\ Nth(Answering(m), i) \in Answering(m)
           /\ Cardinality({b \in Answering(m) : Before(b, Nth(Answering(m), i))}) = i - 1
<1> DEFINE A == Answering(m)
           R == {p \in A \X A : Before(p[1], p[2])}
<1>1. IsFiniteSet(A)
  BY AnsweringFacts
<1>2. \A a \in A : /\ a = <<a[1], a[2], a[3]>>
                   /\ a[1] \in Nat /\ a[2] \in Nat /\ a[3] \in Nat
  <2>1. pci_max_bus(m) \in Nat
    BY ScanEndsBeforeWrap
  <2> QED BY <2>1, AnsweringFacts
<1> HIDE DEF A
<1>3. \A a, b \in A : <<a, b>> \in R <=> Before(a, b)
  OBVIOUS
<1> HIDE DEF R
<1>4. \A a \in A : <<a, a>> \notin R
  BY <1>2, <1>3 DEF Before
<1>5. \A a, b, c \in A : <<a, b>> \in R /\ <<b, c>> \in R => <<a, c>> \in R
  BY <1>2, <1>3 DEF Before
<1>6. \A a, b \in A : a = b \/ <<a, b>> \in R \/ <<b, a>> \in R
  <2>1. ASSUME NEW a \in A, NEW b \in A, ~Before(a, b), ~Before(b, a) PROVE a = b
    <3>1. a[1] = b[1] /\ a[2] = b[2] /\ a[3] = b[3]
      BY <1>2, <2>1 DEF Before
    <3> QED BY <3>1, <1>2
  <2> QED BY <2>1, <1>3
<1>7. \E a \in A : Cardinality(Below(A, R, a)) = i - 1
  <2>1. i \in 1..Cardinality(A)
    BY DEF A
  <2> QED BY <1>1, <1>4, <1>5, <1>6, <2>1, EveryRank
<1>8. \A a \in A : Below(A, R, a) = {b \in A : Before(b, a)}
  BY <1>3 DEF Below
<1>9. \E a \in A : Cardinality({b \in A : Before(b, a)}) = i - 1
  BY <1>7, <1>8
<1> QED
  BY <1>9 DEF Nth, A

LEMMA TableFacts ==
    ASSUME NEW m, m.buses \in Nat \ {0}
    PROVE  /\ Len(pci_init(m)) \in Nat /\ Len(pci_init(m)) <= MaxDevice
           /\ DOMAIN pci_init(m) = 1..Len(pci_init(m))
           /\ \A i \in DOMAIN pci_init(m) : /\ i \in 1..Cardinality(Answering(m))
                                            /\ pci_init(m)[i] = Entry(m, Nth(Answering(m), i))
<1> DEFINE A == Answering(m)
           n == Cardinality(A)
           T == {Entry(m, Nth(A, i)) : i \in 1..n}
           s == [i \in 1..n |-> Entry(m, Nth(A, i))]
           k == Min({n, MaxDevice})
<1>n. n \in Nat
  BY AnsweringFacts, FS_CardinalityType
<1>m. MaxDevice \in Nat \ {0}
  BY PciConstants
<1>1. Found(m) = s
  BY DEF Found
<1>2. s \in [1..n -> T] /\ \A i \in 1..n : s[i] = Entry(m, Nth(A, i)) /\ s[i] \in T
  OBVIOUS
<1> HIDE DEF n, T, s
<1>3. s \in Seq(T)
  BY <1>2, <1>n
<1>4. Len(s) = n
  <2>1. Len(s) \in Nat /\ DOMAIN s = 1..Len(s)
    BY <1>3, LenProperties
  <2>2. DOMAIN s = 1..n
    BY <1>2
  <2>3. \A p, q \in Nat : p < q => q \in 1..q /\ q \notin 1..p
    OBVIOUS
  <2>4. ~(Len(s) < n) /\ ~(n < Len(s))
    BY <2>1, <2>2, <2>3, <1>n
  <2>5. \A p, q \in Nat : ~(p < q) /\ ~(q < p) => p = q
    OBVIOUS
  <2>6. Len(s) \in Nat
    BY <2>1
  <2> QED BY <2>4, <2>5, <2>6, <1>n, Zenon
<1>5. k \in Nat /\ k <= n /\ k <= MaxDevice
  <2>1. {n, MaxDevice} \in SUBSET Nat /\ {n, MaxDevice} # {}
    BY <1>n, <1>m
  <2>2. k \in {n, MaxDevice} /\ \A y \in {n, MaxDevice} : k <= y
    BY <2>1, MinFacts
  <2> QED BY <2>1, <2>2
<1> HIDE DEF k
<1>6. pci_init(m) = SubSeq(s, 1, k)
  BY <1>1, <1>4 DEF pci_init, k
<1> DEFINE t == SubSeq(s, 1, k)
<1>7. \A i \in 1..k : i \in 1..n /\ s[i] \in T
  BY <1>2, <1>5, <1>n
<1>8. t \in Seq(T) /\ Len(t) = k /\ \A i \in 1..k : t[i] = s[i]
  <2>1. 1 \in Int /\ k \in Int
    BY <1>5
  <2>2. /\ t \in Seq(T)
        /\ Len(t) = IF 1 <= k THEN k - 1 + 1 ELSE 0
        /\ \A i \in 1..k - 1 + 1 : t[i] = s[1 + i - 1]
    BY <2>1, <1>7, SubSeqProperties
  <2> HIDE DEF t
  <2>3. Len(t) = k
    BY <2>2, <1>5
  <2>4. ASSUME NEW i \in 1..k PROVE t[i] = s[i]
    <3>1. i \in 1..k - 1 + 1 /\ 1 + i - 1 = i
      BY <1>5
    <3> QED BY <2>2, <3>1
  <2> QED BY <2>2, <2>3, <2>4
<1> HIDE DEF t
<1>9. DOMAIN t = 1..k
  BY <1>8, LenProperties
<1>10. \A i \in DOMAIN t : i \in 1..n /\ t[i] = Entry(m, Nth(A, i))
  BY <1>2, <1>7, <1>8, <1>9
<1>11. pci_init(m) = t
  BY <1>6 DEF t
<1> QED
  BY <1>5, <1>8, <1>9, <1>10, <1>11 DEF n, A

LEMMA TableHasNoPhantoms ==
    ASSUME NEW m, m.buses \in Nat \ {0},
           NEW i \in DOMAIN pci_init(m), NEW j \in DOMAIN pci_init(m),
           pci_init(m)[i].bus % m.buses = pci_init(m)[j].bus % m.buses,
           pci_init(m)[i].device = pci_init(m)[j].device,
           pci_init(m)[i].function = pci_init(m)[j].function
    PROVE  i = j
<1> DEFINE A == Answering(m)
           a == Nth(A, i)
           b == Nth(A, j)
<1>1. /\ i \in 1..Cardinality(A) /\ j \in 1..Cardinality(A)
      /\ pci_init(m)[i] = Entry(m, a) /\ pci_init(m)[j] = Entry(m, b)
  BY TableFacts
<1>2. /\ Entry(m, a).bus = a[1] /\ Entry(m, a).device = a[2] /\ Entry(m, a).function = a[3]
      /\ Entry(m, b).bus = b[1] /\ Entry(m, b).device = b[2] /\ Entry(m, b).function = b[3]
  BY DEF Entry
<1>3. /\ a \in A /\ Cardinality({c \in A : Before(c, a)}) = i - 1
      /\ b \in A /\ Cardinality({c \in A : Before(c, b)}) = j - 1
  BY <1>1, NthFacts
<1>n. Cardinality(A) \in Nat
  BY AnsweringFacts, FS_CardinalityType
<1> HIDE DEF a, b
<1>4. a[1] % m.buses = b[1] % m.buses /\ a[2] = b[2] /\ a[3] = b[3]
  BY <1>1, <1>2
<1>5. /\ a[1] \in 0..pci_max_bus(m) - 1 /\ b[1] \in 0..pci_max_bus(m) - 1
      /\ a = <<a[1], a[2], a[3]>> /\ b = <<b[1], b[2], b[3]>>
  BY <1>3, AnsweringFacts
<1>6. a[1] = b[1]
  BY <1>4, <1>5, BusesDistinct
<1>7. a = b
  BY <1>4, <1>5, <1>6
<1>8. i - 1 = j - 1
  BY <1>3, <1>7
<1> QED
  BY <1>1, <1>8, <1>n

LEMMA AutoprobeType ==
    ASSUME NEW t, Len(t) \in Nat, Len(t) <= MaxDevice, DOMAIN t = 1..Len(t)
    PROVE  autoprobe(t) \in [drv : {"none", "pcnet32", "rtl8101", "ne2000"}, dev : 0..MaxDevice]
<1>m. MaxDevice \in Nat \ {0}
  BY PciConstants
<1>1. CASE KnownCards(t) = {}
  <2>1. autoprobe(t) = [drv |-> "none", dev |-> 0]
    BY <1>1 DEF autoprobe
  <2> QED BY <2>1, <1>m
<1>2. CASE KnownCards(t) # {}
  <2> DEFINE i == Min(KnownCards(t))
  <2>1. KnownCards(t) \in SUBSET Nat
    BY DEF KnownCards
  <2>2. i \in KnownCards(t)
    BY <1>2, <2>1, MinFacts
  <2>3. autoprobe(t) = [drv |-> known_pci_id[t[i].chip], dev |-> i]
    BY <1>2 DEF autoprobe
  <2> HIDE DEF i
  <2>4. i \in 1..Len(t) /\ t[i].chip \in DOMAIN known_pci_id
    BY <2>2 DEF KnownCards
  <2>5. i \in 0..MaxDevice
    BY <2>4, <1>m
  <2>6. known_pci_id[t[i].chip] \in {"pcnet32", "rtl8101"}
    BY <2>4 DEF known_pci_id
  <2> QED BY <2>3, <2>5, <2>6
<1> QED
  BY <1>1, <1>2

-----------------------------------------------------------------------------
(* The numbers of an address.                                              *)

Typed == {"1", "9", "."}

LEMMA BehindDigitsFacts ==
    ASSUME NEW s \in Seq(Typed), NEW p \in Nat \ {0}
    PROVE  /\ BehindDigits(s, p) \in Nat /\ BehindDigits(s, p) <= Len(s) + 1
           /\ BehindDigits(s, p) >= p \/ BehindDigits(s, p) = Len(s) + 1
           /\ \A i \in p..BehindDigits(s, p) - 1 : i \in 1..Len(s) /\ s[i] \in {"1", "9"}
<1> DEFINE n == Len(s)
           D == {i \in p..n : s[i] = "."}
           S == D \cup {n + 1}
           e == BehindDigits(s, p)
<1>n. n \in Nat
  BY LenProperties
<1>t. \A i \in 1..n : s[i] \in Typed
  BY ElementOfSeq
<1>1. S \in SUBSET Nat /\ S # {} /\ n + 1 \in S
  BY <1>n
<1>2. e = Min(S)
  BY DEF BehindDigits
<1>3. e \in S /\ \A y \in S : e <= y
  <2> HIDE DEF S, e
  <2> QED BY <1>1, <1>2, MinFacts
<1> HIDE DEF e, n
<1>4. e \in Nat /\ e <= n + 1 /\ (e >= p \/ e = n + 1)
  BY <1>3, <1>1, <1>n
<1>5. ASSUME NEW i \in p..e - 1 PROVE i \in 1..n /\ s[i] \in {"1", "9"}
  <2>1. i \in 1..n /\ i \in p..n /\ ~(e <= i)
    BY <1>4, <1>n
  <2>2. s[i] # "."
    BY <2>1, <1>3
  <2> QED BY <2>1, <2>2, <1>t DEF Typed
<1> QED
  BY <1>4, <1>5 DEF e, n

LEMMA DecimalType ==
    ASSUME NEW s \in Seq(Typed), NEW p \in 1..Len(s) + 1
    PROVE  s_strtoul_dec(s, p) \in Nat
<1> DEFINE n == BehindDigits(s, p) - p
           E(f) == f = [i \in 0..n |-> IF i = 0 THEN 0 ELSE f[i - 1] * 10 + Digit[s[p + i - 1]]]
           step == [q \in (1..n) \X Nat |-> q[2] * 10 + Digit[s[p + q[1] - 1]]]
           val == CHOOSE f : E(f)
<1>p. p \in Nat \ {0} /\ Len(s) \in Nat /\ p <= Len(s) + 1
  BY LenProperties
<1>b. /\ BehindDigits(s, p) \in Nat /\ BehindDigits(s, p) >= p
      /\ \A i \in p..BehindDigits(s, p) - 1 : s[i] \in {"1", "9"}
  BY <1>p, BehindDigitsFacts
<1>n. n \in Nat
  BY <1>b, <1>p
<1>0. ASSUME NEW i \in 1..n PROVE Digit[s[p + i - 1]] \in Nat
  <2>1. p + i - 1 \in p..BehindDigits(s, p) - 1
    BY <1>b, <1>p
  <2>2. s[p + i - 1] \in {"1", "9"}
    BY <2>1, <1>b
  <2>3. \A c \in {"1", "9"} : Digit[c] \in Nat
    BY DEF Digit
  <2> QED BY <2>2, <2>3
<1> HIDE DEF n
<1>1. step \in [(1..n) \X Nat -> Nat]
  <2>1. ASSUME NEW q \in (1..n) \X Nat PROVE q[2] * 10 + Digit[s[p + q[1] - 1]] \in Nat
    <3>1. q[1] \in 1..n /\ q[2] \in Nat
      OBVIOUS
    <3>2. Digit[s[p + q[1] - 1]] \in Nat
      BY <3>1, <1>0
    <3>3. \A a, b \in Nat : a * 10 + b \in Nat
      OBVIOUS
    <3> QED BY <3>1, <3>2, <3>3, Zenon
  <2> QED BY <2>1
<1>2. PICK g : Recursion(n, Nat, 0, step, g)
  <2> HIDE DEF step
  <2>1. 0 \in Nat
    OBVIOUS
  <2> QED BY <1>1, <1>n, <2>1, RecursionExists, Zenon
<1>3. E(g)
  <2>1. ASSUME NEW i \in 1..n PROVE g[i] = g[i - 1] * 10 + Digit[s[p + i - 1]]
    <3>1. i - 1 \in 0..n
      BY <1>n
    <3>2. g[i - 1] \in Nat
      BY <1>2, <3>1 DEF Recursion
    <3>3. <<i, g[i - 1]>> \in (1..n) \X Nat
      BY <3>2
    <3>4. g[i] = step[<<i, g[i - 1]>>]
      BY <1>2, Zenon DEF Recursion
    <3> QED BY <3>3, <3>4
  <2> QED BY <1>2, <2>1 DEF Recursion
<1>4. E(val)
  BY <1>3
<1> DEFINE h == [i \in 0..n |-> IF i = 0 THEN 0 ELSE val[i - 1] * 10 + Digit[s[p + i - 1]]]
           S == {i \in 0..n : val[i] \in Nat}
<1>5. h[0] = 0 /\ \A i \in 1..n : h[i] = val[i - 1] * 10 + Digit[s[p + i - 1]]
  BY <1>n
<1>6. val = h
  BY <1>4
<1> HIDE DEF val, h
<1>7. 0 \in S
  BY <1>5, <1>6, <1>n
<1>8. ASSUME NEW i \in 0..n, i < n, i \in S PROVE i + 1 \in S
  <2>1. i + 1 \in 1..n /\ i + 1 \in 0..n /\ (i + 1) - 1 = i
    BY <1>8, <1>n
  <2>2. h[i + 1] = val[i] * 10 + Digit[s[p + (i + 1) - 1]]
    BY <1>5, <2>1
  <2>3. val[i] \in Nat /\ Digit[s[p + (i + 1) - 1]] \in Nat
    BY <1>8, <1>0, <2>1
  <2>4. h[i + 1] \in Nat
    <3>1. \A a, b \in Nat : a * 10 + b \in Nat
      OBVIOUS
    <3> QED BY <2>2, <2>3, <3>1, Zenon
  <2> QED BY <2>1, <2>4, <1>6
<1>9. \A i \in 0..n : i \in S
  <2> HIDE DEF S
  <2> QED BY <1>7, <1>8, <1>n, UptoInduction
<1>10. val[n] \in Nat
  <2>1. n \in 0..n
    BY <1>n
  <2> QED BY <2>1, <1>9
<1>11. s_strtoul_dec(s, p) = val[n]
  BY DEF s_strtoul_dec, val, n
<1> QED
  BY <1>10, <1>11

LEMMA NumbersType ==
    ASSUME NEW s \in Seq(Typed)
    PROVE  Numbers(s) = <<>> \/ Numbers(s) \in [1..4 -> 0..Byte - 1]
<1> DEFINE n == Len(s)
           B(p) == BehindDigits(s, p)
           b == B(1) + 1
           c == B(b) + 1
           d == B(c) + 1
           start == <<1, b, c, d>>
<1>n. n \in Nat
  BY LenProperties
<1>y. Byte \in Nat \ {0}
  <2>1. Byte \in Nat /\ DefaultIp[1] \in 0..Byte - 1
    BY StationConstants
  <2> QED BY <2>1
<1>1. ASSUME NEW p \in Nat \ {0}
      PROVE  B(p) \in Nat /\ B(p) <= n + 1 /\ (B(p) >= p \/ B(p) = n + 1)
  BY BehindDigitsFacts
<1>2. Numbers(s) = IF d > n + 1 THEN <<>> ELSE [k \in 1..4 |-> s_strtoul_dec(s, start[k]) % Byte]
  BY DEF Numbers
<1> HIDE DEF B
<1>3. b \in Nat \ {0} /\ (b <= n + 1 \/ b = n + 2)
  BY <1>1, <1>n
<1> HIDE DEF b
<1>4. c \in Nat \ {0} /\ (c <= n + 1 => b <= n + 1)
  BY <1>1, <1>3, <1>n
<1> HIDE DEF c
<1>5. d \in Nat \ {0} /\ (d <= n + 1 => c <= n + 1)
  BY <1>1, <1>4, <1>n
<1> HIDE DEF d
<1>6. CASE d > n + 1
  BY <1>2, <1>6
<1>7. CASE ~(d > n + 1)
  <2>1. 1 \in 1..n + 1 /\ b \in 1..n + 1 /\ c \in 1..n + 1 /\ d \in 1..n + 1
    BY <1>3, <1>4, <1>5, <1>7, <1>n
  <2>2. ASSUME NEW k \in 1..4 PROVE s_strtoul_dec(s, start[k]) % Byte \in 0..Byte - 1
    <3>1. start[k] \in 1..Len(s) + 1
      BY <2>1
    <3>2. s_strtoul_dec(s, start[k]) \in Nat
      <4> DEFINE p == start[k]
      <4>1. p \in 1..Len(s) + 1
        BY <3>1
      <4> HIDE DEF p
      <4>2. s_strtoul_dec(s, p) \in Nat
        BY <4>1, DecimalType
      <4> QED BY <4>2 DEF p
    <3> DEFINE v == s_strtoul_dec(s, start[k])
    <3>3. v \in Nat
      BY <3>2
    <3> HIDE DEF v
    <3>4. v % Byte \in 0..Byte - 1
      BY <3>3, <1>y
    <3> QED BY <3>4 DEF v
  <2> HIDE DEF start
  <2>3. [k \in 1..4 |-> s_strtoul_dec(s, start[k]) % Byte] \in [1..4 -> 0..Byte - 1]
    BY <2>2
  <2> QED BY <1>2, <1>7, <2>3
<1> QED
  BY <1>6, <1>7

-----------------------------------------------------------------------------
(* The keyboard.                                                           *)

(* The setup is straight but for three of its steps; where each one is.    *)
LEMMA ScriptTable ==
    /\ Len(Script) = 31
    /\ \A i \in 1..31 :
          /\ Script[i][1] = "probe" => i = 1
          /\ Script[i][1] = "cmd" => i \in {2, 4, 5, 23}
          /\ Script[i][1] = "self test" => i = 3
          /\ Script[i][1] = "read" => i \in {6, 12, 13, 15, 18, 20, 22, 25, 27, 29}
          /\ Script[i][1] = "out" => i \in {7, 11, 14, 16, 17, 19, 21, 24, 26, 28, 30, 31}
          /\ Script[i][1] = "ack" => i = 8
          /\ Script[i][1] = "look" => i = 9
          /\ Script[i][1] = "drop" => i = 10
    /\ Script[2][2] = "AA" /\ Script[5][2] = "AB" /\ Script[7][2] = "FF" /\ Script[11][2] = "FF"
<1>1. Len(Script) = 31
  BY DEF Script, Head1, Scancodes1, write_leds
<1>2. Script[2][2] = "AA" /\ Script[5][2] = "AB" /\ Script[7][2] = "FF" /\ Script[11][2] = "FF"
  BY DEF Script, Head1, Scancodes1, write_leds
<1>3. /\ Script[1][1] = "probe" /\ Script[2][1] = "cmd" /\ Script[3][1] = "self test"
      /\ Script[4][1] = "cmd" /\ Script[5][1] = "cmd" /\ Script[6][1] = "read"
      /\ Script[7][1] = "out" /\ Script[8][1] = "ack" /\ Script[9][1] = "look"
      /\ Script[10][1] = "drop" /\ Script[11][1] = "out" /\ Script[12][1] = "read"
      /\ Script[13][1] = "read" /\ Script[14][1] = "out" /\ Script[15][1] = "read"
      /\ Script[16][1] = "out" /\ Script[17][1] = "out" /\ Script[18][1] = "read"
      /\ Script[19][1] = "out" /\ Script[20][1] = "read" /\ Script[21][1] = "out"
      /\ Script[22][1] = "read" /\ Script[23][1] = "cmd" /\ Script[24][1] = "out"
      /\ Script[25][1] = "read" /\ Script[26][1] = "out" /\ Script[27][1] = "read"
      /\ Script[28][1] = "out" /\ Script[29][1] = "read" /\ Script[30][1] = "out"
      /\ Script[31][1] = "out"
  BY DEF Script, Head1, Scancodes1, write_leds
<1>4. \A i \in 1..31 : i \in {1, 2, 3, 4, 5, 6, 7, 8, 9, 10, 11, 12, 13, 14, 15, 16,
                              17, 18, 19, 20, 21, 22, 23, 24, 25, 26, 27, 28, 29, 30, 31}
  OBVIOUS
<1> HIDE DEF Script
<1>5. \A i \in 1..31 : Script[i][1] = "probe" => i = 1
  BY <1>3, <1>4, ZenonT(30)
<1>6. \A i \in 1..31 : Script[i][1] = "cmd" => i \in {2, 4, 5, 23}
  BY <1>3, <1>4, ZenonT(30)
<1>7. \A i \in 1..31 : Script[i][1] = "self test" => i = 3
  BY <1>3, <1>4, ZenonT(30)
<1>8. \A i \in 1..31 : Script[i][1] = "read" => i \in {6, 12, 13, 15, 18, 20, 22, 25, 27, 29}
  BY <1>3, <1>4, ZenonT(30)
<1>9. \A i \in 1..31 : Script[i][1] = "out" => i \in {7, 11, 14, 16, 17, 19, 21, 24, 26, 28, 30, 31}
  BY <1>3, <1>4, ZenonT(30)
<1>10. \A i \in 1..31 : Script[i][1] = "ack" => i = 8
  BY <1>3, <1>4, ZenonT(30)
<1>11. \A i \in 1..31 : Script[i][1] = "look" => i = 9
  BY <1>3, <1>4, ZenonT(30)
<1>12. \A i \in 1..31 : Script[i][1] = "drop" => i = 10
  BY <1>3, <1>4, ZenonT(30)
<1> QED
  BY <1>1, <1>2, <1>5, <1>6, <1>7, <1>8, <1>9, <1>10, <1>11, <1>12

LEMMA ScriptEnd == Done = 32 /\ \A i \in 1..31 : Script[i][1] \in {"ack", "look"} => i < 10
<1>1. Len(Script) = 31
  BY ScriptTable, Zenon
<1>2. \A i \in 1..31 : /\ Script[i][1] = "ack" => i = 8
                       /\ Script[i][1] = "look" => i = 9
  BY ScriptTable, Zenon
<1>3. Done = 32
  BY <1>1 DEF Done
<1> QED
  BY <1>2, <1>3

Bytes == Keys \cup Answers

KeybInv ==
    /\ kpc \in 1..Done
    /\ out \in {"none"} \cup Bytes
    /\ coming \in Seq(Bytes)
    /\ scanning \in {"on", "off", "absent"}

LEMMA JumpsAreShort ==
    ASSUME KeybInv, Step("ack") \/ Step("look")
    PROVE  kpc + 5 <= Done
<1>1. kpc \in 1..Done - 1 /\ Script[kpc][1] \in {"ack", "look"}
  <2>1. Done = 32 /\ kpc < Done /\ kpc \in 1..Done
    BY ScriptEnd, Zenon DEF KeybInv, Step
  <2>2. kpc \in 1..Done - 1
    BY <2>1
  <2> QED BY <2>2, Zenon DEF Step
<1> QED
  BY <1>1, ScriptEnd

LEMMA ComingTakesBytes ==
    ASSUME KeybInv
    PROVE  /\ \A b \in Bytes : Append(coming, b) \in Seq(Bytes)
           /\ \A b \in Bytes : <<b>> \o coming \in Seq(Bytes)
           /\ \A b, c \in Bytes : <<b, c>> \in Seq(Bytes) /\ <<b>> \in Seq(Bytes)
           /\ <<>> \o coming \in Seq(Bytes)
           /\ coming # <<>> => Head(coming) \in Bytes /\ Tail(coming) \in Seq(Bytes)
<1> USE DEF KeybInv
<1>1. coming \in Seq(Bytes)
  OBVIOUS
<1> HIDE DEF KeybInv
<1>2. \A b \in Bytes : Append(coming, b) \in Seq(Bytes)
  BY <1>1, AppendProperties
<1>3. \A b, c \in Bytes : <<b, c>> \in Seq(Bytes) /\ <<b>> \in Seq(Bytes)
  OBVIOUS
<1>4. \A b \in Bytes : <<b>> \o coming \in Seq(Bytes)
  BY <1>1, <1>3, ConcatProperties
<1>5. <<>> \o coming \in Seq(Bytes)
  BY <1>1, ConcatEmptySeq
<1>6. coming # <<>> => Head(coming) \in Bytes /\ Tail(coming) \in Seq(Bytes)
  BY <1>1, HeadTailProperties
<1> QED
  BY <1>2, <1>3, <1>4, <1>5, <1>6

LEMMA KeybKept ==
    ASSUME KeybInv,
           \/ keyb8042_init \/ Deliver \/ \E k \in Keys : Press(k)
           \/ out' = "none" /\ UNCHANGED <<kpc, coming, scanning>>
           \/ UNCHANGED keybVars
    PROVE  KeybInv'
<1>d. Done \in Nat /\ Done > 6 /\ kpc \in 1..Done
  BY ScriptEnd DEF KeybInv
<1>a. {"FA", "AA", "55", "00"} \in SUBSET Bytes
  BY DEF Bytes, Answers, Ack
<1>1. CASE Probe
  BY <1>1, <1>d DEF Probe, Step, KeybInv
<1>2. CASE Write
  <2>1. kpc' \in 1..Done /\ UNCHANGED out
    BY <1>2, <1>d DEF Write, Step
  <2>2. coming' \in Seq(Bytes) /\ scanning' \in {"on", "off", "absent"}
    <3>1. CASE Command(Script[kpc][2])
      <4>1. coming' \in {<<"55">> \o coming, <<"00">> \o coming, <<>> \o coming}
        BY <3>1 DEF Command
      <4>2. scanning' = scanning
        BY <3>1 DEF Command
      <4> QED BY <4>1, <4>2, <1>a, ComingTakesBytes DEF KeybInv
    <3>2. CASE ToKeyboard(Script[kpc][2])
      <4>1. coming' \in {<<"FA", "AA">>, <<"FA">>, Append(coming, "FA")}
        BY <3>2 DEF ToKeyboard, Ack
      <4>2. scanning' \in {"on", "off", scanning}
        BY <3>2 DEF ToKeyboard
      <4> QED BY <4>1, <4>2, <1>a, ComingTakesBytes DEF KeybInv
    <3> QED BY <1>2, <3>1, <3>2 DEF Write
  <2> QED BY <2>1, <2>2 DEF KeybInv
<1>3. CASE Read
  BY <1>3, <1>d DEF Read, Step, read_buffer, KeybInv
<1>4. CASE ReadAndTest
  <2>1. kpc' \in 1..Done
    <3>1. CASE Step("ack")
      <4>1. kpc + 5 <= Done
        BY <3>1, JumpsAreShort
      <4>2. kpc' \in {kpc + 1, kpc + 5, Done}
        BY <1>4, Zenon DEF ReadAndTest
      <4> QED BY <4>1, <4>2, <1>d
    <3>2. CASE ~Step("ack")
      <4>1. Step("self test") /\ kpc' \in {kpc + 1, Done}
        BY <1>4, <3>2, Zenon DEF ReadAndTest
      <4>2. kpc < Done
        BY <4>1 DEF Step
      <4>3. kpc' \in {kpc + 1, Done}
        BY <4>1
      <4> QED BY <4>2, <4>3, <1>d
    <3> QED BY <3>1, <3>2
  <2> QED BY <1>4, <2>1 DEF ReadAndTest, read_buffer, KeybInv
<1>5. CASE Look
  <2>1. kpc' \in 1..Done
    <3>1. CASE Step("look")
      BY <1>5, <3>1, <1>d, JumpsAreShort DEF Look, Step
    <3>2. CASE ~Step("look")
      BY <1>5, <3>2, <1>d DEF Look, Step
    <3> QED BY <3>1, <3>2
  <2> QED BY <1>5, <2>1 DEF Look, KeybInv
<1>6. CASE Deliver
  BY <1>6, ComingTakesBytes DEF Deliver, KeybInv
<1>7. ASSUME NEW k \in Keys, Press(k) PROVE KeybInv'
  <2>1. k \in Bytes
    BY DEF Bytes
  <2> QED BY <1>7, <2>1, ComingTakesBytes DEF Press, KeybInv
<1>8. CASE out' = "none" /\ UNCHANGED <<kpc, coming, scanning>>
  BY <1>8 DEF KeybInv
<1>9. CASE UNCHANGED keybVars
  BY <1>9 DEF KeybInv, keybVars
<1> QED
  BY <1>1, <1>2, <1>3, <1>4, <1>5, <1>6, <1>7, <1>8, <1>9 DEF keyb8042_init

(* What the steps of the station are to the keyboard.                      *)
LEMMA KeybSteps ==
    ASSUME Next
    PROVE  \/ keyb8042_init \/ Deliver \/ \E k \in Keys : Press(k)
           \/ out' = "none" /\ UNCHANGED <<kpc, coming, scanning>>
           \/ UNCHANGED keybVars
<1>1. CASE keyboard_init
  BY <1>1 DEF keyboard_init
<1>2. CASE Scan
  BY <1>2 DEF Scan
<1>3. CASE autoprobe_network_card
  BY <1>3 DEF autoprobe_network_card
<1>4. CASE Ask
  BY <1>4 DEF Ask, Key, read_buffer
<1>5. CASE OpenFirst
  BY <1>5 DEF OpenFirst
<1>6. CASE MenuKey
  BY <1>6 DEF MenuKey, Key, read_buffer
<1>7. CASE MenuNoKey
  BY <1>7 DEF MenuNoKey
<1>8. CASE OpenFailed
  BY <1>8 DEF OpenFailed, Key, read_buffer
<1>9. CASE net_idle
  BY <1>9 DEF net_idle
<1>10. CASE EntryKey
  BY <1>10 DEF EntryKey, Key, read_buffer
<1>11. CASE PciMenuKey
  BY <1>11 DEF PciMenuKey, Key, read_buffer
<1>12. CASE PciBarsKey
  BY <1>12 DEF PciBarsKey, Key, read_buffer
<1>13. CASE Keyboard
  BY <1>13 DEF Keyboard
<1>14. CASE Typist
  BY <1>14 DEF Typist
<1>15. CASE Interrupt
  BY <1>15 DEF Interrupt
<1>16. CASE Timer
  BY <1>16 DEF Timer
<1> QED
  BY <1>1, <1>2, <1>3, <1>4, <1>5, <1>6, <1>7, <1>8, <1>9, <1>10, <1>11, <1>12,
     <1>13, <1>14, <1>15, <1>16 DEF Next, Main

-----------------------------------------------------------------------------
(* The steps of the station.                                               *)

IrqInv == irr \subseteq Line /\ isr \subseteq Line /\ imr \subseteq Line

LEMMA IrqKept ==
    ASSUME IrqInv, Next
    PROVE  IrqInv'
<1> USE DEF IrqInv
<1>1. CASE keyboard_init
  BY <1>1 DEF keyboard_init, irqVars
<1>2. CASE Scan
  BY <1>2 DEF Scan
<1>3. CASE autoprobe_network_card
  BY <1>3 DEF autoprobe_network_card, irqVars
<1>4. CASE Ask
  BY <1>4 DEF Ask, Key, irqVars
<1>5. CASE OpenFirst
  BY <1>5 DEF OpenFirst, irqVars
<1>6. CASE MenuKey
  BY <1>6 DEF MenuKey, Key, irqVars
<1>7. CASE MenuNoKey
  BY <1>7 DEF MenuNoKey, irqVars
<1>8. CASE OpenFailed
  BY <1>8 DEF OpenFailed, Key, irqVars
<1>9. CASE net_idle
  BY <1>9 DEF net_idle, irqVars
<1>10. CASE EntryKey
  BY <1>10 DEF EntryKey, Key, irqVars
<1>11. CASE PciMenuKey
  BY <1>11 DEF PciMenuKey, Key, irqVars
<1>12. CASE PciBarsKey
  BY <1>12 DEF PciBarsKey, Key, irqVars
<1>13. CASE Keyboard
  BY <1>13 DEF Keyboard, Raise, Line
<1>14. CASE Typist
  BY <1>14 DEF Typist, irqVars
<1>15. CASE Interrupt
  BY <1>15 DEF Interrupt, do_irq
<1>16. CASE Timer
  BY <1>16 DEF Timer, TimerEnds, Raise, Line
<1> QED
  BY <1>1, <1>2, <1>3, <1>4, <1>5, <1>6, <1>7, <1>8, <1>9, <1>10, <1>11, <1>12,
     <1>13, <1>14, <1>15, <1>16 DEF Next, Main

(* Only the program changes what is its own.                               *)
LEMMA MainOrNot ==
    ASSUME [Next]_vars
    PROVE  Main \/ UNCHANGED mainVars
<1>1. CASE Keyboard
  BY <1>1 DEF Keyboard
<1>2. CASE Typist
  BY <1>2 DEF Typist
<1>3. CASE Interrupt
  BY <1>3 DEF Interrupt
<1>4. CASE Timer
  BY <1>4 DEF Timer
<1>5. CASE UNCHANGED vars
  BY <1>5 DEF vars
<1> QED
  BY <1>1, <1>2, <1>3, <1>4, <1>5 DEF Next

Phases == {"keyboard", "scan", "probe", "ask", "start", "menu", "net", "failed",
           "entry", "pci menu", "pci bars", "crashed"}

PhaseInv == phase \in Phases /\ back \in {"start", "net"}

LEMMA PhaseKept ==
    ASSUME PhaseInv, Main
    PROVE  PhaseInv'
<1> USE DEF PhaseInv, Phases
<1>1. CASE keyboard_init
  BY <1>1 DEF keyboard_init
<1>2. CASE Scan
  BY <1>2 DEF Scan
<1>3. CASE autoprobe_network_card
  BY <1>3 DEF autoprobe_network_card
<1>4. CASE Ask
  BY <1>4 DEF Ask
<1>5. CASE OpenFirst
  BY <1>5 DEF OpenFirst
<1>6. CASE MenuKey
  BY <1>6 DEF MenuKey
<1>7. CASE MenuNoKey
  BY <1>7 DEF MenuNoKey
<1>8. CASE OpenFailed
  BY <1>8 DEF OpenFailed
<1>9. CASE net_idle
  BY <1>9 DEF net_idle
<1>10. CASE EntryKey
  BY <1>10 DEF EntryKey, Type, Erase
<1>11. CASE PciMenuKey
  BY <1>11 DEF PciMenuKey
<1>12. CASE PciBarsKey
  BY <1>12 DEF PciBarsKey
<1> QED
  BY <1>1, <1>2, <1>3, <1>4, <1>5, <1>6, <1>7, <1>8, <1>9, <1>10, <1>11, <1>12 DEF Main

(* What the steps do to the table and to the choice of a card.             *)
LEMMA CardSteps ==
    ASSUME Main
    PROVE  /\ machine' = machine
           /\ table' \in {table, <<>>, pci_init(machine)}
           /\ chosen' \in {chosen, autoprobe(table), NoCard, [drv |-> "ne2000", dev |-> 0]}
           /\ open' \in {open, "yes"}
<1> USE DEF cardVars
<1>1. CASE keyboard_init
  BY <1>1 DEF keyboard_init
<1>2. CASE Scan
  BY <1>2 DEF Scan
<1>3. CASE autoprobe_network_card
  BY <1>3 DEF autoprobe_network_card
<1>4. CASE Ask
  BY <1>4 DEF Ask, autoprobe_network_card_isa, NoCard
<1>5. CASE OpenFirst
  BY <1>5 DEF OpenFirst, Start, StartFails
<1>6. CASE MenuKey
  BY <1>6 DEF MenuKey, Start, StartFails
<1>7. CASE MenuNoKey
  BY <1>7 DEF MenuNoKey
<1>8. CASE OpenFailed
  BY <1>8 DEF OpenFailed
<1>9. CASE net_idle
  BY <1>9 DEF net_idle
<1>10. CASE EntryKey
  BY <1>10 DEF EntryKey
<1>11. CASE PciMenuKey
  BY <1>11 DEF PciMenuKey
<1>12. CASE PciBarsKey
  BY <1>12 DEF PciBarsKey
<1> QED
  BY <1>1, <1>2, <1>3, <1>4, <1>5, <1>6, <1>7, <1>8, <1>9, <1>10, <1>11, <1>12 DEF Main

(* The table is that of the machine; what is chosen is a driver.           *)
CardInv ==
    /\ machine \in Machines
    /\ table \in {<<>>, pci_init(machine)}
    /\ chosen \in [drv : {"none", "pcnet32", "rtl8101", "ne2000"}, dev : 0..MaxDevice]
    /\ open \in {"yes", "no"}

LEMMA TableType ==
    ASSUME CardInv
    PROVE  Len(table) \in Nat /\ Len(table) <= MaxDevice /\ DOMAIN table = 1..Len(table)
<1>1. machine.buses \in Nat \ {0}
  BY MachinesAssumption DEF CardInv
<1>2. CASE table = <<>>
  <2>1. Len(table) = 0 /\ DOMAIN table = 1..0
    BY <1>2
  <2>2. MaxDevice \in Nat
    BY PciConstants
  <2> QED BY <2>1, <2>2
<1>3. CASE table = pci_init(machine)
  BY <1>1, <1>3, TableFacts
<1> QED
  BY <1>2, <1>3 DEF CardInv

LEMMA CardKept ==
    ASSUME CardInv, Main
    PROVE  CardInv'
<1>1. autoprobe(table) \in [drv : {"none", "pcnet32", "rtl8101", "ne2000"}, dev : 0..MaxDevice]
  BY TableType, AutoprobeType
<1>2. 0 \in 0..MaxDevice
  BY PciConstants
<1>3. chosen' \in [drv : {"none", "pcnet32", "rtl8101", "ne2000"}, dev : 0..MaxDevice]
  BY <1>1, <1>2, CardSteps DEF CardInv, NoCard
<1>4. machine' \in Machines /\ table' \in {<<>>, pci_init(machine')}
  BY CardSteps DEF CardInv
<1>5. open' \in {"yes", "no"}
  BY CardSteps DEF CardInv
<1> QED
  BY <1>3, <1>4, <1>5 DEF CardInv

-----------------------------------------------------------------------------
(* The address and the menus: what is typed of an address, and the cursor, *)
(* which stays on the screen in both menus of the PCI buses.               *)
MenuInv ==
    /\ ip \in [1..4 -> 0..Byte - 1]
    /\ input \in Seq(Typed) /\ Len(input) <= MaxInput
    /\ select \in 0..MaxSelect /\ scroll \in Nat
    /\ phase \in {"pci menu", "pci bars"} => select \in scroll..scroll + Lines - 1

LEMMA EntryKept ==
    ASSUME MenuInv, EntryKey
    PROVE  MenuInv'
<1> DEFINE keys == Keys \cup Answers
<1>m. MaxInput \in Nat
  BY StationConstants
<1>i. ip \in [1..4 -> 0..Byte - 1] /\ input \in Seq(Typed) /\ Len(input) <= MaxInput
  BY DEF MenuInv
<1>e. <<>> \in Seq(Typed) /\ Len(<<>>) <= MaxInput
  BY <1>m
<1>1. PICK b \in keys :
        CASE to_ascii(b) \in {"1", "9", "."} -> Type(b)
          [] to_ascii(b) = "backspace" -> Erase
          [] to_ascii(b) = "enter" ->
                /\ ip' = IF Numbers(input) = <<>> THEN ip ELSE Numbers(input)
                /\ phase' = "net"
                /\ input' = <<>>
          [] OTHER -> UNCHANGED <<input, ip, phase>>
  BY Zenon DEF EntryKey
<1>2. phase = "entry" /\ select' = select /\ scroll' = scroll
  BY DEF EntryKey
<1>3. /\ ip' \in [1..4 -> 0..Byte - 1]
      /\ input' \in Seq(Typed) /\ Len(input') <= MaxInput
      /\ phase' \in {"entry", "net"}
  <2>1. CASE to_ascii(b) \in {"1", "9", "."}
    <3>1. Type(b)
      BY <1>1, <2>1
    <3>2. b \in Typed
      BY <2>1 DEF to_ascii, Typed
    <3>3. Append(input, b) \in Seq(Typed) /\ Len(Append(input, b)) = Len(input) + 1
      BY <1>i, <3>2, AppendProperties
    <3>4. Len(input) \in Nat
      BY <1>i, LenProperties
    <3>5. input' \in Seq(Typed) /\ Len(input') <= MaxInput
      BY <1>i, <1>m, <3>1, <3>3, <3>4 DEF Type
    <3> QED BY <1>i, <1>2, <3>1, <3>5 DEF Type
  <2>2. CASE to_ascii(b) = "backspace"
    <3>1. Erase
      BY <1>1, <2>2
    <3>2. CASE input = <<>>
      BY <1>e, <1>i, <1>2, <3>1, <3>2 DEF Erase
    <3>3. CASE input # <<>>
      <4>1. Len(input) \in Nat \ {0}
        BY <1>i, <3>3, EmptySeq, LenProperties
      <4>2. /\ SubSeq(input, 1, Len(input) - 1) \in Seq(Typed)
            /\ Len(SubSeq(input, 1, Len(input) - 1)) = Len(input) - 1
        <5> DEFINE n == Len(input) - 1
        <5>0. \A k \in Nat \ {0} : k - 1 \in Int /\ (k - 1) - 1 + 1 = k - 1 /\ (1 <= k - 1 \/ k - 1 = 0)
          OBVIOUS
        <5>1. n \in Int /\ n - 1 + 1 = n /\ (1 <= n \/ n = 0)
          BY <4>1, <5>0, Zenon
        <5>2. \A i \in 1..n : i \in 1..Len(input)
          BY <4>1
        <5>3. \A i \in 1..n : input[i] \in Typed
          BY <1>i, <5>2, ElementOfSeq
        <5> HIDE DEF n
        <5>4. SubSeq(input, 1, n) \in Seq(Typed) /\ Len(SubSeq(input, 1, n)) = n
          BY <5>1, <5>3, SubSeqProperties
        <5> QED BY <5>4 DEF n
      <4>3. input' = SubSeq(input, 1, Len(input) - 1)
        BY <3>1, <3>3 DEF Erase
      <4>4. Len(input') <= MaxInput
        BY <1>i, <1>m, <4>1, <4>2, <4>3
      <4> QED BY <1>i, <1>2, <3>1, <4>2, <4>3, <4>4 DEF Erase
    <3> QED BY <3>2, <3>3
  <2>3. CASE to_ascii(b) = "enter"
    <3>1. /\ ip' = IF Numbers(input) = <<>> THEN ip ELSE Numbers(input)
          /\ phase' = "net" /\ input' = <<>>
      BY <1>1, <2>3
    <3>2. Numbers(input) = <<>> \/ Numbers(input) \in [1..4 -> 0..Byte - 1]
      BY <1>i, NumbersType
    <3> QED BY <1>e, <1>i, <3>1, <3>2
  <2>4. CASE to_ascii(b) \notin {"1", "9", ".", "backspace", "enter"}
    <3>1. UNCHANGED <<input, ip, phase>>
      BY <1>1, <2>4
    <3> QED BY <1>i, <1>2, <3>1
  <2> QED BY <2>1, <2>2, <2>3, <2>4
<1> QED
  BY <1>2, <1>3 DEF MenuInv

LEMMA MenuKept ==
    ASSUME MenuInv, PhaseInv, Main
    PROVE  MenuInv'
<1> USE DEF menuVars
<1>c. Lines \in Nat \ {0} /\ MaxSelect \in Nat
  BY StationConstants
<1>0. ASSUME UNCHANGED <<ip, input, select, scroll>>,
             phase' \notin {"pci menu", "pci bars"}
      PROVE  MenuInv'
  BY <1>0 DEF MenuInv
<1>1. CASE keyboard_init
  <2>1. phase' \in {"keyboard", "scan"}
    BY <1>1 DEF keyboard_init
  <2> QED BY <1>0, <1>1, <2>1 DEF keyboard_init
<1>2. CASE Scan
  BY <1>0, <1>2 DEF Scan
<1>3. CASE autoprobe_network_card
  <2>1. phase' \in {"ask", back}
    BY <1>3 DEF autoprobe_network_card
  <2> QED BY <1>0, <1>3, <2>1 DEF autoprobe_network_card, PhaseInv
<1>4. CASE Ask
  <2>1. phase' \in {"ask", back}
    BY <1>4 DEF Ask
  <2> QED BY <1>0, <1>4, <2>1 DEF Ask, PhaseInv
<1>5. CASE OpenFirst
  BY <1>0, <1>5 DEF OpenFirst
<1>6. CASE MenuKey
  <2>1. ip' = ip /\ phase = "menu"
    BY <1>6 DEF MenuKey
  <2>2. \/ phase' = "pci menu" /\ select' = 0 /\ scroll' = 0 /\ UNCHANGED input
        \/ phase' = "entry" /\ input' = <<>> /\ UNCHANGED <<select, scroll>>
        \/ phase' \notin {"pci menu", "pci bars"} /\ UNCHANGED <<input, select, scroll>>
    BY <1>6 DEF MenuKey
  <2>3. <<>> \in Seq(Typed) /\ Len(<<>>) <= MaxInput
    BY StationConstants
  <2>4. CASE phase' = "pci menu" /\ select' = 0 /\ scroll' = 0 /\ UNCHANGED input
    <3>1. 0 \in 0..MaxSelect /\ 0 \in 0..0 + Lines - 1
      BY <1>c
    <3> QED BY <2>1, <2>4, <3>1 DEF MenuInv
  <2>5. CASE phase' = "entry" /\ input' = <<>> /\ UNCHANGED <<select, scroll>>
    BY <2>1, <2>3, <2>5 DEF MenuInv
  <2>6. CASE phase' \notin {"pci menu", "pci bars"} /\ UNCHANGED <<input, select, scroll>>
    BY <1>0, <2>1, <2>6
  <2> QED BY <2>2, <2>4, <2>5, <2>6
<1>7. CASE MenuNoKey
  BY <1>0, <1>7 DEF MenuNoKey
<1>8. CASE OpenFailed
  BY <1>0, <1>8 DEF OpenFailed
<1>9. CASE net_idle
  <2>1. phase' \in {"menu", "crashed"}
    BY <1>9 DEF net_idle
  <2> QED BY <1>0, <1>9, <2>1 DEF net_idle
<1>10. CASE EntryKey
  BY <1>10, EntryKept
<1>11. CASE PciMenuKey
  <2>1. ip' = ip /\ input' = input /\ phase = "pci menu"
    BY <1>11 DEF PciMenuKey
  <2>2. \/ phase' = "net" /\ select' = 0 /\ scroll' = 0
        \/ Up /\ UNCHANGED phase
        \/ select < MaxSelect /\ Down /\ UNCHANGED phase
        \/ phase' \in {"pci bars", phase} /\ UNCHANGED <<select, scroll>>
    BY <1>11 DEF PciMenuKey
  <2>3. select \in 0..MaxSelect /\ scroll \in Nat /\ select \in scroll..scroll + Lines - 1
    BY <2>1 DEF MenuInv
  <2>4. /\ select' \in 0..MaxSelect /\ scroll' \in Nat
        /\ phase' # "net" => select' \in scroll'..scroll' + Lines - 1
    <3>1. CASE phase' = "net" /\ select' = 0 /\ scroll' = 0
      BY <1>c, <3>1
    <3>2. CASE Up
      BY <1>c, <2>3, <3>2 DEF Up
    <3>3. CASE select < MaxSelect /\ Down
      BY <1>c, <2>3, <3>3 DEF Down
    <3>4. CASE UNCHANGED <<select, scroll>>
      BY <2>3, <3>4
    <3> QED BY <2>2, <3>1, <3>2, <3>3, <3>4
  <2> QED BY <2>1, <2>4 DEF MenuInv
<1>12. CASE PciBarsKey
  BY <1>12 DEF PciBarsKey, MenuInv
<1> QED
  BY <1>1, <1>2, <1>3, <1>4, <1>5, <1>6, <1>7, <1>8, <1>9, <1>10, <1>11, <1>12 DEF Main

-----------------------------------------------------------------------------
(* The inductive invariant of the station: its five parts, of which the    *)
(* steps of Main change three, and the keyboard and the interrupts two.    *)
StationInv == KeybInv /\ IrqInv /\ PhaseInv /\ CardInv /\ MenuInv

LEMMA StationInvInitially ==
    ASSUME Init
    PROVE  StationInv
<1>1. KeybInv
  <2>1. Done \in Nat /\ Done > 6
    BY ScriptEnd
  <2>2. 1 \in 1..Done
    BY <2>1
  <2>3. <<>> \in Seq(Bytes)
    OBVIOUS
  <2> QED BY <2>2, <2>3 DEF Init, KeybInv, Bytes
<1>2. IrqInv
  BY DEF Init, pic_8259_init, IrqInv
<1>3. PhaseInv
  BY DEF Init, PhaseInv, Phases
<1>4. CardInv
  <2>1. 0 \in 0..MaxDevice
    BY PciConstants
  <2> QED BY <2>1 DEF Init, CardInv, NoCard
<1>5. MenuInv
  <2>1. ip \in [1..4 -> 0..Byte - 1]
    BY StationConstants DEF Init
  <2>2. <<>> \in Seq(Typed) /\ Len(<<>>) <= MaxInput
    BY StationConstants
  <2>3. 0 \in 0..MaxSelect
    BY StationConstants
  <2> QED BY <2>1, <2>2, <2>3 DEF Init, MenuInv
<1> QED
  BY <1>1, <1>2, <1>3, <1>4, <1>5 DEF StationInv

LEMMA StationInvKept ==
    ASSUME StationInv, [Next]_vars
    PROVE  StationInv'
<1> USE DEF StationInv
<1>1. KeybInv'
  <2>1. CASE Next
    BY <2>1, KeybSteps, KeybKept
  <2>2. CASE UNCHANGED vars
    BY <2>2, KeybKept DEF vars
  <2> QED BY <2>1, <2>2
<1>2. IrqInv'
  <2>1. CASE Next
    BY <2>1, IrqKept
  <2>2. CASE UNCHANGED vars
    BY <2>2 DEF vars, irqVars, IrqInv
  <2> QED BY <2>1, <2>2
<1>3. CASE Main
  BY <1>1, <1>2, <1>3, PhaseKept, CardKept, MenuKept
<1>4. CASE UNCHANGED mainVars
  <2>1. PhaseInv'
    BY <1>4 DEF mainVars, PhaseInv
  <2>2. CardInv'
    BY <1>4 DEF mainVars, cardVars, CardInv
  <2>3. MenuInv'
    BY <1>4 DEF mainVars, menuVars, MenuInv
  <2> QED BY <1>1, <1>2, <2>1, <2>2, <2>3
<1> QED
  BY <1>3, <1>4, MainOrNot

LEMMA StationInvariant == Spec => []StationInv
<1>1. Init => StationInv
  BY StationInvInitially
<1>2. StationInv /\ [Next]_vars => StationInv'
  BY StationInvKept
<1> QED
  BY <1>1, <1>2, PTL DEF Spec

(* TypeOK holds for every machine, every set of frames and every size of   *)
(* the screen, the table and the address: the jumps of keyb8042_init stay  *)
(* inside it, pci_init stays inside pci_device, the numbers s_strtoul_dec  *)
(* reads are cut to bytes, and the cursor of pci_bus_menu on the screen.   *)
THEOREM StationTypeCorrect == Spec => []TypeOK
<1>1. StationInv => TypeOK
  <2> SUFFICES ASSUME StationInv PROVE TypeOK
    OBVIOUS
  <2>1. Len(table) <= MaxDevice
    BY TableType DEF StationInv
  <2>2. /\ kpc \in 1..Done
        /\ out \in {"none"} \cup Keys \cup Answers
        /\ scanning \in {"on", "off", "absent"}
    BY DEF StationInv, KeybInv, Bytes
  <2>3. irr \subseteq Line /\ isr \subseteq Line /\ imr \subseteq Line
    BY DEF StationInv, IrqInv
  <2>4. phase \in Phases
    BY DEF StationInv, PhaseInv
  <2>5. /\ chosen \in [drv : {"none", "pcnet32", "rtl8101", "ne2000"}, dev : 0..MaxDevice]
        /\ open \in {"yes", "no"}
    BY DEF StationInv, CardInv
  <2>6. /\ ip \in [1..4 -> 0..Byte - 1]
        /\ Len(input) <= MaxInput
        /\ select \in 0..MaxSelect
        /\ phase = "pci menu" => select \in scroll..scroll + Lines - 1
    BY DEF StationInv, MenuInv
  <2> QED BY <2>1, <2>2, <2>3, <2>4, <2>5, <2>6, Zenon DEF TypeOK, Phases
<1> QED
  BY <1>1, StationInvariant, PTL

(* No function is in pci_device twice, whatever answers on the buses and   *)
(* on however many: pci_max_bus stops before the numbers wrap around, so   *)
(* that two addresses of the scan are never the same function.             *)
THEOREM NoPhantomFunctions == Spec => []NoPhantoms
<1>1. StationInv => NoPhantoms
  <2> SUFFICES ASSUME CardInv PROVE NoPhantoms
    BY DEF StationInv
  <2>1. machine.buses \in Nat \ {0}
    BY MachinesAssumption DEF CardInv
  <2>2. CASE table = <<>>
    BY <2>2 DEF NoPhantoms
  <2>3. CASE table = pci_init(machine)
    BY <2>1, <2>3, TableHasNoPhantoms, Zenon DEF NoPhantoms
  <2> QED BY <2>2, <2>3 DEF CardInv
<1> QED
  BY <1>1, StationInvariant, PTL

-----------------------------------------------------------------------------
(* The card that is open runs, until it is looked for again; while the     *)
(* user is asked, after that, the choice is not to be relied on.           *)
OpenInv ==
    /\ open = "yes" /\ reprobed = "no" => Running
    /\ phase = "ask" /\ open = "yes" => reprobed = "yes"

LEMMA StartedRuns ==
    ASSUME Start(chosen)
    PROVE  Running'
<1>1. chosen' = chosen /\ started' = chosen.drv
  BY DEF Start
<1>2. chosen.drv # "none"
  BY DEF Start, CanStart
<1>3. chosen.drv = "ne2000" => isa' = "started"
  BY DEF Start
<1> QED
  BY <1>1, <1>2, <1>3 DEF Running

LEMMA OpenKept ==
    ASSUME OpenInv, PhaseInv, Main
    PROVE  OpenInv'
<1>0. ASSUME UNCHANGED cardVars, phase' # "ask" PROVE OpenInv'
  BY <1>0 DEF OpenInv, Running, cardVars
<1>s. ASSUME Start(chosen), phase' # "ask" PROVE OpenInv'
  BY <1>s, StartedRuns DEF OpenInv
<1>1. CASE keyboard_init
  <2>1. phase' \in {"keyboard", "scan"}
    BY <1>1 DEF keyboard_init
  <2> QED BY <1>0, <1>1, <2>1 DEF keyboard_init
<1>2. CASE Scan
  BY <1>0, <1>2 DEF Scan
<1>3. CASE autoprobe_network_card
  BY <1>3 DEF autoprobe_network_card, OpenInv
<1>4. CASE Ask
  <2>1. open' = open /\ reprobed' = reprobed
    BY <1>4 DEF Ask, cardVars, autoprobe_network_card_isa
  <2>2. phase = "ask"
    BY <1>4 DEF Ask
  <2> QED BY <2>1, <2>2 DEF OpenInv
<1>5. CASE OpenFirst
  <2>1. phase' = "menu"
    BY <1>5 DEF OpenFirst
  <2>2. Start(chosen) \/ UNCHANGED cardVars
    BY <1>5 DEF OpenFirst, StartFails
  <2> QED BY <1>0, <1>s, <2>1, <2>2
<1>6. CASE MenuKey
  <2>1. phase' \in {"pci menu", "entry", "probe", "net", "failed"}
    BY <1>6 DEF MenuKey
  <2>2. Start(chosen) \/ UNCHANGED cardVars
    BY <1>6 DEF MenuKey, StartFails
  <2> QED BY <1>0, <1>s, <2>1, <2>2
<1>7. CASE MenuNoKey
  BY <1>0, <1>7 DEF MenuNoKey
<1>8. CASE OpenFailed
  BY <1>0, <1>8 DEF OpenFailed
<1>9. CASE net_idle
  <2>1. phase' \in {"menu", "crashed"}
    BY <1>9 DEF net_idle
  <2> QED BY <1>0, <1>9, <2>1 DEF net_idle
<1>10. CASE EntryKey
  <2>1. phase' \in {"entry", "net"}
    BY <1>10 DEF EntryKey, Type, Erase
  <2> QED BY <1>0, <1>10, <2>1 DEF EntryKey
<1>11. CASE PciMenuKey
  <2>1. phase' \in {"pci menu", "pci bars", "net"}
    BY <1>11 DEF PciMenuKey
  <2> QED BY <1>0, <1>11, <2>1 DEF PciMenuKey
<1>12. CASE PciBarsKey
  <2>1. phase' \in {"pci menu", "pci bars"}
    BY <1>12 DEF PciBarsKey
  <2> QED BY <1>0, <1>12, <2>1 DEF PciBarsKey
<1> QED
  BY <1>1, <1>2, <1>3, <1>4, <1>5, <1>6, <1>7, <1>8, <1>9, <1>10, <1>11, <1>12 DEF Main

(* net_idle calls the driver of a card whose init has succeeded, and which *)
(* is the chosen one, until autoprobe_network_card is called from the menu *)
(* with the card open (chosen_net_drv_open is not reset).                  *)
THEOREM OnlyStartedCards == Spec => []CallsOnlyStarted
<1>1. Init => OpenInv
  BY DEF Init, OpenInv
<1>2. StationInv /\ OpenInv /\ [Next]_vars => OpenInv'
  <2> SUFFICES ASSUME StationInv, OpenInv, [Next]_vars PROVE OpenInv'
    OBVIOUS
  <2>1. CASE Main
    BY <2>1, OpenKept DEF StationInv
  <2>2. CASE UNCHANGED mainVars
    BY <2>2 DEF mainVars, cardVars, OpenInv, Running
  <2> QED BY <2>1, <2>2, MainOrNot
<1>3. OpenInv => CallsOnlyStarted
  BY DEF OpenInv, CallsOnlyStarted
<1> QED
  BY <1>1, <1>2, <1>3, StationInvariant, PTL DEF Spec

-----------------------------------------------------------------------------
(* What was sent last, if it is the reply to an echo request, is valid.    *)
ReplyInv == reply.type = "echo reply" => Valid(reply.words)

LEMMA ReplySteps ==
    ASSUME Main
    PROVE  reply' \in {reply, None} \/ \E f \in Frames : reply' = net_idle_handle(f, ip)
<1>1. CASE keyboard_init
  BY <1>1 DEF keyboard_init
<1>2. CASE Scan
  BY <1>2 DEF Scan
<1>3. CASE autoprobe_network_card
  BY <1>3 DEF autoprobe_network_card
<1>4. CASE Ask
  BY <1>4 DEF Ask
<1>5. CASE OpenFirst
  BY <1>5 DEF OpenFirst
<1>6. CASE MenuKey
  BY <1>6 DEF MenuKey
<1>7. CASE MenuNoKey
  BY <1>7 DEF MenuNoKey
<1>8. CASE OpenFailed
  BY <1>8 DEF OpenFailed
<1>9. CASE net_idle
  BY <1>9 DEF net_idle
<1>10. CASE EntryKey
  BY <1>10 DEF EntryKey
<1>11. CASE PciMenuKey
  BY <1>11 DEF PciMenuKey
<1>12. CASE PciBarsKey
  BY <1>12 DEF PciBarsKey
<1> QED
  BY <1>1, <1>2, <1>3, <1>4, <1>5, <1>6, <1>7, <1>8, <1>9, <1>10, <1>11, <1>12 DEF Main

(* The filters and the two loops over words of net_on_ipv4_icmp, for words *)
(* of any width and data of any length: an echo request is recognized and  *)
(* answered if and only if it is for this station and valid by the sum in  *)
(* one's complement, with its own data and a checksum that is valid by the *)
(* same definition; an ARP request if and only if it asks for the address  *)
(* the user has set.                                                       *)
THEOREM AnswersAreRight == Spec => []RightAnswers
<1>1. Init => ReplyInv
  BY DEF Init, ReplyInv, None
<1>2. ReplyInv /\ [Next]_vars => ReplyInv'
  <2> SUFFICES ASSUME ReplyInv, [Next]_vars PROVE ReplyInv'
    OBVIOUS
  <2>1. CASE reply' = reply
    BY <2>1 DEF ReplyInv
  <2>2. CASE reply' = None
    <3>1. None.type # "echo reply"
      BY DEF None
    <3> QED BY <2>2, <3>1 DEF ReplyInv
  <2>3. ASSUME NEW f \in Frames, reply' = net_idle_handle(f, ip) PROVE ReplyInv'
    <3>1. LET a == net_idle_handle(f, ip) IN a.type = "echo reply" => Valid(a.words)
      BY FramesAnswered
    <3> QED BY <2>3, <3>1 DEF ReplyInv
  <2>4. CASE UNCHANGED mainVars
    BY <2>1, <2>4 DEF mainVars
  <2> QED BY <2>1, <2>2, <2>3, <2>4, MainOrNot, ReplySteps
<1>3. ReplyInv => RightAnswers
  BY FramesAnswered, Zenon DEF ReplyInv, RightAnswers
<1> QED
  BY <1>1, <1>2, <1>3, PTL DEF Spec

-----------------------------------------------------------------------------
(* What the setup of the keyboard waits for.                               *)

(* Where the setup is when it is at one of its steps.                      *)
LEMMA StepAt ==
    ASSUME KeybInv
    PROVE  /\ Step("probe") => kpc = 1
           /\ Step("cmd") => kpc \in {2, 4, 5, 23}
           /\ Step("self test") => kpc = 3
           /\ Step("read") => kpc \in {6, 12, 13, 15, 18, 20, 22, 25, 27, 29}
           /\ Step("out") => kpc \in {7, 11, 14, 16, 17, 19, 21, 24, 26, 28, 30, 31}
           /\ Step("ack") => kpc = 8
           /\ Step("look") => kpc = 9
           /\ Step("drop") => kpc = 10
<1>1. kpc < Done => kpc \in 1..31
  BY ScriptEnd DEF KeybInv
<1> QED
  BY <1>1, ScriptTable, Zenon DEF Step

(* The number of bytes that wait, and what changes it.                     *)
LEMMA WaitingType ==
    ASSUME KeybInv
    PROVE  Len(coming) \in Nat /\ Waiting \in Nat /\ Waiting >= Len(coming)
<1>1. Len(coming) \in Nat
  BY LenProperties DEF KeybInv
<1> QED
  BY <1>1 DEF Waiting

LEMMA DeliverMoves ==
    ASSUME KeybInv, Deliver
    PROVE  Waiting' = Waiting
<1>1. coming \in Seq(Bytes) /\ coming # <<>>
  BY DEF KeybInv, Deliver
<1>2. Head(coming) \in Bytes /\ Len(Tail(coming)) = Len(coming) - 1 /\ Len(coming) \in Nat
  BY <1>1, HeadTailProperties, LenProperties
<1>3. "none" \notin Bytes
  BY KeysAssumption DEF Bytes, Answers, Ack
<1>4. out = "none" /\ out' # "none"
  BY <1>2, <1>3 DEF Deliver
<1>5. coming' = Tail(coming)
  BY DEF Deliver
<1>6. Waiting = Len(coming) + 0 /\ Waiting' = Len(coming') + 1
  BY <1>4 DEF Waiting
<1> QED
  BY <1>2, <1>5, <1>6

LEMMA PressAdds ==
    ASSUME KeybInv, NEW k \in Keys, Press(k)
    PROVE  Waiting' = Waiting + 1
<1>1. Len(Append(coming, k)) = Len(coming) + 1 /\ Len(coming) \in Nat
  BY AppendProperties, LenProperties DEF KeybInv, Bytes
<1>2. coming' = Append(coming, k) /\ out' = out
  BY DEF Press
<1> QED
  BY <1>1, <1>2 DEF Waiting

LEMMA TakingLeaves ==
    ASSUME KeybInv, out' = "none", coming' = coming
    PROVE  Waiting' = Waiting - IF out = "none" THEN 0 ELSE 1
<1>1. Len(coming) \in Nat
  BY WaitingType
<1> QED
  BY <1>1 DEF Waiting

LEMMA CommandAdds ==
    ASSUME KeybInv, NEW c, Command(c), out' = out
    PROVE  Waiting' >= Waiting + IF c \in {"AA", "AB"} THEN 1 ELSE 0
<1>1. Len(coming) \in Nat /\ coming \in Seq(Bytes)
  BY WaitingType DEF KeybInv
<1>2. <<"55">> \in Seq(Bytes) /\ <<"00">> \in Seq(Bytes) /\ <<>> \in Seq(Bytes)
  BY DEF Bytes, Answers
<1>3. /\ Len(<<"55">> \o coming) = 1 + Len(coming)
      /\ Len(<<"00">> \o coming) = 1 + Len(coming)
      /\ Len(<<>> \o coming) = 0 + Len(coming)
  BY <1>1, <1>2, ConcatProperties
<1>4. Len(coming') >= Len(coming) + IF c \in {"AA", "AB"} THEN 1 ELSE 0
  BY <1>1, <1>3 DEF Command
<1>5. Len(coming') \in Nat
  BY <1>1, <1>3 DEF Command
<1> DEFINE full == IF out = "none" THEN 0 ELSE 1
           more == IF c \in {"AA", "AB"} THEN 1 ELSE 0
<1>6. full \in Nat /\ more \in Nat
  OBVIOUS
<1>7. Waiting = Len(coming) + full /\ Waiting' = Len(coming') + full
  BY DEF Waiting
<1>8. Len(coming') >= Len(coming) + more
  BY <1>4
<1> HIDE DEF full, more
<1>9. Waiting' >= Waiting + more
  BY <1>1, <1>5, <1>6, <1>7, <1>8
<1> QED
  BY <1>9 DEF more

LEMMA KeyboardAnswers ==
    ASSUME KeybInv, NEW c, ToKeyboard(c), out' = out
    PROVE  /\ Waiting' >= 1
           /\ c = "FF" => /\ coming' # <<>> /\ Head(coming') = Ack
                          /\ Waiting' = IF out = "none" THEN 2 ELSE 3
<1>1. Len(coming) \in Nat /\ coming \in Seq(Bytes) /\ Ack \in Bytes
  BY WaitingType DEF KeybInv, Bytes, Answers
<1>2. CASE c = "FF"
  <2>1. coming' = <<Ack, "AA">>
    BY <1>2 DEF ToKeyboard
  <2>2. Len(<<Ack, "AA">>) = 2 /\ Head(<<Ack, "AA">>) = Ack /\ <<Ack, "AA">> # <<>>
    OBVIOUS
  <2>3. Waiting' = 2 + IF out = "none" THEN 0 ELSE 1
    BY <2>1, <2>2 DEF Waiting
  <2> QED BY <2>1, <2>2, <2>3
<1>3. CASE c # "FF"
  <2>1. coming' \in {<<Ack>>, Append(coming, Ack)}
    BY <1>3 DEF ToKeyboard
  <2>2. Len(<<Ack>>) = 1 /\ Len(Append(coming, Ack)) = Len(coming) + 1
    BY <1>1, AppendProperties
  <2>3. Len(coming') \in Nat /\ Len(coming') >= 1
    <3>1. Len(coming') \in {1, Len(coming) + 1}
      BY <2>1, <2>2, Zenon
    <3>2. \A n \in Nat : 1 \in Nat /\ 1 >= 1 /\ n + 1 \in Nat /\ n + 1 >= 1
      OBVIOUS
    <3> QED BY <1>1, <3>1, <3>2, Zenon
  <2> QED BY <1>3, <2>3 DEF Waiting
<1> QED
  BY <1>2, <1>3

(* The bytes that the reads from here to the next write will take.         *)
Need(k) ==
    CASE k \in {8, 9, 12} -> 2
      [] k \in {3, 6, 13, 15, 18, 20, 22, 25, 27, 29} -> 1
      [] OTHER -> 0

(* They wait.  After the first reset there may be a third byte, the one    *)
(* that was in the buffer before; without it the next byte is the answer.  *)
ReadInv ==
    /\ Waiting >= Need(kpc)
    /\ kpc = 8 => \/ out = "none" /\ coming # <<>> /\ Head(coming) = Ack
                  \/ out = Ack
                  \/ out # "none" /\ Waiting >= 3
    /\ phase # "keyboard" => kpc = Done

LEMMA NeedType ==
    ASSUME NEW k
    PROVE  /\ Need(k) \in 0..2
           /\ k \in {1, 2, 4, 5, 7, 10, 11, 14, 16, 17, 19, 21, 23, 24, 26, 28, 30, 31, 32} => Need(k) = 0
           /\ k \in {3, 6, 13, 15, 18, 20, 22, 25, 27, 29} => Need(k) = 1
           /\ k \in {8, 9, 12} => Need(k) = 2
BY DEF Need

(* A step of the setup leaves what the reads after it need.                *)
LEMMA SetupKeepsNeed ==
    ASSUME KeybInv, ReadInv, keyb8042_init
    PROVE  /\ Waiting' >= Need(kpc')
           /\ kpc' = 8 => \/ out' = "none" /\ coming' # <<>> /\ Head(coming') = Ack
                          \/ out' = Ack
                          \/ out' # "none" /\ Waiting' >= 3
<1>w. Waiting \in Nat /\ Waiting' \in Nat
  <2>1. KeybInv'
    BY KeybKept
  <2>2. Len(coming)' \in Nat
    BY <2>1, LenProperties DEF KeybInv
  <2> QED BY <2>2, WaitingType DEF Waiting
<1>d. Done = 32
  BY ScriptEnd
<1>n. Waiting >= Need(kpc)
  BY DEF ReadInv
<1>1. CASE Probe
  <2>1. kpc = 1 /\ kpc' \in {32, kpc + 1}
    BY <1>1, <1>d, StepAt DEF Probe
  <2>2. kpc' \in {2, 32}
    BY <2>1
  <2>3. Need(kpc') = 0
    BY <2>2, NeedType
  <2> QED BY <1>w, <2>2, <2>3
<1>2. CASE Write
  <2>1. kpc' = kpc + 1 /\ out' = out
    BY <1>2 DEF Write
  <2>2. CASE Step("cmd") /\ Command(Script[kpc][2])
    <3>1. kpc \in {2, 4, 5, 23}
      BY <2>2, StepAt
    <3>2. Waiting' >= Waiting + IF Script[kpc][2] \in {"AA", "AB"} THEN 1 ELSE 0
      BY <2>1, <2>2, CommandAdds
    <3>3. CASE kpc \in {2, 5}
      <4>1. Script[kpc][2] \in {"AA", "AB"}
        BY <3>3, ScriptTable, Zenon
      <4>2. kpc' \in {3, 6}
        BY <2>1, <3>3
      <4>3. Need(kpc') = 1
        BY <4>2, NeedType
      <4> QED BY <1>w, <3>2, <4>1, <4>2, <4>3
    <3>4. CASE kpc \in {4, 23}
      <4>1. kpc' \in {5, 24}
        BY <2>1, <3>4
      <4>2. Need(kpc') = 0
        BY <4>1, NeedType
      <4> QED BY <1>w, <4>1, <4>2
    <3> QED BY <3>1, <3>3, <3>4
  <2>3. CASE Step("out") /\ ToKeyboard(Script[kpc][2])
    <3>1. kpc \in {7, 11, 14, 16, 17, 19, 21, 24, 26, 28, 30, 31}
      BY <2>3, StepAt
    <3>2. /\ Waiting' >= 1
          /\ Script[kpc][2] = "FF" => /\ coming' # <<>> /\ Head(coming') = Ack
                                      /\ Waiting' = IF out = "none" THEN 2 ELSE 3
      BY <2>1, <2>3, KeyboardAnswers
    <3>3. CASE kpc \in {7, 11}
      <4>1. Script[kpc][2] = "FF"
        BY <3>3, ScriptTable, Zenon
      <4>2. Waiting' >= 2 /\ (out # "none" => Waiting' >= 3)
        BY <3>2, <4>1
      <4>3. kpc' \in {8, 12}
        BY <2>1, <3>3
      <4>4. Need(kpc') = 2
        BY <4>3, NeedType
      <4> QED BY <2>1, <3>2, <4>1, <4>2, <4>4
    <3>4. CASE kpc \notin {7, 11}
      <4>1. kpc' \in {15, 17, 18, 20, 22, 25, 27, 29, 31, 32}
        BY <2>1, <3>1, <3>4
      <4>2. Need(kpc') \in {0, 1}
        BY <4>1, NeedType
      <4> QED BY <1>w, <3>2, <4>1, <4>2
    <3> QED BY <3>3, <3>4
  <2> QED BY <1>2, <2>2, <2>3 DEF Write
<1>3. CASE Read
  <2>1. kpc \in {6, 12, 13, 15, 18, 20, 22, 25, 27, 29} /\ kpc' = kpc + 1
    BY <1>3, StepAt DEF Read
  <2>2. out # "none" /\ out' = "none" /\ coming' = coming
    BY <1>3 DEF Read, read_buffer
  <2>3. Waiting' = Waiting - 1
    BY <2>2, TakingLeaves
  <2>4. CASE kpc = 12
    <3>1. Need(kpc) = 2 /\ kpc' = 13
      BY <2>1, <2>4, NeedType
    <3>2. Need(kpc') = 1
      BY <3>1, NeedType
    <3> QED BY <1>n, <1>w, <2>3, <3>1, <3>2
  <2>5. CASE kpc # 12
    <3>1. kpc' \in {7, 14, 16, 19, 21, 23, 26, 28, 30}
      BY <2>1, <2>5
    <3>2. Need(kpc') = 0
      BY <3>1, NeedType
    <3> QED BY <1>w, <3>1, <3>2
  <2> QED BY <2>4, <2>5
<1>4. CASE ReadAndTest
  <2>1. out # "none" /\ out' = "none" /\ coming' = coming
    BY <1>4 DEF ReadAndTest, read_buffer
  <2>2. Waiting' = Waiting - 1
    BY <2>1, TakingLeaves
  <2>3. CASE Step("self test")
    <3>0. kpc = 3 /\ (Step("ack") => kpc = 8)
      BY <2>3, StepAt, Zenon
    <3>1. kpc = 3 /\ ~Step("ack")
      BY <3>0
    <3>2. kpc' \in {kpc + 1, 32}
      BY <1>4, <1>d, <3>1 DEF ReadAndTest
    <3>3. kpc' \in {4, 32}
      BY <3>1, <3>2
    <3>4. Need(kpc') = 0
      BY <3>3, NeedType
    <3> QED BY <1>w, <3>3, <3>4
  <2>4. CASE ~Step("self test")
    <3>1. Step("ack")
      BY <1>4, <2>4 DEF ReadAndTest
    <3>2. kpc = 8
      BY <3>1, StepAt
    <3>3. kpc' = IF out = Ack THEN kpc + 5 ELSE kpc + 1
      BY <1>4, <2>4 DEF ReadAndTest, read_buffer
    <3>4. out = Ack \/ Waiting >= 3
      BY <2>1, <3>2 DEF ReadInv
    <3>5. Waiting >= 2
      BY <1>n, <3>2, NeedType
    <3>6. CASE out = Ack
      <4>1. kpc' = 13
        BY <3>2, <3>3, <3>6
      <4>2. Need(kpc') = 1
        BY <4>1, NeedType
      <4> QED BY <1>w, <2>2, <3>5, <4>1, <4>2
    <3>7. CASE out # Ack
      <4>1. kpc' = 9
        BY <3>2, <3>3, <3>7
      <4>2. Need(kpc') = 2
        BY <4>1, NeedType
      <4> QED BY <1>w, <2>2, <3>4, <3>7, <4>1, <4>2
    <3> QED BY <3>6, <3>7
  <2> QED BY <2>3, <2>4
<1>5. CASE Look
  <2>1. out' = "none" /\ coming' = coming
    BY <1>5 DEF Look
  <2>2. Waiting' >= Waiting - 1
    BY <1>w, <2>1, TakingLeaves
  <2>3. CASE Step("look")
    <3>0. kpc = 9 /\ (Step("drop") => kpc = 10)
      BY <2>3, StepAt, Zenon
    <3>1. kpc = 9 /\ ~Step("drop")
      BY <3>0
    <3>2. kpc' \in {kpc + 4, kpc + 1}
      BY <1>5, <3>1 DEF Look
    <3>3. kpc' \in {13, 10}
      BY <3>1, <3>2
    <3>4. Need(kpc) = 2 /\ Need(kpc') \in {0, 1}
      BY <3>1, <3>3, NeedType
    <3> QED BY <1>n, <1>w, <2>2, <3>3, <3>4
  <2>4. CASE ~Step("look")
    <3>1. Step("drop") /\ kpc' = kpc + 1
      BY <1>5, <2>4 DEF Look
    <3>2. kpc = 10
      BY <3>1, StepAt, Zenon
    <3>3. kpc' = 11
      BY <3>1, <3>2
    <3>4. Need(kpc') = 0
      BY <3>3, NeedType
    <3> QED BY <1>w, <3>3, <3>4
  <2> QED BY <2>3, <2>4
<1> QED
  BY <1>1, <1>2, <1>3, <1>4, <1>5 DEF keyb8042_init

(* Once the setup is over, the keyboard is read by the rest of the program. *)
LEMMA SetupSteps ==
    ASSUME PhaseInv, Main
    PROVE  \/ phase = "keyboard" /\ phase' = "keyboard" /\ keyb8042_init
           \/ kpc = Done /\ kpc' = kpc
           \/ phase # "keyboard" /\ kpc' = kpc /\ phase' # "keyboard"
<1> USE DEF keybVars
<1>1. CASE keyboard_init
  BY <1>1 DEF keyboard_init
<1>2. CASE Scan
  BY <1>2 DEF Scan
<1>3. CASE autoprobe_network_card
  BY <1>3 DEF autoprobe_network_card, PhaseInv
<1>4. CASE Ask
  <2>1. phase' \in {"ask", back}
    BY <1>4 DEF Ask
  <2> QED BY <1>4, <2>1 DEF Ask, Key, PhaseInv
<1>5. CASE OpenFirst
  BY <1>5 DEF OpenFirst
<1>6. CASE MenuKey
  <2>1. phase' # "keyboard"
    BY <1>6 DEF MenuKey
  <2> QED BY <1>6, <2>1 DEF MenuKey, Key
<1>7. CASE MenuNoKey
  BY <1>7 DEF MenuNoKey
<1>8. CASE OpenFailed
  BY <1>8 DEF OpenFailed, Key
<1>9. CASE net_idle
  BY <1>9 DEF net_idle
<1>10. CASE EntryKey
  <2>1. phase' \in {"entry", "net"}
    BY <1>10 DEF EntryKey, Type, Erase
  <2> QED BY <1>10, <2>1 DEF EntryKey, Key
<1>11. CASE PciMenuKey
  <2>1. phase' \in {"pci menu", "pci bars", "net"}
    BY <1>11 DEF PciMenuKey
  <2> QED BY <1>11, <2>1 DEF PciMenuKey, Key
<1>12. CASE PciBarsKey
  <2>1. phase' \in {"pci menu", "pci bars"}
    BY <1>12 DEF PciBarsKey
  <2> QED BY <1>12, <2>1 DEF PciBarsKey, Key
<1> QED
  BY <1>1, <1>2, <1>3, <1>4, <1>5, <1>6, <1>7, <1>8, <1>9, <1>10, <1>11, <1>12 DEF Main

LEMMA ReadKept ==
    ASSUME StationInv, ReadInv, [Next]_vars
    PROVE  ReadInv'
<1>k. KeybInv /\ PhaseInv
  BY DEF StationInv
<1>n. KeybInv'
  BY StationInvKept DEF StationInv
<1>w. Waiting \in Nat /\ Waiting' \in Nat
  <2>1. Len(coming)' \in Nat
    BY <1>n, LenProperties DEF KeybInv
  <2> QED BY <1>k, <2>1, WaitingType DEF Waiting
<1>d. Done = 32 /\ Need(Done) = 0
  BY ScriptEnd, NeedType
<1>1. ASSUME kpc = Done, kpc' = kpc PROVE ReadInv'
  BY <1>1, <1>d, <1>w DEF ReadInv
<1>2. CASE Main
  <2>1. CASE phase = "keyboard" /\ phase' = "keyboard" /\ keyb8042_init
    BY <1>k, <2>1, SetupKeepsNeed DEF ReadInv
  <2>2. CASE kpc = Done /\ kpc' = kpc
    BY <1>1, <2>2
  <2>3. CASE phase # "keyboard" /\ kpc' = kpc /\ phase' # "keyboard"
    BY <1>1, <2>3 DEF ReadInv
  <2> QED BY <1>2, <1>k, <2>1, <2>2, <2>3, SetupSteps
<1>3. CASE Keyboard
  <2>1. Deliver /\ phase' = phase /\ kpc' = kpc /\ out = "none"
    BY <1>3 DEF Keyboard, mainVars, Deliver
  <2>2. Waiting' = Waiting
    BY <1>k, <2>1, DeliverMoves
  <2>3. kpc = 8 => out' = Ack
    BY <2>1 DEF ReadInv, Deliver, Ack
  <2> QED BY <2>1, <2>2, <2>3 DEF ReadInv
<1>4. CASE Typist
  <2>1. PICK k \in Keys : Press(k) /\ phase' = phase
    BY <1>4 DEF Typist, mainVars
  <2>2. Waiting' = Waiting + 1
    BY <1>k, <2>1, PressAdds
  <2>3. kpc' = kpc /\ out' = out /\ coming' = Append(coming, k)
    BY <2>1 DEF Press
  <2>4. coming # <<>> => coming' # <<>> /\ Head(coming') = Head(coming)
    <3>1. coming \in Seq(Bytes) /\ k \in Bytes
      BY <1>k DEF KeybInv, Bytes
    <3>2. ASSUME coming # <<>> PROVE coming' # <<>> /\ Head(coming') = Head(coming)
      <4>1. Len(coming) \in Nat \ {0}
        BY <3>1, <3>2, EmptySeq, LenProperties
      <4>2. /\ Append(coming, k) \in Seq(Bytes) /\ Append(coming, k) # <<>>
            /\ Append(coming, k)[1] = coming[1]
        BY <3>1, <4>1, AppendProperties
      <4>3. Head(coming) = coming[1] /\ Head(Append(coming, k)) = Append(coming, k)[1]
        OBVIOUS
      <4> QED BY <2>3, <4>2, <4>3
    <3> QED BY <3>2
  <2>5. Waiting' >= Need(kpc')
    <3>1. Need(kpc) \in 0..2
      BY NeedType
    <3> QED BY <1>w, <2>2, <2>3, <3>1 DEF ReadInv
  <2>6. Waiting >= 3 => Waiting' >= 3
    BY <1>w, <2>2
  <2> HIDE DEF Waiting
  <2> QED BY <2>1, <2>3, <2>4, <2>5, <2>6, Zenon DEF ReadInv
<1>5. CASE Interrupt \/ Timer \/ UNCHANGED vars
  <2>1. UNCHANGED <<kpc, out, coming, phase>>
    BY <1>5 DEF Interrupt, Timer, vars, mainVars, keybVars
  <2> QED BY <2>1 DEF ReadInv, Waiting
<1> QED
  BY <1>2, <1>3, <1>4, <1>5 DEF Next

(* A read of keyb8042_init never waits in vain: a byte is in the buffer or *)
(* on its way, whichever keys are pressed and whatever their bytes are     *)
(* taken for.  Of the answers that go unread none is waited for later.     *)
NoReadInVain == Step("self test") \/ Step("ack") \/ Step("read") => Waiting > 0

(* keyb8042_init is never stuck in keyb8042_read_buffer: for every set of  *)
(* keys, pressed whenever the keyboard is on, each read of the setup finds *)
(* a byte in the buffer or on its way, though a key may be taken for an    *)
(* answer and two of the answers to the LEDs are never read.  It is what   *)
(* BootDone rests on.                                                      *)
THEOREM KeyboardAnswersEveryRead == Spec => []NoReadInVain
<1>1. Init => ReadInv
  <2> SUFFICES ASSUME Init PROVE ReadInv
    OBVIOUS
  <2>1. KeybInv /\ kpc = 1 /\ phase = "keyboard"
    BY StationInvInitially DEF Init, StationInv
  <2>2. Waiting \in Nat /\ Need(kpc) = 0
    BY <2>1, WaitingType, NeedType
  <2> QED BY <2>1, <2>2 DEF ReadInv
<1>2. StationInv /\ ReadInv /\ [Next]_vars => ReadInv'
  BY ReadKept
<1>3. StationInv /\ ReadInv => NoReadInVain
  <2> DEFINE reads == {3, 8} \cup {6, 12, 13, 15, 18, 20, 22, 25, 27, 29}
  <2>1. ASSUME KeybInv, ReadInv, kpc \in reads PROVE Waiting > 0
    <3>1. Need(kpc) \in {1, 2}
      BY <2>1, NeedType
    <3>2. Waiting \in Nat /\ Waiting >= Need(kpc)
      BY <2>1, WaitingType DEF ReadInv
    <3> QED BY <3>1, <3>2
  <2>2. ASSUME KeybInv, Step("self test") \/ Step("ack") \/ Step("read") PROVE kpc \in reads
    BY <2>2, StepAt, Zenon
  <2> QED BY <2>1, <2>2, Zenon DEF NoReadInVain, StationInv
<1> QED
  BY <1>1, <1>2, <1>3, StationInvariant, PTL DEF Spec
=============================================================================
