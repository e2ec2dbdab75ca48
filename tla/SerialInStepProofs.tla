------------------------ MODULE SerialInStepProofs ------------------------
(***************************************************************************)
(* Proofs about the answers of the serial session.                         *)
(*                                                                         *)
(* When no answer comes too late and no write is refused, the host and the *)
(* target stay in step, and what a call returns is true.  The invariant    *)
(* Phase says, for each place the host can wait at, how far the target has *)
(* come with the call and what of its answer is on the way.                *)
(*                                                                         *)
(* Without these conditions, a TEST that returns 1 brings the two sides    *)
(* back in step after one EXEC that was not waited for (Repair).           *)
(***************************************************************************)
EXTENDS SerialSessionProofs, FiniteSetTheorems

(* The host waits for every program, it is not stopped in the middle of a  *)
(* call, and it writes only where every mode does, at most 64 KB at once.  *)
Timely ==
    /\ ~SlowExec /\ ~Restarts
    /\ \A c \in Calls : c.cmd = "WRITEB" => c.addr < Limit8086 /\ c.count < Word

(* The characters and words of answers and of memory.                      *)
Chars == {"O", "K", "SP", "E", "R", "CR", "LF", "ESC", "x", "0", "cmd", "Test", "Function",
          "complete", "Accepted", "Invalid", "Unknown"} \cup Modes

(* One line and nothing behind it.                                         *)
IsLine(s) ==
    /\ s \in Seq(Chars) /\ Len(s) > 0 /\ s[Len(s)] = "LF"
    /\ \A i \in 1..Len(s) - 1 : s[i] # "LF"

Good(s) ==
    /\ IsLine(s) /\ Len(s) >= 5
    /\ s[1] = "O" /\ s[2] = "K" /\ s[3] = "SP" /\ Printable(s[4])

Bad(s) == IsLine(s) /\ Printable(s[1]) /\ s[1] # "O"

(* Behind its first o characters s is what a READB answers to the call.    *)
DataLine(s, o) ==
    /\ s \in Seq(Chars)
    /\ \E n \in 0..Call.count :
          /\ Len(s) = o + n + 2
          /\ \A i \in 1..n : s[o + i] = mem[Call.addr + i - 1]
          /\ s[o + n + 1] = "CR" /\ s[o + n + 2] = "LF"

OkHead(s) == s[1] = "O" /\ s[2] = "K" /\ s[3] = "SP"

Refusal(s) ==
    /\ s \in Seq(Chars) /\ Len(s) = 7
    /\ s[1] = "E" /\ s[2] = "R" /\ s[3] = "R" /\ s[4] = "SP"
    /\ s[5] = "Invalid" /\ s[6] = "CR" /\ s[7] = "LF"

Last == Len(issued)
Listening == tpc = "line" /\ in_buf = <<>> /\ toTarget = <<>>

(* The target has not answered the call yet.                               *)
Asked == tpc = "line" /\ in_buf = <<>> /\ toTarget = Wire(Call, Last)
Heard == /\ tpc = "line" /\ in_buf = <<Symbol("cmd", Last)>>
         /\ toTarget = Tail(Wire(Call, Last))
Taking == /\ tpc = "payload" /\ cur = Last /\ Len(toTarget) = left
          /\ bx + left = Call.addr + Call.count
Running == tpc = "exec" /\ cur = Last /\ toTarget = <<>> /\ Call.cmd = "EXEC"

OnTheWay ==
    toHost = <<>> /\ Last \notin done /\ (Asked \/ Heard \/ Taking \/ Running)

(* What a call that was carried out has done.                              *)
Effect ==
    /\ Call.cmd = "WRITEB" => Region(Call) = Call.data
    /\ Call.cmd \in Modes => mode = _jmp(Call.cmd)

Answered ==
    \/ /\ Last \in done /\ Effect /\ Good(toHost)
       /\ Call.cmd = "TEST" => toHost[4] = "Test"
    \/ Last \notin done /\ Bad(toHost)

ReadAnswered ==
    \/ Last \in done /\ OkHead(toHost) /\ DataLine(toHost, 3)
    \/ Last \notin done /\ Refusal(toHost)

(* What the last call returned.                                            *)
Returned ==
    /\ result.code = "ok" =>
          /\ issued # <<>> /\ Last \in done /\ Effect
          /\ Call.cmd = "READB" => Region(Call) = result.buf
    /\ result.code \in {"fail", "error"} => issued # <<>> /\ Last \notin done

Phase ==
    /\ \A a \in 0..Cells - 1 : mem[a] \in Chars
    /\ hpc # "second"
    /\ hpc # "idle" => issued # <<>>
    /\ hpc = "idle" => Quiet /\ Returned
    /\ hpc = "response" => Call.cmd # "READB" /\ (OnTheWay \/ (Listening /\ Answered))
    /\ hpc = "select" => Call.cmd = "READB" /\ (OnTheWay \/ (Listening /\ ReadAnswered))
    /\ hpc = "data" => /\ Call.cmd = "READB" /\ Listening
                       /\ Last \in done /\ DataLine(toHost, 0)
    /\ hpc = "rest" => Call.cmd = "READB" /\ Listening /\ Last \notin done /\ Bad(toHost)

-----------------------------------------------------------------------------
(* Lines of characters.                                                    *)

LEMMA TextConcat ==
    ASSUME NEW s \in Seq(Chars), NEW t \in Seq(Chars)
    PROVE  /\ s \o t \in Seq(Chars) /\ Len(s \o t) = Len(s) + Len(t)
           /\ Len(s) \in Nat /\ Len(t) \in Nat
           /\ \A i \in 1..Len(s) : (s \o t)[i] = s[i]
           /\ \A i \in 1..Len(t) : (s \o t)[Len(s) + i] = t[i]
<1>1. /\ s \o t \in Seq(Chars) /\ Len(s \o t) = Len(s) + Len(t)
      /\ \A i \in 1..Len(s) + Len(t) :
            (s \o t)[i] = IF i <= Len(s) THEN s[i] ELSE t[i - Len(s)]
      /\ Len(s) \in Nat /\ Len(t) \in Nat
  BY ConcatProperties
<1>2. ASSUME NEW i \in 1..Len(t) PROVE (s \o t)[Len(s) + i] = t[i]
  <2>1. Len(s) + i \in 1..Len(s) + Len(t) /\ ~(Len(s) + i <= Len(s)) /\ Len(s) + i - Len(s) = i
    BY <1>1
  <2> QED
    BY <1>1, <2>1
<1>3. ASSUME NEW i \in 1..Len(s) PROVE (s \o t)[i] = s[i]
  BY <1>1
<1> QED
  BY <1>1, <1>2, <1>3

Text(h, t) == (h \o t) \o <<"CR", "LF">>

LEMMA TextFacts ==
    ASSUME NEW h \in Seq(Chars), NEW t \in Seq(Chars)
    PROVE  LET a == Text(h, t) IN
           /\ a \in Seq(Chars) /\ Len(a) = Len(h) + Len(t) + 2
           /\ Len(h) \in Nat /\ Len(t) \in Nat
           /\ \A i \in 1..Len(h) : a[i] = h[i]
           /\ \A i \in 1..Len(t) : a[Len(h) + i] = t[i]
           /\ a[Len(h) + Len(t) + 1] = "CR" /\ a[Len(h) + Len(t) + 2] = "LF"
<1> DEFINE b == h \o t
           e == <<"CR", "LF">>
           a == Text(h, t)
<1>1. e \in Seq(Chars) /\ Len(e) = 2 /\ e[1] = "CR" /\ e[2] = "LF"
  BY DEF Chars
<1>2. /\ b \in Seq(Chars) /\ Len(b) = Len(h) + Len(t)
      /\ Len(h) \in Nat /\ Len(t) \in Nat
      /\ \A i \in 1..Len(h) : b[i] = h[i]
      /\ \A i \in 1..Len(t) : b[Len(h) + i] = t[i]
  BY TextConcat
<1>e. a = b \o e
  BY DEF Text
<1> HIDE DEF b, e, a
<1>3. /\ a \in Seq(Chars) /\ Len(a) = Len(b) + Len(e)
      /\ \A i \in 1..Len(b) : a[i] = b[i]
      /\ \A i \in 1..Len(e) : a[Len(b) + i] = e[i]
  <2>1. b \in Seq(Chars) /\ e \in Seq(Chars)
    BY <1>1, <1>2
  <2>2. /\ b \o e \in Seq(Chars) /\ Len(b \o e) = Len(b) + Len(e)
        /\ \A i \in 1..Len(b) : (b \o e)[i] = b[i]
        /\ \A i \in 1..Len(e) : (b \o e)[Len(b) + i] = e[i]
    BY <2>1, TextConcat
  <2> QED
    BY <1>e, <2>2
<1>4. \A i \in 1..Len(h) : i \in 1..Len(b)
  BY <1>2
<1>5. \A i \in 1..Len(t) : Len(h) + i \in 1..Len(b)
  BY <1>2
<1>6. a[Len(b) + 1] = "CR" /\ a[Len(b) + 2] = "LF"
  BY <1>1, <1>3
<1> QED
  BY <1>1, <1>2, <1>3, <1>4, <1>5, <1>6 DEF a

LEMMA GoodAnswer ==
    ASSUME NEW t \in Seq(Chars), Len(t) > 0, \A i \in 1..Len(t) : Printable(t[i])
    PROVE  Good(Ok(t)) /\ Ok(t)[4] = t[1]
<1> DEFINE h == <<"O", "K", "SP">>
           a == Ok(t)
<1>1. /\ h \in Seq(Chars) /\ Len(h) = 3 /\ h[1] = "O" /\ h[2] = "K" /\ h[3] = "SP"
      /\ a = Text(h, t)
  BY DEF Ok, Text, Chars
<1> HIDE DEF h, a
<1>2. /\ a \in Seq(Chars) /\ Len(a) = Len(t) + 5 /\ Len(t) \in Nat
      /\ \A i \in 1..3 : a[i] = h[i]
      /\ \A i \in 1..Len(t) : a[3 + i] = t[i]
      /\ a[Len(t) + 4] = "CR" /\ a[Len(t) + 5] = "LF"
  <2>1. /\ a \in Seq(Chars) /\ Len(a) = Len(h) + Len(t) + 2 /\ Len(t) \in Nat
        /\ \A i \in 1..Len(h) : a[i] = h[i]
        /\ \A i \in 1..Len(t) : a[Len(h) + i] = t[i]
        /\ a[Len(h) + Len(t) + 1] = "CR" /\ a[Len(h) + Len(t) + 2] = "LF"
    BY <1>1, TextFacts
  <2>2. Len(h) + Len(t) + 1 = Len(t) + 4 /\ Len(h) + Len(t) + 2 = Len(t) + 5
    BY <1>1, <2>1
  <2> QED
    BY <1>1, <2>1, <2>2
<1>3. a[1] = "O" /\ a[2] = "K" /\ a[3] = "SP" /\ a[4] = t[1]
  BY <1>1, <1>2
<1>4. ASSUME NEW i \in 1..Len(a) - 1 PROVE a[i] # "LF"
  <2>1. CASE i \in 1..3
    BY <2>1, <1>3
  <2>2. CASE i = Len(t) + 4
    BY <2>2, <1>2
  <2>3. CASE i - 3 \in 1..Len(t)
    <3>1. a[3 + (i - 3)] = t[i - 3] /\ 3 + (i - 3) = i
      BY <2>3, <1>2
    <3> QED
      BY <3>1, <2>3 DEF Printable
  <2> QED
    BY <2>1, <2>2, <2>3, <1>2
<1>5. Printable(a[4])
  BY <1>2, <1>3
<1>6. Good(a)
  BY <1>2, <1>3, <1>4, <1>5 DEF Good, IsLine
<1> QED
  BY <1>3, <1>6 DEF a

LEMMA Refuses ==
    ASSUME NEW w \in Chars, Printable(w)
    PROVE  Bad(Err(<<w>>)) /\ (w = "Invalid" => Refusal(Err(<<w>>)))
<1> DEFINE h == <<"E", "R", "R", "SP">>
           t == <<w>>
           a == Err(<<w>>)
<1>1. /\ h \in Seq(Chars) /\ Len(h) = 4
      /\ h[1] = "E" /\ h[2] = "R" /\ h[3] = "R" /\ h[4] = "SP"
      /\ t \in Seq(Chars) /\ Len(t) = 1 /\ t[1] = w
      /\ a = Text(h, t)
  BY DEF Err, Text, Chars
<1> HIDE DEF h, t, a
<1>2. /\ a \in Seq(Chars) /\ Len(a) = Len(h) + Len(t) + 2
      /\ \A i \in 1..Len(h) : a[i] = h[i]
      /\ \A i \in 1..Len(t) : a[Len(h) + i] = t[i]
      /\ a[Len(h) + Len(t) + 1] = "CR" /\ a[Len(h) + Len(t) + 2] = "LF"
  <2> DEFINE b == Text(h, t)
  <2>1. h \in Seq(Chars) /\ t \in Seq(Chars) /\ a = b
    BY <1>1
  <2>2. /\ b \in Seq(Chars) /\ Len(b) = Len(h) + Len(t) + 2
        /\ \A i \in 1..Len(h) : b[i] = h[i]
        /\ \A i \in 1..Len(t) : b[Len(h) + i] = t[i]
        /\ b[Len(h) + Len(t) + 1] = "CR" /\ b[Len(h) + Len(t) + 2] = "LF"
    BY <2>1, TextFacts
  <2> HIDE DEF b
  <2> QED
    BY <2>1, <2>2
<1>3. /\ Len(a) = 7 /\ a[1] = "E" /\ a[2] = "R" /\ a[3] = "R" /\ a[4] = "SP"
      /\ a[5] = w /\ a[6] = "CR" /\ a[7] = "LF"
  BY <1>1, <1>2
<1>4. \A i \in 1..Len(a) - 1 : a[i] # "LF"
  <2>1. \A i \in 1..Len(a) - 1 : i = 1 \/ i = 2 \/ i = 3 \/ i = 4 \/ i = 5 \/ i = 6
    BY <1>3
  <2> QED
    BY <1>3, <2>1 DEF Printable
<1>5. Bad(a) /\ (w = "Invalid" => Refusal(a))
  BY <1>2, <1>3, <1>4 DEF Bad, IsLine, Printable, Refusal
<1> QED
  BY <1>5 DEF a

-----------------------------------------------------------------------------
(* What the host makes of a line.                                          *)

LEMMA OneLine ==
    ASSUME IsLine(toHost)
    PROVE  /\ HasLine /\ EndOfFirst = Len(toHost) /\ Len(toHost) \in Nat \ {0}
           /\ BehindLine = <<>>
<1>1. Len(toHost) \in Nat \ {0} /\ Len(toHost) \in 1..Len(toHost)
  BY DEF IsLine
<1>2. HasLine
  BY <1>1 DEF HasLine, IsLine
<1>3. EndOfFirst = Len(toHost)
  <2> DEFINE Q(i) == toHost[i] = "LF" /\ \A j \in 1..i - 1 : toHost[j] # "LF"
  <2>1. Q(Len(toHost))
    BY DEF IsLine
  <2>2. ASSUME NEW i \in 1..Len(toHost), Q(i) PROVE i = Len(toHost)
    <3>1. i # Len(toHost) => i \in 1..Len(toHost) - 1
      BY <1>1
    <3> QED
      BY <2>2, <3>1 DEF IsLine
  <2>3. EndOfFirst = CHOOSE i \in 1..Len(toHost) : Q(i)
    BY DEF EndOfFirst
  <2> HIDE DEF Q
  <2> QED
    BY <1>1, <2>1, <2>2, <2>3
<1>4. BehindLine = <<>>
  BY <1>1, <1>3, SubSeqEmpty DEF BehindLine
<1> QED
  BY <1>1, <1>2, <1>3, <1>4

(* As long as every character is kept, the n-th kept one is the n-th.      *)
LEMMA KeptCount ==
    ASSUME IsLine(toHost), NEW m \in 1..Len(toHost),
           \A j \in 1..m : Printable(toHost[j]), NEW i \in Kept
    PROVE  /\ i \in Nat
           /\ i <= m => Cardinality({j \in Kept : j <= i}) = i
           /\ i > m => Cardinality({j \in Kept : j <= i}) > m
<1> DEFINE K == {j \in Kept : j <= i}
<1>1. Kept = {j \in 1..Len(toHost) : Printable(toHost[j])} /\ Len(toHost) \in Nat
  BY OneLine DEF Kept
<1>2. i \in 1..Len(toHost)
  BY <1>1
<1>3. ASSUME i <= m PROVE Cardinality(K) = i
  <2>1. K = 1..i
    BY <1>1, <1>2, <1>3
  <2>2. Cardinality(1..i) = i
    BY <1>1, <1>2, FS_Interval
  <2> QED
    BY <2>1, <2>2
<1>4. ASSUME i > m PROVE Cardinality(K) > m
  <2>1. (1..m) \cup {i} \in SUBSET K
    BY <1>1, <1>2, <1>4
  <2>2. IsFiniteSet(1..Len(toHost)) /\ K \in SUBSET (1..Len(toHost))
    BY <1>1, FS_Interval
  <2>3. IsFiniteSet(K)
    BY <2>2, FS_Subset
  <2>4. IsFiniteSet(1..m) /\ Cardinality(1..m) = m /\ i \notin 1..m
    BY <1>4, <1>1, FS_Interval
  <2>5. Cardinality((1..m) \cup {i}) = m + 1
    BY <2>4, FS_AddElement
  <2>6. Cardinality((1..m) \cup {i}) <= Cardinality(K)
    BY <2>1, <2>3, FS_Subset
  <2>7. Cardinality(K) \in Nat
    BY <2>3, FS_CardinalityType
  <2> HIDE DEF K
  <2> QED
    BY <2>5, <2>6, <2>7
<1> QED
  BY <1>2, <1>3, <1>4

LEMMA GoodIsOk ==
    ASSUME Good(toHost)
    PROVE  IsOk /\ (toHost[4] # "Function" => ~Begins(<<"O", "K", "SP", "Function">>))
<1>1. /\ IsLine(toHost) /\ 4 \in 1..Len(toHost) /\ Len(toHost) \in Nat
      /\ \A j \in 1..4 : Printable(toHost[j])
  <2>1. \A j \in 1..4 : j = 1 \/ j = 2 \/ j = 3 \/ j = 4
    OBVIOUS
  <2> QED
    BY <2>1, OneLine DEF Good, Printable
<1>2. \A j \in 1..4 : j \in Kept
  BY <1>1, OneLine DEF Kept
<1>3. \A i \in Kept : /\ i \in Nat
                      /\ i <= 4 => Cardinality({j \in Kept : j <= i}) = i
                      /\ i > 4 => Cardinality({j \in Kept : j <= i}) > 4
  BY <1>1, KeptCount
<1>4. IsOk
  <2> DEFINE p == <<"O", "K">>
  <2>1. Len(p) = 2 /\ p[1] = "O" /\ p[2] = "K"
    OBVIOUS
  <2> HIDE DEF p
  <2>2. ASSUME NEW n \in 1..2
        PROVE  \E i \in Kept : Cardinality({j \in Kept : j <= i}) = n /\ toHost[i] = p[n]
    <3>1. n \in Kept /\ n <= 4
      BY <1>2
    <3>2. toHost[n] = p[n]
      BY <2>1 DEF Good
    <3> QED
      BY <3>1, <3>2, <1>3
  <2>3. Begins(p)
    BY <2>1, <2>2 DEF Begins
  <2> QED
    BY <2>3 DEF IsOk, p
<1>5. ASSUME Begins(<<"O", "K", "SP", "Function">>) PROVE toHost[4] = "Function"
  <2> DEFINE p == <<"O", "K", "SP", "Function">>
  <2>1. Len(p) = 4 /\ p[4] = "Function" /\ 4 \in 1..4
    OBVIOUS
  <2> HIDE DEF p
  <2>2. PICK i \in Kept : Cardinality({j \in Kept : j <= i}) = 4 /\ toHost[i] = p[4]
    BY <1>5, <2>1 DEF Begins, p
  <2>3. i \in Nat /\ (i <= 4 => i = 4) /\ ~(i > 4)
    BY <1>3, <2>2
  <2>4. i = 4
    BY <2>3
  <2> QED
    BY <2>1, <2>2, <2>4
<1> QED
  BY <1>4, <1>5

LEMMA BadIsNot ==
    ASSUME Bad(toHost)
    PROVE  ~IsOk /\ ~Begins(<<"O", "K", "SP", "Function">>)
<1>1. IsLine(toHost) /\ 1 \in 1..Len(toHost) /\ \A j \in 1..1 : Printable(toHost[j])
  BY OneLine DEF Bad
<1>2. \A i \in Kept : /\ i \in Nat
                      /\ i <= 1 => Cardinality({j \in Kept : j <= i}) = i
                      /\ i > 1 => Cardinality({j \in Kept : j <= i}) > 1
  BY <1>1, KeptCount
<1>3. ASSUME NEW p, Len(p) \in Nat \ {0}, p[1] = "O", Begins(p) PROVE FALSE
  <2>0. 1 \in 1..Len(p)
    BY <1>3
  <2>1. PICK i \in Kept : Cardinality({j \in Kept : j <= i}) = 1 /\ toHost[i] = p[1]
    BY <1>3, <2>0 DEF Begins
  <2>2. i \in Nat /\ (i <= 1 => i = 1) /\ ~(i > 1)
    BY <1>2, <2>1
  <2>3. i = 1
    BY <2>2
  <2> QED
    BY <1>3, <2>1, <2>3 DEF Bad
<1>4. ~Begins(<<"O", "K">>)
  <2> DEFINE p == <<"O", "K">>
  <2>1. Len(p) \in Nat \ {0} /\ p[1] = "O"
    OBVIOUS
  <2> HIDE DEF p
  <2> QED
    BY <1>3, <2>1 DEF p
<1>5. ~Begins(<<"O", "K", "SP", "Function">>)
  <2> DEFINE p == <<"O", "K", "SP", "Function">>
  <2>1. Len(p) \in Nat \ {0} /\ p[1] = "O"
    OBVIOUS
  <2> HIDE DEF p
  <2> QED
    BY <1>3, <2>1 DEF p
<1> QED
  BY <1>4, <1>5 DEF IsOk

-----------------------------------------------------------------------------
(* The host.                                                               *)

LEMMA LastFacts ==
    ASSUME SerialInv, issued # <<>>
    PROVE  /\ Last \in Nat \ {0} /\ Last \in 1..Len(issued)
           /\ Call \in Calls /\ Call = issued[Last]
           /\ Call.addr \in Nat /\ Call.count \in Nat /\ Call.addr + Call.count <= Cells
           /\ Cells \in Nat /\ Size(Call) \in Nat
           /\ Call.cmd = "WRITEB" => Size(Call) = Call.count
           /\ Call.cmd # "WRITEB" => Size(Call) = 0
<1>1. issued \in Seq(Calls)
  BY DEF SerialInv, TypeOK
<1>2. Last \in Nat \ {0} /\ Last \in 1..Len(issued)
  BY <1>1, EmptySeq DEF Last
<1>3. Call \in Calls /\ Call = issued[Last]
  BY <1>1, <1>2 DEF Call, Last
<1>4. /\ Call.addr \in Nat /\ Call.count \in Nat /\ Call.addr + Call.count <= Cells
      /\ Size(Call) \in Nat
  BY <1>3, CallFacts
<1> QED
  BY <1>2, <1>3, <1>4, SerialConstants DEF Size

LEMMA InitPhase == Init => Phase
<1> SUFFICES ASSUME Init PROVE Phase
  OBVIOUS
<1>1. \A a \in 0..Cells - 1 : mem[a] \in Chars
  BY DEF Init, Chars
<1>2. Quiet
  BY DEF Init, Quiet
<1>3. Returned
  BY DEF Init, Returned
<1> QED
  BY <1>1, <1>2, <1>3 DEF Init, Phase

LEMMA SendPhase ==
    ASSUME SerialInv, Phase, NEW c \in Calls, NEW where, Send(c, where),
           where = IF c.cmd = "READB" THEN "select" ELSE "response"
    PROVE  Phase'
<1>1. /\ toTarget = <<>> /\ toHost = <<>> /\ tpc = "line" /\ in_buf = <<>>
  BY DEF Send, Phase, Quiet
<1>2. /\ issued \in Seq(Calls) /\ Len(issued) \in Nat /\ issued' = Append(issued, c)
      /\ Len(issued') = Len(issued) + 1 /\ issued'[Len(issued) + 1] = c /\ issued' # <<>>
  BY DEF SerialInv, TypeOK, Send
<1>3. Last' = Len(issued) + 1 /\ Call' = c
  BY <1>2 DEF Last, Call
<1>4. UNCHANGED <<toHost, tpc, in_buf, mem, done>> /\ hpc' = where
  BY DEF Send, targetVars
<1>5. toTarget' = Wire(c, Len(issued) + 1)
  <2>1. Wire(c, Len(issued) + 1) \in Seq(Symbols)
    BY <1>2, WireFacts
  <2> QED
    BY <1>1, <2>1, ConcatEmptySeq DEF Send
<1>6. Last' \notin done'
  BY <1>2, <1>3, <1>4 DEF SerialInv, TypeOK
<1>7. OnTheWay'
  BY <1>1, <1>3, <1>4, <1>5, <1>6 DEF OnTheWay, Asked
<1>8. \A a \in 0..Cells - 1 : mem'[a] \in Chars
  BY <1>4 DEF Phase
<1> QED
  BY <1>2, <1>3, <1>4, <1>7, <1>8 DEF Phase

LEMMA CallsPhase == SerialInv /\ Phase /\ HostCalls => Phase'
BY SendPhase DEF HostCalls, remote_rs232_test, remote_rs232_switch, remote_rs232_exec,
                 remote_rs232_write, remote_rs232_read, Modes

(* While nothing has been answered the host is not told that it is over.   *)
LEMMA NotSilent ==
    ASSUME Timely, SerialInv, issued # <<>>, OnTheWay
    PROVE  ~Silence /\ ~HasLine /\ ~(Len(toHost) >= 3)
<1>1. ~HasLine /\ ~(Len(toHost) >= 3)
  BY DEF OnTheWay, HasLine
<1>2. tpc # "exec" => toTarget # <<>>
  <2>l. Last \in Nat /\ Call \in Calls /\ Size(Call) \in Nat
    BY LastFacts
  <2>w. Wire(Call, Last) \in Seq(Symbols) /\ Len(Wire(Call, Last)) = Size(Call) + 2
    BY <2>l, WireFacts
  <2>1. CASE Asked
    BY <2>1, <2>l, <2>w DEF Asked
  <2>2. CASE Heard
    <3>1. Wire(Call, Last) # <<>>
      BY <2>l, <2>w
    <3>2. /\ Tail(Wire(Call, Last)) \in Seq(Symbols)
          /\ Len(Tail(Wire(Call, Last))) = Len(Wire(Call, Last)) - 1
      BY <2>w, <3>1, TailFacts
    <3> QED
      BY <2>2, <2>l, <2>w, <3>2 DEF Heard
  <2>3. CASE Taking
    BY <2>3 DEF Taking, SerialInv, Work
  <2>4. CASE Running
    BY <2>4 DEF Running
  <2> QED
    BY <2>1, <2>2, <2>3, <2>4 DEF OnTheWay
<1> QED
  BY <1>1, <1>2 DEF Silence, Timely

LEMMA ReturnPhase ==
    ASSUME SerialInv, Phase, Listening, toHost' = <<>>, issued # <<>>,
           NEW code \in {"ok", "fail", "error"}, NEW buf, Return(code, buf),
           code = "ok" => /\ Last \in done /\ Effect
                          /\ Call.cmd = "READB" => Region(Call) = buf,
           code # "ok" => Last \notin done
    PROVE  Phase'
<1>1. /\ UNCHANGED <<issued, toTarget, tpc, in_buf, mem, mode, done>> /\ hpc' = "idle"
      /\ result'.code = code /\ result'.buf = buf
  BY DEF Return, targetVars
<1>2. Quiet'
  BY <1>1 DEF Quiet, Listening
<1>3. Last' = Last /\ Call' = Call /\ Region(Call)' = Region(Call)
  BY <1>1 DEF Last, Call, Region
<1>4. Effect' = Effect
  BY <1>1, <1>3 DEF Effect
<1>5. Returned'
  BY <1>1, <1>3, <1>4 DEF Returned
<1>6. \A a \in 0..Cells - 1 : mem'[a] \in Chars
  BY <1>1 DEF Phase
<1> QED
  BY <1>1, <1>2, <1>5, <1>6 DEF Phase

LEMMA ResponsePhase ==
    ASSUME Timely, SerialInv, Phase,
           remote_rs232_get_response \/ get_last_response \/ response_timeout
    PROVE  Phase'
<1>h. hpc \in {"response", "rest"} /\ issued # <<>>
  BY DEF remote_rs232_get_response, get_last_response, response_timeout, Phase
<1>1. CASE hpc = "response" /\ OnTheWay
  <2>1. ~Silence /\ ~HasLine
    BY <1>h, <1>1, NotSilent
  <2> QED
    BY <2>1 DEF remote_rs232_get_response, get_last_response, response_timeout
<1>2. CASE hpc = "response" /\ Listening /\ Answered
  <2>c. Call.cmd # "READB"
    BY <1>2 DEF Phase
  <2>1. CASE /\ Last \in done /\ Effect /\ Good(toHost)
             /\ Call.cmd = "TEST" => toHost[4] = "Test"
    <3>1. HasLine /\ BehindLine = <<>> /\ IsOk
      BY <2>1, OneLine, GoodIsOk DEF Good
    <3>2. Call.cmd = "TEST" => ~Begins(<<"O", "K", "SP", "Function">>)
      BY <2>1, GoodIsOk
    <3>3. toHost' = <<>> /\ Return("ok", <<>>)
      BY <1>2, <3>1, <3>2
         DEF remote_rs232_get_response, get_last_response, response_timeout
    <3> QED
      BY <1>2, <1>h, <2>1, <2>c, <3>3, ReturnPhase
  <2>2. CASE Last \notin done /\ Bad(toHost)
    <3>1. /\ HasLine /\ BehindLine = <<>> /\ ~IsOk
          /\ ~Begins(<<"O", "K", "SP", "Function">>)
      BY <2>2, OneLine, BadIsNot DEF Bad
    <3>2. toHost' = <<>> /\ Return("fail", <<>>)
      BY <1>2, <3>1
         DEF remote_rs232_get_response, get_last_response, response_timeout
    <3> QED
      BY <1>2, <1>h, <2>2, <3>2, ReturnPhase
  <2> QED
    BY <1>2, <2>1, <2>2 DEF Answered
<1>3. CASE hpc = "rest"
  <2>1. Listening /\ Last \notin done /\ Bad(toHost)
    BY <1>3 DEF Phase
  <2>2. HasLine /\ BehindLine = <<>> /\ ~IsOk
    BY <2>1, OneLine, BadIsNot DEF Bad
  <2>3. toHost' = <<>> /\ Return("fail", <<>>)
    BY <1>3, <2>2
       DEF remote_rs232_get_response, get_last_response, response_timeout
  <2> QED
    BY <1>h, <2>1, <2>3, ReturnPhase
<1> QED
  BY <1>h, <1>1, <1>2, <1>3 DEF Phase

LEMMA HeadPhase ==
    ASSUME Timely, SerialInv, Phase, read_head \/ select_timeout
    PROVE  Phase'
<1>h. hpc = "select" /\ issued # <<>> /\ Call.cmd = "READB"
  BY DEF read_head, select_timeout, Phase
<1>1. Listening /\ ReadAnswered
  <2>1. CASE OnTheWay
    <3>1. ~Silence /\ ~(Len(toHost) >= 3)
      BY <1>h, <2>1, NotSilent
    <3> QED
      BY <3>1 DEF read_head, select_timeout
  <2> QED
    BY <1>h, <2>1 DEF Phase
<1>l. Call.addr \in Nat /\ Call.count \in Nat
  BY <1>h, LastFacts
<1>2. toHost \in Seq(Chars) /\ Len(toHost) \in Nat /\ Len(toHost) > 3
  <2>1. CASE Refusal(toHost)
    BY <2>1 DEF Refusal
  <2>2. CASE DataLine(toHost, 3)
    <3>1. PICK n \in 0..Call.count : Len(toHost) = 3 + n + 2
      BY <2>2 DEF DataLine
    <3> QED
      BY <1>l, <2>2, <3>1 DEF DataLine
  <2> QED
    BY <1>1, <2>1, <2>2 DEF ReadAnswered
<1>3. read_head
  BY <1>2 DEF select_timeout
<1>u. UNCHANGED <<issued, toTarget, tpc, in_buf, mem, done>>
  BY <1>3 DEF read_head, targetVars
<1>s. /\ SubSeq(toHost, 1, 3) \in Seq(Chars) /\ Len(SubSeq(toHost, 1, 3)) = 3
      /\ SubSeq(toHost, 1, 3)[1] = toHost[1] /\ SubSeq(toHost, 1, 3)[2] = toHost[2]
      /\ SubSeq(toHost, 1, 3)[3] = toHost[3]
  <2> DEFINE h == SubSeq(toHost, 1, 3)
  <2>1. /\ h \in Seq(Chars) /\ Len(h) = (IF 1 <= 3 THEN 3 - 1 + 1 ELSE 0)
        /\ \A i \in 1..3 - 1 + 1 : h[i] = toHost[1 + i - 1]
    <3>1. \A i \in 1..3 : toHost[i] \in Chars
      BY <1>2
    <3> QED
      BY <3>1, SubSeqProperties
  <2> HIDE DEF h
  <2>2. /\ Len(h) = 3 /\ h[1] = toHost[1] /\ h[2] = toHost[2] /\ h[3] = toHost[3]
    BY <2>1
  <2> QED
    BY <2>1, <2>2 DEF h
<1>t. /\ toHost' \in Seq(Chars) /\ Len(toHost') = Len(toHost) - 3
      /\ \A i \in 1..Len(toHost) - 3 : toHost'[i] = toHost[3 + i]
  <2>0. toHost' = SubSeq(toHost, 4, Len(toHost))
    BY <1>3 DEF read_head
  <2>1. \A i \in 4..Len(toHost) : toHost[i] \in Chars
    BY <1>2
  <2>2. /\ toHost' \in Seq(Chars)
        /\ Len(toHost') = IF 4 <= Len(toHost) THEN Len(toHost) - 4 + 1 ELSE 0
        /\ \A i \in 1..Len(toHost) - 4 + 1 : toHost'[i] = toHost[4 + i - 1]
    BY <1>2, <2>0, <2>1, SubSeqProperties
  <2>3. Len(toHost') = Len(toHost) - 3
    BY <1>2, <2>2
  <2>4. ASSUME NEW i \in 1..Len(toHost) - 3 PROVE toHost'[i] = toHost[3 + i]
    <3>1. i \in 1..Len(toHost) - 4 + 1 /\ 4 + i - 1 = 3 + i
      BY <1>2
    <3> QED
      BY <2>2, <3>1
  <2> QED
    BY <2>2, <2>3, <2>4
<1>v. Last' = Last /\ Call' = Call /\ Listening'
  BY <1>u, <1>1 DEF Last, Call, Listening
<1>4. CASE Last \in done /\ OkHead(toHost) /\ DataLine(toHost, 3)
  <2>1. hpc' = "data"
    <3> DEFINE h == SubSeq(toHost, 1, 3)
               k == <<"O", "K", "SP">>
    <3>1. k \in Seq(Chars) /\ Len(k) = 3 /\ k[1] = "O" /\ k[2] = "K" /\ k[3] = "SP"
      BY DEF Chars
    <3>2. h \in Seq(Chars) /\ Len(h) = 3 /\ h[1] = "O" /\ h[2] = "K" /\ h[3] = "SP"
      BY <1>4, <1>s DEF OkHead
    <3> HIDE DEF h, k
    <3>3. \A i \in 1..3 : h[i] = k[i]
      <4>1. \A i \in 1..3 : i = 1 \/ i = 2 \/ i = 3
        OBVIOUS
      <4> QED
        BY <3>1, <3>2, <4>1
    <3>4. h = k
      BY <3>1, <3>2, <3>3, SeqEqual
    <3> QED
      BY <1>3, <3>4 DEF read_head, h, k
  <2>2. DataLine(toHost, 0)'
    <3>1. PICK n \in 0..Call.count :
              /\ Len(toHost) = 3 + n + 2
              /\ \A i \in 1..n : toHost[3 + i] = mem[Call.addr + i - 1]
              /\ toHost[3 + n + 1] = "CR" /\ toHost[3 + n + 2] = "LF"
      BY <1>4 DEF DataLine
    <3>2. n \in Nat /\ Len(toHost') = 0 + n + 2 /\ Len(toHost) - 3 = n + 2
      BY <1>t, <1>l, <3>1
    <3>3. ASSUME NEW i \in 1..n PROVE toHost'[0 + i] = mem[Call.addr + i - 1]
      <4>1. i \in 1..Len(toHost) - 3 /\ 0 + i = i
        BY <3>2
      <4> QED
        BY <4>1, <3>1, <1>t
    <3>4. toHost'[0 + n + 1] = "CR" /\ toHost'[0 + n + 2] = "LF"
      <4>1. /\ n + 1 \in 1..Len(toHost) - 3 /\ 0 + n + 1 = n + 1 /\ 3 + (n + 1) = 3 + n + 1
            /\ n + 2 \in 1..Len(toHost) - 3 /\ 0 + n + 2 = n + 2 /\ 3 + (n + 2) = 3 + n + 2
        BY <3>2
      <4> QED
        BY <4>1, <3>1, <1>t
    <3> QED
      <4>1. Call'.count = Call.count /\ Call'.addr = Call.addr /\ mem' = mem
        BY <1>u, <1>v
      <4>2. \E m \in 0..Call'.count :
               /\ Len(toHost') = 0 + m + 2
               /\ \A i \in 1..m : toHost'[0 + i] = mem'[Call'.addr + i - 1]
               /\ toHost'[0 + m + 1] = "CR" /\ toHost'[0 + m + 2] = "LF"
        BY <3>2, <3>3, <3>4, <4>1
      <4> QED
        BY <1>t, <4>2 DEF DataLine
  <2> QED
    BY <1>4, <1>h, <1>u, <1>v, <2>1, <2>2 DEF Phase
<1>5. CASE Last \notin done /\ Refusal(toHost)
  <2>1. hpc' = "rest"
    <3>1. SubSeq(toHost, 1, 3) # <<"O", "K", "SP">>
      <4>1. SubSeq(toHost, 1, 3)[1] = "E" /\ <<"O", "K", "SP">>[1] = "O"
        BY <1>5, <1>s DEF Refusal
      <4> QED
        BY <4>1
    <3> QED
      BY <1>3, <3>1 DEF read_head
  <2>2. Bad(toHost')
    <3>1. /\ Len(toHost') = 4 /\ Len(toHost) - 3 = 4
      BY <1>5, <1>t DEF Refusal
    <3>2. /\ toHost'[1] = "SP" /\ toHost'[2] = "Invalid" /\ toHost'[3] = "CR"
          /\ toHost'[4] = "LF"
      BY <1>5, <1>t, <3>1 DEF Refusal
    <3>3. \A i \in 1..Len(toHost') - 1 : i = 1 \/ i = 2 \/ i = 3
      BY <3>1
    <3>4. toHost'[Len(toHost')] = "LF" /\ Len(toHost') > 0
      BY <3>1, <3>2
    <3>5. \A i \in 1..Len(toHost') - 1 : toHost'[i] # "LF"
      BY <3>2, <3>3
    <3> QED
      BY <1>t, <3>2, <3>4, <3>5 DEF Bad, IsLine, Printable
  <2> QED
    BY <1>5, <1>h, <1>u, <1>v, <2>1, <2>2 DEF Phase
<1> QED
  BY <1>1, <1>4, <1>5 DEF ReadAnswered

(* The buffer is what memory held, and nothing is left of the answer.      *)
LEMMA DataPhase ==
    ASSUME SerialInv, Phase, read_data
    PROVE  Phase'
<1>h. /\ hpc = "data" /\ issued # <<>> /\ Call.cmd = "READB" /\ Listening
      /\ Last \in done /\ DataLine(toHost, 0)
  BY DEF read_data, Phase
<1>l. Call.addr \in Nat /\ Call.count \in Nat /\ Call.addr + Call.count <= Cells /\ Cells \in Nat
  BY <1>h, LastFacts
<1> DEFINE n == Call.count
<1>1. /\ toHost \in Seq(Chars) /\ Len(toHost) = n + 2
      /\ \A i \in 1..n : toHost[i] = mem[Call.addr + i - 1]
      /\ toHost[n + 1] = "CR" /\ toHost[n + 2] = "LF"
  <2>1. PICK m \in 0..Call.count :
            /\ Len(toHost) = 0 + m + 2
            /\ \A i \in 1..m : toHost[0 + i] = mem[Call.addr + i - 1]
            /\ toHost[0 + m + 1] = "CR" /\ toHost[0 + m + 2] = "LF"
    BY <1>h DEF DataLine
  <2>2. Len(toHost) >= n + 2
    BY DEF read_data
  <2>3. m = n /\ 0 + m + 1 = n + 1 /\ 0 + m + 2 = n + 2
    BY <1>l, <2>1, <2>2
  <2>4. \A i \in 1..n : 0 + i = i
    BY <1>l
  <2> QED
    BY <1>h, <2>1, <2>3, <2>4 DEF DataLine
<1> HIDE DEF n
<1>n. n \in Nat /\ n = Call.count
  BY <1>l DEF n
<1>2. toHost' = <<>>
  <2>1. toHost' = SubSeq(toHost, n + 3, n + 2)
    BY <1>1 DEF read_data, n
  <2> QED
    BY <1>n, <2>1, SubSeqEmpty
<1>3. SubSeq(toHost, n + 1, n + 2) = <<"CR", "LF">>
  <2> DEFINE h == SubSeq(toHost, n + 1, n + 2)
             k == <<"CR", "LF">>
  <2>1. k \in Seq(Chars) /\ Len(k) = 2 /\ k[1] = "CR" /\ k[2] = "LF"
    BY DEF Chars
  <2>2. /\ h \in Seq(Chars)
        /\ Len(h) = IF n + 1 <= n + 2 THEN n + 2 - (n + 1) + 1 ELSE 0
        /\ \A i \in 1..n + 2 - (n + 1) + 1 : h[i] = toHost[n + 1 + i - 1]
    <3>1. \A i \in n + 1..n + 2 : toHost[i] \in Chars
      BY <1>1, <1>n
    <3> QED
      BY <1>n, <3>1, SubSeqProperties
  <2> HIDE DEF h, k
  <2>a. n + 1 <= n + 2 /\ n + 2 - (n + 1) + 1 = 2 /\ n + 1 + 1 - 1 = n + 1 /\ n + 1 + 2 - 1 = n + 2
    BY <1>n
  <2>3. Len(h) = 2 /\ \A i \in 1..2 : h[i] = toHost[n + 1 + i - 1]
    BY <2>2, <2>a
  <2>4. h[1] = "CR" /\ h[2] = "LF"
    BY <1>1, <2>a, <2>3
  <2>5. \A i \in 1..2 : h[i] = k[i]
    <3>1. \A i \in 1..2 : i = 1 \/ i = 2
      OBVIOUS
    <3> QED
      BY <2>1, <2>4, <3>1
  <2>6. h = k
    BY <2>1, <2>2, <2>3, <2>5, SeqEqual
  <2> QED
    BY <2>6 DEF h, k
<1>4. SubSeq(toHost, 1, n) = Region(Call)
  <2> DEFINE h == SubSeq(toHost, 1, n)
             k == Region(Call)
  <2>1. k = [i \in 1..n |-> mem[Call.addr + i - 1]]
    BY <1>n DEF Region
  <2>2. \A i \in 1..n : toHost[i] \in Chars /\ mem[Call.addr + i - 1] = toHost[i]
    BY <1>1, <1>n
  <2>3. k \in Seq(Chars) /\ Len(k) = n /\ \A i \in 1..n : k[i] = toHost[i]
    BY <2>1, <2>2, <1>n
  <2>4. /\ h \in Seq(Chars) /\ Len(h) = IF 1 <= n THEN n - 1 + 1 ELSE 0
        /\ \A i \in 1..n - 1 + 1 : h[i] = toHost[1 + i - 1]
    BY <1>n, <2>2, SubSeqProperties
  <2> HIDE DEF h, k
  <2>5. Len(h) = n /\ n - 1 + 1 = n /\ \A i \in 1..n : 1 + i - 1 = i
    BY <1>n, <2>4
  <2>6. \A i \in 1..n : h[i] = k[i]
    BY <2>3, <2>4, <2>5
  <2>7. h = k
    BY <2>3, <2>4, <2>5, <2>6, SeqEqual
  <2> QED
    BY <2>7 DEF h, k
<1>5. Return("ok", Region(Call))
  BY <1>3, <1>4 DEF read_data, n
<1>6. Effect
  BY <1>h DEF Effect, Modes
<1> QED
  BY <1>h, <1>2, <1>5, <1>6, ReturnPhase

LEMMA WaitsPhase == Timely /\ SerialInv /\ Phase /\ HostWaits => Phase'
BY ResponsePhase, HeadPhase, DataPhase DEF HostWaits

-----------------------------------------------------------------------------
(* The target.                                                             *)

LEMMA NotAnswered ==
    ASSUME SerialInv, Phase, toTarget # <<>> \/ tpc # "line"
    PROVE  /\ hpc \in {"response", "select"} /\ issued # <<>> /\ OnTheWay
           /\ hpc = "select" <=> Call.cmd = "READB"
<1>1. hpc \in {"idle", "response", "select", "data", "rest"}
  BY DEF SerialInv, TypeOK, Phase
<1>2. ~Listening /\ ~Quiet
  BY DEF Listening, Quiet
<1> QED
  BY <1>1, <1>2 DEF Phase

LEMMA CallOnWire ==
    ASSUME SerialInv, issued # <<>>
    PROVE  LET w == Wire(Call, Last) IN
           /\ w \in Seq(Symbols) /\ w # <<>> /\ w[1] = Symbol("cmd", Last)
           /\ Tail(w) \in Seq(Symbols) /\ Tail(w) # <<>> /\ Tail(w)[1] = Symbol("LF", Last)
           /\ Tail(Tail(w)) \in Seq(Symbols) /\ Len(Tail(Tail(w))) = Size(Call)
<1> DEFINE w == Wire(Call, Last)
           v == Tail(w)
           n == Size(Call)
<1>l. Last \in Nat /\ Call \in Calls /\ n \in Nat
  BY LastFacts
<1>1. /\ w \in Seq(Symbols) /\ Len(w) = n + 2
      /\ w[1] = Symbol("cmd", Last) /\ w[2] = Symbol("LF", Last)
  BY <1>l, WireFacts
<1> HIDE DEF w, n
<1>2. w # <<>>
  BY <1>l, <1>1
<1>3. /\ v \in Seq(Symbols) /\ Len(v) = Len(w) - 1
      /\ \A i \in 1..Len(w) - 1 : v[i] = w[i + 1]
  BY <1>1, <1>2, TailFacts
<1> HIDE DEF v
<1>4. Len(v) = n + 1 /\ Len(w) - 1 = n + 1
  BY <1>l, <1>1, <1>3
<1>5. v[1] = w[2]
  <2>1. 1 \in 1..n + 1
    BY <1>l
  <2> QED
    BY <1>3, <1>4, <2>1
<1>6. v # <<>>
  BY <1>l, <1>4
<1>7. Tail(v) \in Seq(Symbols) /\ Len(Tail(v)) = Len(v) - 1
  BY <1>3, <1>6, TailFacts
<1>8. Len(Tail(v)) = n
  BY <1>l, <1>4, <1>7
<1> QED
  BY <1>1, <1>2, <1>3, <1>5, <1>6, <1>7, <1>8 DEF w, v, n

LEMMA CharPhase ==
    ASSUME SerialInv, Phase, read_char \/ read_escaped \/ empty_line
    PROVE  Phase'
<1>t. tpc = "line" /\ toTarget # <<>> /\ toTarget \in Seq(Symbols)
  BY DEF SerialInv, Streams, read_char, read_escaped, empty_line, AtLineEnd
<1>h. hpc \in {"response", "select"} /\ issued # <<>> /\ OnTheWay
  BY <1>t, NotAnswered
<1>a. Asked \/ Heard
  BY <1>t, <1>h DEF OnTheWay, Taking, Running
<1> DEFINE w == Wire(Call, Last)
<1>w. /\ w \in Seq(Symbols) /\ w # <<>> /\ w[1] = Symbol("cmd", Last)
      /\ Tail(w) \in Seq(Symbols) /\ Tail(w) # <<>> /\ Tail(w)[1] = Symbol("LF", Last)
  BY <1>h, CallOnWire
<1> HIDE DEF w
<1>2. Head(toTarget) = toTarget[1]
  BY <1>t, TailFacts
<1>3. CASE Heard
  <2>1. toTarget[1].byte = "LF" /\ in_buf # <<>>
    BY <1>3, <1>w DEF Heard, w, Symbol
  <2> QED
    BY <2>1, <1>2 DEF read_char, read_escaped, empty_line
<1>4. CASE Asked
  <2>1. toTarget = w /\ in_buf = <<>>
    BY <1>4 DEF Asked, w
  <2>2. toTarget[1] = Symbol("cmd", Last) /\ toTarget[1].byte = "cmd"
    BY <2>1, <1>w DEF Symbol
  <2>3. read_char
    BY <2>2, <1>2 DEF read_escaped, empty_line, AtLineEnd
  <2>4. in_buf' = <<Symbol("cmd", Last)>> /\ toTarget' = Tail(w)
    BY <2>1, <2>2, <2>3, <1>2, SerialConstants DEF read_char, Stored
  <2>5. UNCHANGED <<hpc, issued, result, toHost, tpc, mem, done>>
    BY <2>3 DEF read_char, hostVars
  <2>6. Last' = Last /\ Call' = Call
    BY <2>5 DEF Last, Call
  <2>7. Heard'
    BY <1>t, <2>4, <2>5, <2>6 DEF Heard, w
  <2>8. OnTheWay'
    BY <1>h, <2>5, <2>6, <2>7 DEF OnTheWay
  <2> QED
    BY <1>h, <2>5, <2>6, <2>8 DEF Phase
<1> QED
  BY <1>a, <1>3, <1>4

(* The command has been read and its line ends.                            *)
LEMMA AtCommand ==
    ASSUME SerialInv, Phase, AtLineEnd, in_buf # <<>>
    PROVE  /\ hpc \in {"response", "select"} /\ issued # <<>>
           /\ hpc = "select" <=> Call.cmd = "READB"
           /\ Is(Last) /\ \A k : Is(k) => k = Last
           /\ toHost = <<>> /\ Last \notin done /\ tpc = "line"
           /\ in_buf' = <<>> /\ Len(toTarget') = Size(Call)
           /\ Size(Call) = 0 => toTarget' = <<>>
           /\ UNCHANGED <<hpc, issued, result>> /\ Last' = Last /\ Call' = Call
<1>t. /\ tpc = "line" /\ toTarget # <<>> /\ toTarget' = Tail(toTarget) /\ in_buf' = <<>>
      /\ UNCHANGED <<hpc, issued, result>>
  BY DEF AtLineEnd, hostVars
<1>h. /\ hpc \in {"response", "select"} /\ issued # <<>> /\ OnTheWay
      /\ hpc = "select" <=> Call.cmd = "READB"
  BY <1>t, NotAnswered
<1>1. Heard /\ toHost = <<>> /\ Last \notin done
  BY <1>t, <1>h DEF OnTheWay, Asked, Taking, Running
<1>2. Is(Last) /\ \A k : Is(k) => k = Last
  <2>1. Is(Last)
    BY <1>1 DEF Heard, Is
  <2>2. ASSUME NEW k, Is(k) PROVE k = Last
    <3>1. <<Symbol("cmd", k)>> = <<Symbol("cmd", Last)>>
      BY <2>1, <2>2 DEF Is
    <3>2. Symbol("cmd", k) = Symbol("cmd", Last)
      BY <3>1
    <3> QED
      BY <3>2 DEF Symbol
  <2> QED
    BY <2>1, <2>2
<1>3. Tail(toTarget) \in Seq(Symbols) /\ Len(Tail(toTarget)) = Size(Call)
  BY <1>1, <1>h, CallOnWire DEF Heard
<1>4. Size(Call) = 0 => Tail(toTarget) = <<>>
  BY <1>3, EmptySeq
<1>5. Last' = Last /\ Call' = Call
  BY <1>t DEF Last, Call
<1> QED
  BY <1>t, <1>h, <1>1, <1>2, <1>3, <1>4, <1>5

LEMMA MemKeeps ==
    ASSUME Phase, UNCHANGED mem
    PROVE  \A a \in 0..Cells - 1 : mem'[a] \in Chars
BY DEF Phase

(* The target has answered a call other than READB.                        *)
LEMMA Replies ==
    ASSUME hpc' = "response", issued' # <<>>, Call'.cmd # "READB",
           \A a \in 0..Cells - 1 : mem'[a] \in Chars,
           tpc' = "line", in_buf' = <<>>, toTarget' = <<>>, Answered'
    PROVE  Phase'
BY DEF Phase, Listening

LEMMA Prefix ==
    ASSUME NEW t, t \in Seq(Chars)
    PROVE  <<>> \o t = t
BY ConcatEmptySeq

LEMMA Words ==
    ASSUME NEW w \in Chars, Printable(w)
    PROVE  <<>> \o Ok(<<w>>) = Ok(<<w>>) /\ Good(Ok(<<w>>)) /\ Ok(<<w>>)[4] = w
<1> DEFINE t == <<w>>
<1>1. t \in Seq(Chars) /\ Len(t) = 1 /\ Len(t) > 0 /\ t[1] = w
  OBVIOUS
<1>2. \A i \in 1..Len(t) : Printable(t[i])
  BY <1>1
<1> HIDE DEF t
<1>3. Good(Ok(t)) /\ Ok(t)[4] = t[1]
  BY <1>1, <1>2, GoodAnswer
<1>4. <<>> \o Ok(t) = Ok(t)
  BY <1>3, Prefix DEF Good, IsLine
<1> QED
  BY <1>1, <1>3, <1>4 DEF t

LEMMA ExecWords ==
    <<>> \o Ok(ExecText) = Ok(ExecText) /\ Good(Ok(ExecText))
<1> DEFINE t == ExecText
<1>1. t \in Seq(Chars) /\ Len(t) = 2 /\ Len(t) > 0 /\ t[1] = "Function" /\ t[2] = "complete"
  BY DEF ExecText, Chars
<1> HIDE DEF t
<1>2. \A i \in 1..Len(t) : Printable(t[i])
  <2>1. \A i \in 1..Len(t) : i = 1 \/ i = 2
    BY <1>1
  <2> QED
    BY <1>1, <2>1 DEF Printable
<1>3. Good(Ok(t))
  BY <1>1, <1>2, GoodAnswer
<1>4. <<>> \o Ok(t) = Ok(t)
  BY <1>3, Prefix DEF Good, IsLine
<1> QED
  BY <1>3, <1>4 DEF t

LEMMA ErrWords ==
    ASSUME NEW w \in Chars, Printable(w)
    PROVE  /\ <<>> \o Err(<<w>>) = Err(<<w>>) /\ Bad(Err(<<w>>))
           /\ w = "Invalid" => Refusal(Err(<<w>>))
<1>1. Bad(Err(<<w>>)) /\ (w = "Invalid" => Refusal(Err(<<w>>)))
  BY Refuses
<1>2. Err(<<w>>) \in Seq(Chars)
  BY <1>1 DEF Bad, IsLine
<1> QED
  BY <1>1, <1>2, Prefix

LEMMA TestPhase ==
    ASSUME SerialInv, Phase, NEW k \in 1..Len(issued), command_test(k)
    PROVE  Phase'
<1>1. AtLineEnd /\ Is(k) /\ in_buf # <<>>
  BY DEF command_test, Is
<1>2. /\ hpc \in {"response", "select"} /\ issued # <<>>
      /\ hpc = "select" <=> Call.cmd = "READB"
      /\ k = Last /\ toHost = <<>> /\ tpc = "line" /\ in_buf' = <<>>
      /\ Size(Call) = 0 => toTarget' = <<>>
      /\ UNCHANGED <<hpc, issued, result>> /\ Last' = Last /\ Call' = Call
  BY <1>1, AtCommand
<1>3. Call.cmd = "TEST" /\ toTarget' = <<>>
  BY <1>2, LastFacts DEF command_test
<1>4. toHost' = Ok(<<"Test">>) /\ Good(toHost') /\ toHost'[4] = "Test"
  <2>1. "Test" \in Chars /\ Printable("Test")
    BY DEF Chars, Printable
  <2> QED
    BY <1>2, <2>1, Words DEF command_test, Answer, TestText
<1>5. Effect'
  BY <1>2, <1>3 DEF Effect, Modes
<1>6. Answered'
  BY <1>2, <1>4, <1>5 DEF Answered, command_test
<1>7. tpc' = "line" /\ \A a \in 0..Cells - 1 : mem'[a] \in Chars
  BY <1>2, MemKeeps DEF command_test
<1> QED
  BY <1>2, <1>3, <1>6, <1>7, Replies

LEMMA SwitchPhase ==
    ASSUME SerialInv, Phase, NEW k \in 1..Len(issued), command_switch(k)
    PROVE  Phase'
<1>1. AtLineEnd /\ Is(k) /\ in_buf # <<>>
  BY DEF command_switch, Is
<1>2. /\ hpc \in {"response", "select"} /\ issued # <<>>
      /\ hpc = "select" <=> Call.cmd = "READB"
      /\ k = Last /\ toHost = <<>> /\ tpc = "line" /\ in_buf' = <<>>
      /\ Size(Call) = 0 => toTarget' = <<>>
      /\ UNCHANGED <<hpc, issued, result>> /\ Last' = Last /\ Call' = Call
  BY <1>1, AtCommand
<1>m. Call.cmd \in Modes
  BY <1>2, LastFacts, Stage2Facts DEF command_switch, SerialInv, TypeOK
<1>3. Call.cmd # "WRITEB" /\ Call.cmd # "READB" /\ Call.cmd # "TEST" /\ toTarget' = <<>>
  BY <1>2, <1>m, LastFacts DEF Modes
<1>j. mode' = _jmp(Call.cmd) /\ mode' \in Modes
  BY <1>2, <1>m, LastFacts, SerialConstants DEF command_switch, _jmp, Modes
<1>4. Good(toHost')
  <2>1. mode' \in Chars /\ Printable(mode')
    BY <1>j DEF Chars, Printable, Modes
  <2>2. toHost' = <<>> \o Ok(<<mode'>>)
    BY <1>2 DEF command_switch, Answer
  <2> QED
    BY <2>1, <2>2, Words
<1>5. Effect'
  BY <1>2, <1>3, <1>j DEF Effect
<1>6. Answered'
  BY <1>2, <1>3, <1>4, <1>5 DEF Answered, command_switch
<1>7. tpc' = "line" /\ \A a \in 0..Cells - 1 : mem'[a] \in Chars
  BY <1>2, MemKeeps DEF command_switch
<1> QED
  BY <1>2, <1>3, <1>6, <1>7, Replies

LEMMA UnknownPhase ==
    ASSUME SerialInv, Phase, unknown_command
    PROVE  Phase'
<1>1. AtLineEnd /\ in_buf # <<>>
  BY DEF unknown_command
<1>2. /\ hpc \in {"response", "select"} /\ issued # <<>>
      /\ hpc = "select" <=> Call.cmd = "READB"
      /\ Is(Last) /\ toHost = <<>> /\ Last \notin done /\ tpc = "line" /\ in_buf' = <<>>
      /\ Size(Call) = 0 => toTarget' = <<>>
      /\ UNCHANGED <<hpc, issued, result>> /\ Last' = Last /\ Call' = Call
  BY <1>1, AtCommand
<1>3. Call.cmd # "WRITEB" /\ Call.cmd # "READB"
  <2>1. Last \in 1..Len(issued) /\ Call = issued[Last]
    BY <1>2, LastFacts
  <2>2. ~Understood(Last)
    BY <1>2, <2>1 DEF unknown_command
  <2> QED
    BY <2>1, <2>2 DEF Understood
<1>4. toTarget' = <<>>
  BY <1>2, <1>3, LastFacts
<1>5. Bad(toHost')
  <2>1. "Unknown" \in Chars /\ Printable("Unknown")
    BY DEF Chars, Printable
  <2> QED
    BY <1>2, <2>1, ErrWords DEF unknown_command, Answer
<1>6. Answered'
  BY <1>2, <1>5 DEF Answered, unknown_command
<1>7. tpc' = "line" /\ \A a \in 0..Cells - 1 : mem'[a] \in Chars
  BY <1>2, MemKeeps DEF unknown_command
<1> QED
  BY <1>2, <1>3, <1>4, <1>6, <1>7, Replies

LEMMA ExecPhase ==
    ASSUME SerialInv, Phase, NEW k \in 1..Len(issued), command_exec(k)
    PROVE  Phase'
<1>1. AtLineEnd /\ Is(k) /\ in_buf # <<>>
  BY DEF command_exec, Is
<1>2. /\ hpc \in {"response", "select"} /\ issued # <<>>
      /\ hpc = "select" <=> Call.cmd = "READB"
      /\ k = Last /\ toHost = <<>> /\ Last \notin done
      /\ Size(Call) = 0 => toTarget' = <<>>
      /\ UNCHANGED <<hpc, issued, result>> /\ Last' = Last /\ Call' = Call
  BY <1>1, AtCommand
<1>3. Call.cmd = "EXEC" /\ toTarget' = <<>>
  BY <1>2, LastFacts DEF command_exec
<1>4. Running'
  BY <1>2, <1>3 DEF Running, command_exec
<1>5. OnTheWay'
  BY <1>2, <1>4 DEF OnTheWay, command_exec
<1>6. \A a \in 0..Cells - 1 : mem'[a] \in Chars
  BY MemKeeps DEF command_exec
<1> QED
  BY <1>2, <1>3, <1>5, <1>6 DEF Phase

LEMMA ReturnsPhase ==
    ASSUME SerialInv, Phase, exec_returns
    PROVE  Phase'
<1>u. /\ UNCHANGED <<hpc, issued, result, toTarget, in_buf, mem, cur, mode>>
      /\ tpc = "exec" /\ tpc' = "line" /\ done' = done \cup {cur}
      /\ toHost' = toHost \o Ok(ExecText)
  BY DEF exec_returns, hostVars, Answer
<1>1. /\ hpc \in {"response", "select"} /\ issued # <<>> /\ OnTheWay
      /\ hpc = "select" <=> Call.cmd = "READB"
  BY <1>u, NotAnswered
<1>2. Running /\ toHost = <<>>
  BY <1>1, <1>u DEF OnTheWay, Asked, Heard, Taking
<1>3. Call.cmd = "EXEC" /\ cur = Last /\ toTarget = <<>> /\ in_buf = <<>>
  BY <1>u, <1>2 DEF Running, SerialInv, Work
<1>4. Last' = Last /\ Call' = Call
  BY <1>u DEF Last, Call
<1>5. Good(toHost')
  BY <1>u, <1>2, ExecWords
<1>6. Effect'
  BY <1>3, <1>4 DEF Effect, Modes
<1>7. Answered'
  BY <1>u, <1>3, <1>4, <1>5, <1>6 DEF Answered
<1>8. \A a \in 0..Cells - 1 : mem'[a] \in Chars
  BY <1>u, MemKeeps
<1> QED
  BY <1>u, <1>1, <1>3, <1>4, <1>7, <1>8, Replies

LEMMA RegionFacts ==
    ASSUME SerialInv, Phase, issued # <<>>
    PROVE  /\ Region(Call) \in Seq(Chars) /\ Len(Region(Call)) = Call.count
           /\ \A i \in 1..Call.count : Region(Call)[i] = mem[Call.addr + i - 1]
<1>l. Call.addr \in Nat /\ Call.count \in Nat /\ Call.addr + Call.count <= Cells /\ Cells \in Nat
  BY LastFacts
<1>1. \A i \in 1..Call.count : Call.addr + i - 1 \in 0..Cells - 1
  BY <1>l
<1>2. \A i \in 1..Call.count : mem[Call.addr + i - 1] \in Chars
  BY <1>1 DEF Phase
<1> QED
  BY <1>l, <1>2 DEF Region

LEMMA ReadPhase ==
    ASSUME SerialInv, Phase, NEW k \in 1..Len(issued), command_readb(k)
    PROVE  Phase'
<1>1. AtLineEnd /\ Is(k) /\ in_buf # <<>>
  BY DEF command_readb, Is
<1>2. /\ hpc \in {"response", "select"} /\ issued # <<>>
      /\ hpc = "select" <=> Call.cmd = "READB"
      /\ k = Last /\ toHost = <<>> /\ Last \notin done /\ tpc = "line" /\ in_buf' = <<>>
      /\ Size(Call) = 0 => toTarget' = <<>>
      /\ UNCHANGED <<hpc, issued, result>> /\ Last' = Last /\ Call' = Call
  BY <1>1, AtCommand
<1>l. /\ Call = issued[Last] /\ Call.addr \in Nat /\ Call.count \in Nat
      /\ Call.cmd # "WRITEB" => Size(Call) = 0
  BY <1>2, LastFacts
<1>3. /\ Call.cmd = "READB" /\ toTarget' = <<>> /\ hpc' = "select"
      /\ UNCHANGED <<tpc, mem>>
  BY <1>2, <1>l DEF command_readb
<1>4. ReadAnswered'
  <2>1. CASE Refused(k)
    <3>1. "Invalid" \in Chars /\ Printable("Invalid")
      BY DEF Chars, Printable
    <3>2. toHost' = toHost \o Err(<<"Invalid">>) /\ done' = done
      BY <2>1 DEF command_readb, Answer
    <3>3. Refusal(toHost')
      BY <1>2, <3>1, <3>2, ErrWords
    <3> QED
      BY <1>2, <3>2, <3>3 DEF ReadAnswered
  <2>2. CASE ~Refused(k)
    <3> DEFINE n == Call.count % Stage2.wrap
               r == Region(Call)
               t == SubSeq(r, 1, n)
               h == <<"O", "K", "SP">>
    <3>1. toHost' = toHost \o Ok(t) /\ done' = done \cup {Last}
      BY <2>2, <1>2, <1>l DEF command_readb, Answer
    <3>2. n \in 0..Call.count
      <4>1. Stage2.wrap \in Nat \ {0}
        BY Stage2Facts DEF SerialInv, TypeOK
      <4> QED
        BY <1>l, <4>1, ModFacts
    <3> HIDE DEF n
    <3>3. /\ r \in Seq(Chars) /\ Len(r) = Call.count
          /\ \A i \in 1..Call.count : r[i] = mem[Call.addr + i - 1]
      BY <1>2, RegionFacts
    <3> HIDE DEF r
    <3>4. /\ t \in Seq(Chars) /\ Len(t) = n
          /\ \A i \in 1..n : t[i] = mem[Call.addr + i - 1]
      <4>1. \A i \in 1..n : i \in 1..Call.count /\ r[i] \in Chars
        BY <1>l, <3>2, <3>3
      <4>2. /\ t \in Seq(Chars) /\ Len(t) = IF 1 <= n THEN n - 1 + 1 ELSE 0
            /\ \A i \in 1..n - 1 + 1 : t[i] = r[1 + i - 1]
        BY <1>l, <3>2, <4>1, SubSeqProperties
      <4> HIDE DEF t
      <4>3. Len(t) = n /\ n - 1 + 1 = n /\ \A i \in 1..n : 1 + i - 1 = i
        BY <1>l, <3>2, <4>2
      <4> QED
        BY <3>3, <4>1, <4>2, <4>3
    <3>5. /\ h \in Seq(Chars) /\ Len(h) = 3 /\ h[1] = "O" /\ h[2] = "K" /\ h[3] = "SP"
          /\ Ok(t) = Text(h, t)
      BY DEF Chars, Ok, Text
    <3> HIDE DEF t, h
    <3>6. /\ Ok(t) \in Seq(Chars) /\ Len(Ok(t)) = Len(h) + Len(t) + 2
          /\ \A i \in 1..Len(h) : Ok(t)[i] = h[i]
          /\ \A i \in 1..Len(t) : Ok(t)[Len(h) + i] = t[i]
          /\ Ok(t)[Len(h) + Len(t) + 1] = "CR" /\ Ok(t)[Len(h) + Len(t) + 2] = "LF"
      <4>1. t \in Seq(Chars) /\ h \in Seq(Chars)
        BY <3>4, <3>5
      <4> DEFINE a == Text(h, t)
      <4>2. /\ a \in Seq(Chars) /\ Len(a) = Len(h) + Len(t) + 2
            /\ \A i \in 1..Len(h) : a[i] = h[i]
            /\ \A i \in 1..Len(t) : a[Len(h) + i] = t[i]
            /\ a[Len(h) + Len(t) + 1] = "CR" /\ a[Len(h) + Len(t) + 2] = "LF"
        BY <4>1, TextFacts
      <4>3. a = Ok(t)
        BY <3>5
      <4> HIDE DEF a
      <4> QED
        BY <4>2, <4>3
    <3>7. toHost' = Ok(t)
      BY <1>2, <3>1, <3>6, Prefix
    <3>8. OkHead(toHost')
      BY <3>5, <3>6, <3>7 DEF OkHead
    <3>9. DataLine(toHost, 3)'
      <4>1. Call'.count = Call.count /\ Call'.addr = Call.addr /\ mem' = mem
        BY <1>2, <1>3
      <4>2. /\ Len(toHost') = 3 + n + 2
            /\ \A i \in 1..n : toHost'[3 + i] = mem'[Call'.addr + i - 1]
            /\ toHost'[3 + n + 1] = "CR" /\ toHost'[3 + n + 2] = "LF"
        BY <3>4, <3>5, <3>6, <3>7, <4>1
      <4>3. \E m \in 0..Call'.count :
               /\ Len(toHost') = 3 + m + 2
               /\ \A i \in 1..m : toHost'[3 + i] = mem'[Call'.addr + i - 1]
               /\ toHost'[3 + m + 1] = "CR" /\ toHost'[3 + m + 2] = "LF"
        BY <3>2, <4>1, <4>2
      <4> QED
        BY <3>6, <3>7, <4>3 DEF DataLine
    <3> QED
      BY <1>2, <3>1, <3>8, <3>9 DEF ReadAnswered
  <2> QED
    BY <2>1, <2>2
<1>5. \A a \in 0..Cells - 1 : mem'[a] \in Chars
  BY <1>3, MemKeeps
<1> QED
  BY <1>2, <1>3, <1>4, <1>5 DEF Phase, Listening

(* A write that every mode accepts: refused or counted as nothing only if  *)
(* there is nothing to write.                                              *)
LEMMA WritePhase ==
    ASSUME Timely, SerialInv, Phase, NEW k \in 1..Len(issued), command_writeb(k)
    PROVE  Phase'
<1>1. AtLineEnd /\ Is(k) /\ in_buf # <<>>
  BY DEF command_writeb, Is
<1>2. /\ hpc \in {"response", "select"} /\ issued # <<>>
      /\ hpc = "select" <=> Call.cmd = "READB"
      /\ k = Last /\ toHost = <<>> /\ Last \notin done /\ tpc = "line" /\ in_buf' = <<>>
      /\ Len(toTarget') = Size(Call)
      /\ Size(Call) = 0 => toTarget' = <<>>
      /\ UNCHANGED <<hpc, issued, result>> /\ Last' = Last /\ Call' = Call
  BY <1>1, AtCommand
<1>l. /\ Call = issued[Last] /\ Call \in Calls /\ Call.addr \in Nat /\ Call.count \in Nat
      /\ Call.addr + Call.count <= Cells /\ Cells \in Nat
      /\ Call.cmd = "WRITEB" => Size(Call) = Call.count
  BY <1>2, LastFacts
<1>3. /\ Call.cmd = "WRITEB" /\ hpc' = "response" /\ UNCHANGED mem
  BY <1>2, <1>l DEF command_writeb
<1>4. Call.addr < Limit8086 /\ Call.count < Word
  BY <1>3, <1>l DEF Timely
<1>5. /\ Stage2.wrap \in Nat \ {0} /\ Stage2.limit \in Nat
      /\ Stage2.wrap = Word \/ Stage2.wrap = Cells + 1
      /\ Stage2.limit >= Limit8086 \/ Stage2.limit = Cells
      /\ Word \in Nat /\ Limit8086 \in Nat
  BY Stage2Facts, SerialConstants DEF SerialInv, TypeOK
<1>6. Call.count % Stage2.wrap = Call.count
  <2>1. Call.count < Stage2.wrap
    BY <1>4, <1>5, <1>l
  <2> QED
    BY <2>1, <1>5, <1>l, ModFacts
<1>7. Refused(k) => Call.count = 0
  <2>1. Refused(k) => Call.addr >= Stage2.limit
    BY <1>2, <1>l DEF Refused
  <2>2. Stage2.limit \in Nat /\ (Stage2.limit > Call.addr \/ Stage2.limit = Cells)
    BY <1>4, <1>5, <1>l
  <2>3. Call.addr \in Nat /\ Call.count \in Nat /\ Call.addr + Call.count <= Cells
    BY <1>l
  <2> QED
    BY <2>1, <2>2, <2>3, SerialConstants
<1>8. \/ /\ Call.count = 0 /\ tpc' = tpc /\ done' = done
         /\ toHost' = toHost \o Err(<<"Invalid">>)
      \/ /\ Call.count = 0 /\ tpc' = tpc /\ done' = done \cup {Last}
         /\ toHost' = toHost \o Ok(<<"Accepted">>)
      \/ /\ tpc' = "payload" /\ cur' = Last /\ left' = Call.count /\ bx' = Call.addr
         /\ UNCHANGED <<toHost, done>>
  BY <1>2, <1>6, <1>7, <1>l DEF command_writeb, Answer
<1>m. \A a \in 0..Cells - 1 : mem'[a] \in Chars
  BY <1>3, MemKeeps
<1>9. CASE /\ Call.count = 0 /\ tpc' = tpc /\ done' = done
           /\ toHost' = toHost \o Err(<<"Invalid">>)
  <2>1. "Invalid" \in Chars /\ Printable("Invalid")
    BY DEF Chars, Printable
  <2>2. Bad(toHost')
    BY <1>2, <1>9, <2>1, ErrWords
  <2>3. Answered'
    BY <1>2, <1>9, <2>2 DEF Answered
  <2> QED
    BY <1>2, <1>3, <1>l, <1>m, <1>9, <2>3, Replies
<1>10. CASE /\ Call.count = 0 /\ tpc' = tpc /\ done' = done \cup {Last}
            /\ toHost' = toHost \o Ok(<<"Accepted">>)
  <2>1. "Accepted" \in Chars /\ Printable("Accepted")
    BY DEF Chars, Printable
  <2>2. Good(toHost')
    BY <1>2, <1>10, <2>1, Words
  <2>3. Region(Call)' = Call.data
    <3>1. Region(Call)' = Region(Call)
      BY <1>2, <1>3 DEF Region
    <3>2. Region(Call) \in Seq(Chars) /\ Len(Region(Call)) = 0
      BY <1>2, <1>10, RegionFacts
    <3>3. Call.data \in Seq(Bytes) /\ Len(Call.data) = 0
      BY <1>l, <1>3, <1>10, CallFacts
    <3>4. Region(Call) = <<>> /\ Call.data = <<>>
      BY <3>2, <3>3, EmptySeq
    <3> QED
      BY <3>1, <3>4
  <2>4. Effect'
    BY <1>2, <1>3, <2>3 DEF Effect, Modes
  <2>5. Answered'
    BY <1>2, <1>3, <1>10, <2>2, <2>4 DEF Answered
  <2> QED
    BY <1>2, <1>3, <1>l, <1>m, <1>10, <2>5, Replies
<1>11. CASE /\ tpc' = "payload" /\ cur' = Last /\ left' = Call.count /\ bx' = Call.addr
            /\ UNCHANGED <<toHost, done>>
  <2>1. Taking'
    BY <1>2, <1>3, <1>l, <1>11 DEF Taking
  <2>2. OnTheWay'
    BY <1>2, <1>11, <2>1 DEF OnTheWay
  <2> QED
    BY <1>2, <1>3, <1>m, <2>2 DEF Phase
<1> QED
  BY <1>8, <1>9, <1>10, <1>11

(* The last byte of the data: the region is what the call wrote.           *)
LEMMA BytePhase ==
    ASSUME SerialInv, Phase, writeb_byte
    PROVE  Phase'
<1>u. /\ UNCHANGED <<hpc, issued, result, in_buf, cur, mode>>
      /\ tpc = "payload" /\ toTarget # <<>> /\ toTarget' = Tail(toTarget)
      /\ mem' = [mem EXCEPT ![bx] = Head(toTarget).byte]
      /\ bx' = bx + 1 /\ left' = left - 1
      /\ \/ /\ left = 1 /\ tpc' = "line" /\ done' = done \cup {cur}
            /\ toHost' = toHost \o Ok(<<"Accepted">>)
         \/ left > 1 /\ UNCHANGED <<tpc, done, toHost>>
  BY DEF writeb_byte, hostVars, Answer
<1>1. /\ hpc \in {"response", "select"} /\ issued # <<>> /\ OnTheWay
      /\ hpc = "select" <=> Call.cmd = "READB"
  BY <1>u, NotAnswered
<1>2. /\ cur = Last /\ Len(toTarget) = left /\ bx + left = Call.addr + Call.count
      /\ toHost = <<>> /\ Last \notin done /\ in_buf = <<>>
  BY <1>1, <1>u DEF OnTheWay, Asked, Heard, Taking, Running, SerialInv, Work
<1> DEFINE c == Call
           n == bx - c.addr
<1>l. /\ c = issued[Last] /\ c \in Calls /\ c.addr \in Nat /\ c.count \in Nat
      /\ c.addr + c.count <= Cells /\ Cells \in Nat
  BY <1>1, LastFacts
<1>w. /\ c.cmd = "WRITEB" /\ left \in Nat \ {0} /\ bx \in Nat /\ bx >= c.addr
      /\ bx + left = c.addr + c.count
  BY <1>2, <1>l, <1>u, SerialConstants DEF SerialInv, TypeOK, Work
<1>d. /\ c.data \in Seq(Bytes) /\ Len(c.data) = c.count
      /\ \A i \in 1..c.count : c.data[i] \in Bytes
  BY <1>l, <1>w, CallFacts
<1>o. /\ \A i \in 1..n : mem[c.addr + i - 1] = c.data[i]
      /\ \A i \in 1..left : toTarget[i] = Symbol(c.data[n + i], cur)
  BY <1>2, <1>l, <1>u DEF SerialInv, DataIsOwn
<1>m. DOMAIN mem = 0..Cells - 1
  BY DEF SerialInv, TypeOK
<1>v. Last' = Last /\ Call' = c
  BY <1>u DEF Last, Call
<1>t. toTarget \in Seq(Symbols)
  BY DEF SerialInv, Streams
<1> HIDE DEF c
<1>n. n \in Nat /\ bx = c.addr + n /\ n + left = c.count /\ bx \in 0..Cells - 1
  BY <1>l, <1>w
<1> HIDE DEF n
<1>h. Head(toTarget).byte = c.data[n + 1] /\ c.data[n + 1] \in Bytes
  <2>1. Head(toTarget) = toTarget[1]
    BY <1>t, <1>u, TailFacts
  <2>2. 1 \in 1..left /\ n + 1 \in 1..c.count
    BY <1>n, <1>w, <1>l
  <2>3. toTarget[1] = Symbol(c.data[n + 1], cur)
    BY <1>o, <2>2
  <2> QED
    BY <1>d, <2>1, <2>2, <2>3 DEF Symbol
<1>3. \A a \in 0..Cells - 1 : mem'[a] \in Chars
  <2>1. \A a \in 0..Cells - 1 : mem[a] \in Chars
    BY DEF Phase
  <2>2. \A b \in Bytes : b \in Chars
    BY DEF Bytes, Chars
  <2> QED
    BY <1>u, <1>h, <1>m, <2>1, <2>2
<1>4. hpc' = "response" /\ c.cmd # "READB"
  BY <1>1, <1>w, <1>u DEF c
<1>5. toTarget' \in Seq(Symbols) /\ Len(toTarget') = left - 1
  BY <1>t, <1>u, <1>2, TailFacts
<1>6. CASE left > 1
  <2>1. /\ tpc' = "payload" /\ done' = done /\ toHost' = <<>> /\ cur' = Last
        /\ bx' = bx + 1 /\ left' = left - 1
    BY <1>6, <1>u, <1>2
  <2>2. bx' + left' = c.addr + c.count
    BY <2>1, <1>w, <1>l
  <2>3. Taking'
    BY <1>5, <1>v, <2>1, <2>2 DEF Taking
  <2>4. OnTheWay'
    BY <1>2, <1>v, <2>1, <2>3 DEF OnTheWay
  <2> QED
    BY <1>1, <1>u, <1>v, <1>3, <1>4, <2>4 DEF Phase
<1>7. CASE left = 1
  <2>1. /\ tpc' = "line" /\ done' = done \cup {Last} /\ in_buf' = <<>>
        /\ toHost' = <<>> \o Ok(<<"Accepted">>)
    BY <1>7, <1>u, <1>2
  <2>2. toTarget' = <<>>
    BY <1>5, <1>7, EmptySeq
  <2>3. Good(toHost')
    <3>1. "Accepted" \in Chars /\ Printable("Accepted")
      BY DEF Chars, Printable
    <3> QED
      BY <2>1, <3>1, Words
  <2>4. Region(Call)' = c.data
    <3> DEFINE g == Region(Call)'
    <3>1. g = [i \in 1..c.count |-> mem'[c.addr + i - 1]]
      BY <1>v DEF Region
    <3>2. ASSUME NEW i \in 1..c.count PROVE mem'[c.addr + i - 1] = c.data[i]
      <4>0. n + 1 = c.count
        BY <1>n, <1>7
      <4>1. CASE i = n + 1
        <5>1. c.addr + i - 1 = bx
          BY <4>1, <1>n, <1>l
        <5> QED
          BY <4>1, <5>1, <1>u, <1>h, <1>m, <1>n
      <4>2. CASE i # n + 1
        <5>1. i \in 1..n /\ c.addr + i - 1 # bx /\ c.addr + i - 1 \in 0..Cells - 1
          BY <4>0, <4>2, <1>n, <1>l
        <5> QED
          BY <5>1, <1>u, <1>o, <1>m
      <4> QED
        BY <4>1, <4>2
    <3> HIDE DEF g
    <3>3. \A i \in 1..c.count : g[i] = c.data[i]
      BY <3>1, <3>2
    <3>4. c.count \in Nat /\ \A i \in 1..c.count : c.data[i] \in Bytes
      BY <1>d, <1>l
    <3>5. g \in [1..c.count -> Bytes]
      BY <3>1, <3>2, <3>4
    <3>6. g \in Seq(Bytes) /\ Len(g) = c.count
      BY <3>4, <3>5
    <3>7. g = c.data
      BY <1>d, <3>3, <3>6, SeqEqual
    <3> QED
      BY <3>7 DEF g
  <2>5. Effect'
    BY <1>v, <1>w, <2>4 DEF Effect, Modes
  <2>6. Answered'
    BY <1>v, <1>w, <2>1, <2>3, <2>5 DEF Answered
  <2>7. issued' # <<>>
    BY <1>1, <1>u
  <2> QED
    BY <1>v, <1>3, <1>4, <2>1, <2>2, <2>6, <2>7, Replies
<1> QED
  BY <1>w, <1>6, <1>7

LEMMA NextPhase ==
    ASSUME Timely, SerialInv, Phase, [Next]_vars
    PROVE  Phase'
<1>1. CASE HostCalls
  BY <1>1, CallsPhase
<1>2. CASE HostWaits
  BY <1>2, WaitsPhase
<1>3. CASE remote_rs232_configure
  BY <1>3 DEF remote_rs232_configure, Timely
<1>4. CASE Target
  BY <1>4, CharPhase, TestPhase, SwitchPhase, ExecPhase, ReadPhase, WritePhase,
     UnknownPhase, BytePhase DEF Target, Commands
<1>5. CASE exec_returns
  BY <1>5, ReturnsPhase
<1>6. CASE UNCHANGED vars
  <2>1. UNCHANGED <<hpc, issued, result, toTarget, toHost, tpc, in_buf, cur, left, bx, mode,
                    mem, done>>
    BY <1>6 DEF vars, hostVars, targetVars
  <2>2. Last' = Last /\ Call' = Call
    BY <2>1 DEF Last, Call
  <2>3. Region(Call)' = Region(Call)
    BY <2>1, <2>2 DEF Region
  <2>4. (Effect' <=> Effect) /\ (Listening' <=> Listening) /\ (Quiet' <=> Quiet)
    BY <2>1, <2>2, <2>3 DEF Effect, Listening, Quiet
  <2>5. OnTheWay' <=> OnTheWay
    BY <2>1, <2>2 DEF OnTheWay, Asked, Heard, Taking, Running
  <2>6. (Answered' <=> Answered) /\ (Returned' <=> Returned)
    BY <2>1, <2>2, <2>3, <2>4 DEF Answered, Returned
  <2>7. /\ DataLine(toHost, 0)' <=> DataLine(toHost, 0)
        /\ DataLine(toHost, 3)' <=> DataLine(toHost, 3)
    BY <2>1, <2>2 DEF DataLine
  <2>8. ReadAnswered' <=> ReadAnswered
    BY <2>1, <2>2, <2>7 DEF ReadAnswered
  <2> QED
    BY <2>1, <2>2, <2>4, <2>5, <2>6, <2>7, <2>8 DEF Phase
<1> QED
  BY <1>1, <1>2, <1>3, <1>4, <1>5, <1>6 DEF Next

LEMMA PhaseAlways == Timely => (Spec => []Phase)
<1> SUFFICES ASSUME Timely PROVE Spec => []Phase
  OBVIOUS
<1>1. Init => Phase
  BY InitPhase
<1>2. SerialInv /\ Phase /\ [Next]_vars => Phase'
  BY NextPhase
<1> QED
  BY <1>1, <1>2, Invariance, PTL DEF Spec

-----------------------------------------------------------------------------
(* After every call nothing is on the way in either direction and the      *)
(* target waits for a new line, in whatever mode, whatever the data holds  *)
(* and whether or not the call was refused.                                *)
THEOREM StaysInStep == Timely => (Spec => []InStep)
<1>1. Phase => InStep
  BY DEF Phase, InStep
<1> QED
  BY <1>1, PhaseAlways, PTL

(* A call that returns 1 has had its effect; a switch to x64 needs a build *)
(* that has that mode.                                                     *)
THEOREM OkIsTrue == Timely /\ X64Build = "x64" => (Spec => []OkMeansDone)
<1> SUFFICES ASSUME Timely, X64Build = "x64" PROVE Spec => []OkMeansDone
  OBVIOUS
<1>1. Phase => OkMeansDone
  <2>1. \A m : _jmp(m) = m
    BY DEF _jmp
  <2> QED
    BY <2>1 DEF Phase, Returned, Effect, Last, OkMeansDone
<1> QED
  BY <1>1, PhaseAlways, PTL

(* A call that returns 0 or -1 was not carried out.                        *)
THEOREM FailIsTrue == Timely => (Spec => []FailMeansNotDone)
<1>1. Phase => FailMeansNotDone
  BY DEF Phase, Returned, Last, FailMeansNotDone
<1> QED
  BY <1>1, PhaseAlways, PTL

-----------------------------------------------------------------------------
(* One EXEC that the host did not wait for, and the TEST behind it.  This  *)
(* part assumes nothing of time: programs may outlast the host, and the    *)
(* host may be restarted at any moment.                                    *)

TestReplies == {Ok(TestText), Err(<<"Unknown">>)}

(* TEST is on its way, behind whatever is left in the line buffer.         *)
Awaited ==
    /\ tpc = "line"
    /\ \/ toTarget = Wire(Call, Last)
       \/ toTarget = Tail(Wire(Call, Last)) /\ in_buf # <<>>

(* What comes behind the answer to EXEC is x.                              *)
Follows(x) == (x = <<>> /\ Awaited) \/ (x \in TestReplies /\ Listening)

(* Where the answer to EXEC is, and that the one to TEST comes behind it.  *)
Repair ==
    /\ hpc \in {"select", "data", "rest"} => Call.cmd = "READB"
    /\ oneLate => issued # <<>>
    /\ oneLate /\ Call.cmd = "TEST" =>
          /\ hpc = "response" =>
                \/ tpc = "exec" /\ toHost = <<>> /\ toTarget = Wire(Call, Last)
                \/ \E x \in {<<>>} \cup TestReplies :
                      toHost = Ok(ExecText) \o x /\ Follows(x)
          /\ hpc = "second" => Follows(toHost)
          /\ hpc = "idle" /\ result.code = "ok" => Quiet

LEMMA ReplyFacts ==
    /\ \A x \in {<<>>} \cup TestReplies : x \in Seq(Chars)
    /\ \A x \in TestReplies : IsLine(x)
    /\ IsLine(Ok(ExecText)) /\ Len(Ok(ExecText)) >= 5
    /\ LET e == Ok(ExecText)
       IN  e[1] = "O" /\ e[2] = "K" /\ e[3] = "SP" /\ e[4] = "Function"
<1>1. "Test" \in Chars /\ Printable("Test") /\ "Unknown" \in Chars /\ Printable("Unknown")
  BY DEF Chars, Printable
<1>2. IsLine(Ok(TestText))
  BY <1>1, Words DEF TestText, Good
<1>3. IsLine(Err(<<"Unknown">>))
  BY <1>1, ErrWords DEF Bad
<1>4. \A x \in TestReplies : IsLine(x)
  BY <1>2, <1>3 DEF TestReplies
<1>5. \A x \in {<<>>} \cup TestReplies : x \in Seq(Chars)
  <2>1. <<>> \in Seq(Chars)
    OBVIOUS
  <2> QED
    BY <1>4, <2>1 DEF IsLine
<1>6. Good(Ok(ExecText)) /\ Ok(ExecText)[4] = "Function"
  <2> DEFINE t == ExecText
  <2>1. t \in Seq(Chars) /\ Len(t) = 2 /\ Len(t) > 0 /\ t[1] = "Function" /\ t[2] = "complete"
    BY DEF ExecText, Chars
  <2> HIDE DEF t
  <2>2. \A i \in 1..Len(t) : Printable(t[i])
    <3>1. \A i \in 1..Len(t) : i = 1 \/ i = 2
      BY <2>1
    <3> QED
      BY <2>1, <3>1 DEF Printable
  <2>3. Good(Ok(t)) /\ Ok(t)[4] = t[1]
    BY <2>1, <2>2, GoodAnswer
  <2> QED
    BY <2>1, <2>3 DEF t
<1> QED
  BY <1>4, <1>5, <1>6 DEF Good

(* The host reads a line and leaves what is behind it.                     *)
LEMMA LineAndMore ==
    ASSUME NEW s, IsLine(s), NEW x \in Seq(Chars), toHost = s \o x
    PROVE  /\ HasLine /\ EndOfFirst = Len(s) /\ BehindLine = x
           /\ \A i \in 1..Len(s) : toHost[i] = s[i]
<1>1. s \in Seq(Chars) /\ Len(s) \in Nat \ {0} /\ Len(x) \in Nat
  BY DEF IsLine
<1>2. /\ toHost \in Seq(Chars) /\ Len(toHost) = Len(s) + Len(x)
      /\ \A i \in 1..Len(s) : toHost[i] = s[i]
      /\ \A i \in 1..Len(x) : toHost[Len(s) + i] = x[i]
  BY <1>1, TextConcat
<1>3. Len(s) \in 1..Len(toHost) /\ toHost[Len(s)] = "LF"
  <2>1. Len(s) \in 1..Len(s)
    BY <1>1
  <2> QED
    BY <1>1, <1>2, <2>1 DEF IsLine
<1>4. \A j \in 1..Len(s) - 1 : toHost[j] # "LF"
  <2>1. \A j \in 1..Len(s) - 1 : j \in 1..Len(s)
    BY <1>1
  <2> QED
    BY <1>2, <2>1 DEF IsLine
<1>5. EndOfFirst = Len(s)
  <2> DEFINE Q(i) == toHost[i] = "LF" /\ \A j \in 1..i - 1 : toHost[j] # "LF"
  <2>1. Q(Len(s))
    BY <1>3, <1>4
  <2>2. ASSUME NEW i \in 1..Len(toHost), Q(i) PROVE i = Len(s)
    <3>1. i < Len(s) => i \in 1..Len(s) - 1
      BY <1>1, <1>2
    <3>2. i > Len(s) => Len(s) \in 1..i - 1
      BY <1>1, <1>2
    <3>3. i < Len(s) \/ i > Len(s) \/ i = Len(s)
      BY <1>1, <1>2
    <3> QED
      BY <2>2, <3>1, <3>2, <3>3, <1>3, <1>4
  <2>3. EndOfFirst = CHOOSE i \in 1..Len(toHost) : Q(i)
    BY DEF EndOfFirst
  <2> HIDE DEF Q
  <2> QED
    BY <1>3, <2>1, <2>2, <2>3
<1>6. BehindLine = x
  <2> DEFINE b == SubSeq(toHost, Len(s) + 1, Len(toHost))
  <2>1. /\ b \in Seq(Chars) /\ Len(b) = Len(x)
        /\ \A i \in 1..Len(x) : b[i] = toHost[Len(s) + i]
    <3>1. Len(s) + 1 \in 1..Len(toHost) + 1 /\ Len(toHost) \in Nat
      BY <1>1, <1>2
    <3>2. /\ b \in Seq(Chars)
          /\ Len(b) = IF Len(s) + 1 <= Len(toHost) THEN Len(toHost) - (Len(s) + 1) + 1 ELSE 0
          /\ \A i \in 1..Len(toHost) - (Len(s) + 1) + 1 : b[i] = toHost[(Len(s) + 1) + i - 1]
      BY <1>1, <1>2, <3>1, SubSeqProperties
    <3>3. Len(toHost) - (Len(s) + 1) + 1 = Len(x)
      BY <1>1, <1>2
    <3>4. Len(b) = Len(x)
      BY <1>1, <1>2, <3>2, <3>3
    <3>5. \A i \in 1..Len(x) : (Len(s) + 1) + i - 1 = Len(s) + i
      BY <1>1
    <3> QED
      BY <3>2, <3>3, <3>4, <3>5
  <2>2. \A i \in 1..Len(b) : b[i] = x[i]
    BY <1>2, <2>1
  <2>3. b = x
    BY <1>1, <2>1, <2>2, SeqEqual
  <2> QED
    BY <1>5, <2>3 DEF BehindLine
<1> QED
  BY <1>2, <1>3, <1>5, <1>6 DEF HasLine

LEMMA ExecLine ==
    ASSUME NEW x \in Seq(Chars), toHost = Ok(ExecText) \o x
    PROVE  HasLine /\ BehindLine = x /\ Begins(<<"O", "K", "SP", "Function">>)
<1> DEFINE e == Ok(ExecText)
           p == <<"O", "K", "SP", "Function">>
<1>1. /\ IsLine(e) /\ Len(e) >= 5 /\ Len(e) \in Nat
      /\ e[1] = "O" /\ e[2] = "K" /\ e[3] = "SP" /\ e[4] = "Function"
  BY ReplyFacts DEF IsLine
<1>p. Len(p) = 4 /\ p[1] = "O" /\ p[2] = "K" /\ p[3] = "SP" /\ p[4] = "Function"
  OBVIOUS
<1>0. toHost = e \o x
  OBVIOUS
<1> HIDE DEF e, p
<1>2. /\ HasLine /\ EndOfFirst = Len(e) /\ BehindLine = x
      /\ \A i \in 1..Len(e) : toHost[i] = e[i]
  BY <1>0, <1>1, LineAndMore
<1>3. \A n \in 1..4 : toHost[n] = p[n] /\ Printable(toHost[n])
  <2>1. \A n \in 1..4 : n \in 1..Len(e) /\ (n = 1 \/ n = 2 \/ n = 3 \/ n = 4)
    BY <1>1
  <2>2. \A n \in 1..4 : e[n] = p[n] /\ Printable(p[n])
    BY <1>1, <1>p, <2>1 DEF Printable
  <2> QED
    BY <1>2, <2>1, <2>2
<1>4. Kept = {j \in 1..Len(e) : Printable(toHost[j])}
  BY <1>2 DEF Kept
<1>5. ASSUME NEW n \in 1..4
      PROVE  n \in Kept /\ Cardinality({j \in Kept : j <= n}) = n
  <2>1. n \in Nat /\ 1 <= n /\ n <= 4
    OBVIOUS
  <2>2. \A j \in 1..n : j \in 1..Len(e) /\ j \in 1..4
    BY <1>1, <2>1
  <2>3. \A j \in 1..n : j \in Kept /\ j <= n
    <3> TAKE j \in 1..n
    <3>1. Printable(toHost[j])
      BY <1>3, <2>2
    <3>2. j \in Kept
      BY <1>4, <2>2, <3>1
    <3> QED
      BY <2>1, <3>2
  <2>4. \A j \in Kept : j <= n => j \in 1..n
    BY <1>1, <1>4, <2>1
  <2>5. {j \in Kept : j <= n} = 1..n
    BY <2>3, <2>4
  <2>6. Cardinality(1..n) = n
    BY <2>1, FS_Interval
  <2>7. n \in Kept
    BY <2>1, <2>3
  <2> QED
    BY <2>5, <2>6, <2>7
<1>6. Begins(p)
  BY <1>p, <1>3, <1>5 DEF Begins
<1> QED
  BY <1>2, <1>6 DEF p

(* The target goes on with TEST, whatever is left in its line buffer: the  *)
(* line is TEST or it is no command.                                       *)
LEMMA AwaitedStep ==
    ASSUME SerialInv, issued # <<>>, Call.cmd = "TEST", Awaited, Target
    PROVE  \/ UNCHANGED toHost /\ Awaited'
           \/ \E r \in TestReplies : toHost' = toHost \o r /\ Listening'
<1> DEFINE w == Wire(Call, Last)
<1>w. /\ w \in Seq(Symbols) /\ w # <<>> /\ w[1] = Symbol("cmd", Last)
      /\ Tail(w) \in Seq(Symbols) /\ Tail(w) # <<>> /\ Tail(w)[1] = Symbol("LF", Last)
      /\ Tail(Tail(w)) \in Seq(Symbols) /\ Len(Tail(Tail(w))) = Size(Call)
  BY CallOnWire
<1>l. Last \in 1..Len(issued) /\ Call = issued[Last] /\ Size(Call) = 0
  BY LastFacts
<1>z. Tail(Tail(w)) = <<>>
  BY <1>w, <1>l, EmptySeq
<1>t. tpc = "line" /\ (toTarget = w \/ (toTarget = Tail(w) /\ in_buf # <<>>))
  BY DEF Awaited
<1> HIDE DEF w
<1>h. toTarget \in Seq(Symbols) /\ toTarget # <<>> /\ Head(toTarget) = toTarget[1]
  BY <1>t, <1>w, TailFacts
<1>u. UNCHANGED <<hpc, issued, result, oneLate>>
  BY DEF Target, Commands, read_char, read_escaped, empty_line, AtLineEnd, unknown_command,
         writeb_byte, command_test, command_switch, command_exec, command_readb,
         command_writeb, hostVars
<1>c. Last' = Last /\ Call' = Call
  BY <1>u DEF Last, Call
<1>1. CASE toTarget = w
  <2>1. Head(toTarget).byte = "cmd"
    BY <1>1, <1>h, <1>w DEF Symbol
  <2>2. read_char
    BY <1>t, <2>1 DEF Target, Commands, read_escaped, empty_line, AtLineEnd, unknown_command,
         writeb_byte, command_test, command_switch, command_exec, command_readb,
         command_writeb
  <2>3. toTarget' = Tail(w) /\ tpc' = "line" /\ UNCHANGED toHost
    BY <1>1, <1>t, <2>2 DEF read_char
  <2>4. in_buf' # <<>>
    <3>1. in_buf \in Seq(Symbols) /\ InBufSize \in Nat \ {0, 1} /\ Head(toTarget) \in Symbols
      BY <1>h, SerialConstants, ElementOfSeq, EmptySeq DEF SerialInv, Streams
    <3>2. CASE Len(in_buf) >= InBufSize - 1
      BY <2>2, <3>1, <3>2 DEF read_char, Stored
    <3>3. CASE ~(Len(in_buf) >= InBufSize - 1)
      BY <2>2, <3>1, <3>3 DEF read_char, Stored
    <3> QED
      BY <3>2, <3>3
  <2>5. Awaited'
    BY <1>c, <2>3, <2>4 DEF Awaited, w
  <2> QED
    BY <2>3, <2>5
<1>2. CASE toTarget = Tail(w) /\ in_buf # <<>>
  <2>1. Head(toTarget).byte = "LF" /\ toTarget[1].call = Last
    BY <1>2, <1>h, <1>w DEF Symbol
  <2>2. AtLineEnd /\ (Commands \/ unknown_command)
    BY <1>t, <1>2, <2>1 DEF Target, Commands, read_char, read_escaped, empty_line,
         unknown_command, writeb_byte, command_test, command_switch, command_exec,
         command_readb, command_writeb
  <2>3. toTarget' = <<>> /\ in_buf' = <<>>
    BY <1>2, <1>z, <2>2 DEF AtLineEnd
  <2>4. ASSUME NEW k \in 1..Len(issued), Is(k) PROVE k = Last
    <3>1. Len(in_buf) = 1 /\ in_buf[1] = Symbol("cmd", k)
      BY <2>4 DEF Is
    <3>2. in_buf[1].byte = "cmd" /\ in_buf[1].call = k /\ 1 \in 1..Len(in_buf)
      BY <3>1 DEF Symbol
    <3>3. Line(toTarget, 1, issued[k], k)
      BY <3>2 DEF SerialInv, Ahead
    <3>4. toTarget[1] = Symbol("LF", k)
      BY <3>3 DEF Line
    <3> QED
      BY <2>1, <3>4 DEF Symbol
  <2>5. ASSUME NEW k \in 1..Len(issued), command_test(k)
        PROVE  toHost' = toHost \o Ok(TestText) /\ tpc' = "line"
    BY <1>t, <2>5 DEF command_test, Answer
  <2>6. ASSUME unknown_command
        PROVE  toHost' = toHost \o Err(<<"Unknown">>) /\ tpc' = "line"
    BY <1>t, <2>6 DEF unknown_command, Answer
  <2>7. ASSUME NEW k \in 1..Len(issued),
               command_switch(k) \/ command_exec(k) \/ command_readb(k) \/ command_writeb(k)
        PROVE  FALSE
    <3>1. k = Last
      BY <2>4, <2>7 DEF command_switch, command_exec, command_readb, command_writeb
    <3>2. issued[k].cmd = "TEST"
      BY <1>l, <3>1
    <3>3. Stage2.switches \subseteq Modes
      BY Stage2Facts DEF SerialInv, TypeOK
    <3> QED
      BY <2>7, <3>2, <3>3 DEF command_switch, command_exec, command_readb, command_writeb, Modes
  <2>8. \E r \in TestReplies : toHost' = toHost \o r /\ tpc' = "line"
    BY <2>2, <2>5, <2>6, <2>7 DEF Commands, TestReplies
  <2> QED
    BY <2>3, <2>8 DEF Listening
<1> QED
  BY <1>t, <1>1, <1>2

LEMMA InitRepair == Init => Repair
BY DEF Init, Repair

LEMMA SendRepair ==
    ASSUME SerialInv, NEW c \in Calls, NEW where, Send(c, where),
           where = IF c.cmd = "READB" THEN "select" ELSE "response"
    PROVE  Repair'
<1>1. /\ issued \in Seq(Calls) /\ Len(issued) \in Nat /\ issued' = Append(issued, c)
      /\ Len(issued') = Len(issued) + 1 /\ issued'[Len(issued) + 1] = c /\ issued' # <<>>
  BY DEF SerialInv, TypeOK, Send
<1>2. Last' = Len(issued) + 1 /\ Call' = c
  BY <1>1 DEF Last, Call
<1>3. UNCHANGED <<toHost, tpc, in_buf>> /\ hpc' = where
  BY DEF Send, targetVars
<1>4. CASE ~oneLate'
  BY <1>1, <1>2, <1>3, <1>4 DEF Repair
<1>5. CASE oneLate'
  <2>1. /\ toTarget = <<>>
        /\ \/ tpc = "exec" /\ toHost = <<>>
           \/ tpc = "line" /\ toHost = Ok(ExecText)
    BY <1>5 DEF Send
  <2>2. toTarget' = Wire(c, Len(issued) + 1)
    <3>1. Wire(c, Len(issued) + 1) \in Seq(Symbols)
      BY <1>1, WireFacts
    <3> QED
      BY <2>1, <3>1, ConcatEmptySeq DEF Send
  <2>3. toTarget' = Wire(Call', Last')
    BY <1>2, <2>2
  <2>4. CASE tpc = "exec" /\ toHost = <<>>
    BY <1>1, <1>2, <1>3, <2>3, <2>4 DEF Repair
  <2>5. CASE tpc = "line" /\ toHost = Ok(ExecText)
    <3>1. Awaited'
      BY <1>3, <2>3, <2>5 DEF Awaited
    <3>2. Follows(<<>>)'
      BY <3>1 DEF Follows
    <3>3. toHost' = Ok(ExecText) \o <<>>
      <4>1. Ok(ExecText) \in Seq(Chars)
        BY ReplyFacts DEF IsLine
      <4> QED
        BY <1>3, <2>5, <4>1, ConcatEmptySeq
    <3>4. \E x \in {<<>>} \cup TestReplies : toHost' = Ok(ExecText) \o x /\ Follows(x)'
      BY <3>2, <3>3
    <3> QED
      BY <1>1, <1>2, <1>3, <3>4 DEF Repair
  <2> QED
    BY <2>1, <2>4, <2>5
<1> QED
  BY <1>4, <1>5

LEMMA CallsRepair == SerialInv /\ HostCalls => Repair'
BY SendRepair DEF HostCalls, remote_rs232_test, remote_rs232_switch, remote_rs232_exec,
                  remote_rs232_write, remote_rs232_read, Modes

(* What follows does not depend on what the host has read.                 *)
LEMMA FollowsKeeps ==
    ASSUME UNCHANGED <<issued, toTarget, tpc, in_buf>>
    PROVE  Last' = Last /\ Call' = Call /\ \A x : Follows(x)' <=> Follows(x)
<1>1. Last' = Last /\ Call' = Call
  BY DEF Last, Call
<1>2. (Awaited' <=> Awaited) /\ (Listening' <=> Listening)
  BY <1>1 DEF Awaited, Listening
<1> QED
  BY <1>1, <1>2 DEF Follows

LEMMA WaitsRepair ==
    ASSUME SerialInv, Repair, HostWaits
    PROVE  Repair'
<1>u. UNCHANGED <<issued, oneLate, toTarget, tpc, in_buf>>
  BY DEF HostWaits, remote_rs232_get_response, get_last_response, response_timeout,
         select_timeout, read_head, read_data, Return, targetVars
<1>f. Last' = Last /\ Call' = Call /\ \A x : Follows(x)' <=> Follows(x)
  BY <1>u, FollowsKeeps
<1>h. hpc' \in {"idle", "second", "data", "rest"}
  BY DEF HostWaits, remote_rs232_get_response, get_last_response, response_timeout,
         select_timeout, read_head, read_data, Return
<1>1. hpc' \in {"data", "rest"} => Call.cmd = "READB"
  BY DEF HostWaits, remote_rs232_get_response, get_last_response, response_timeout,
         select_timeout, read_head, read_data, Return, Repair
<1>2. oneLate' => issued' # <<>>
  BY <1>u DEF Repair
<1>3. ASSUME oneLate, Call.cmd = "TEST"
      PROVE  /\ hpc' = "second" => Follows(toHost')
             /\ hpc' = "idle" /\ result'.code = "ok" => Quiet'
  <2>h. hpc \in {"response", "second"}
    BY <1>3 DEF Repair, HostWaits, remote_rs232_get_response, get_last_response,
                response_timeout, select_timeout, read_head, read_data
  <2>1. CASE response_timeout
    <3>1. result'.code = "fail" /\ hpc' = "idle"
      BY <2>1, <2>h DEF response_timeout, Return
    <3> QED
      BY <3>1
  <2>2. CASE remote_rs232_get_response
    <3>1. hpc = "response" /\ HasLine /\ toHost' = BehindLine
      BY <2>2 DEF remote_rs232_get_response
    <3>2. toHost # <<>>
      BY <3>1 DEF HasLine
    <3>3. PICK x \in {<<>>} \cup TestReplies : toHost = Ok(ExecText) \o x /\ Follows(x)
      BY <1>3, <3>1, <3>2 DEF Repair
    <3>4. x \in Seq(Chars)
      BY ReplyFacts
    <3>5. BehindLine = x /\ Begins(<<"O", "K", "SP", "Function">>)
      BY <3>3, <3>4, ExecLine
    <3>6. hpc' = "second"
      BY <1>3, <2>2, <3>5 DEF remote_rs232_get_response
    <3> QED
      BY <3>1, <3>3, <3>5, <3>6
  <2>3. CASE get_last_response
    <3>1. hpc = "second" /\ HasLine /\ toHost' = BehindLine /\ hpc' = "idle"
      BY <2>3, <2>h DEF get_last_response, Return
    <3>2. toHost # <<>>
      BY <3>1 DEF HasLine
    <3>3. toHost \in TestReplies /\ Listening
      BY <1>3, <3>1, <3>2 DEF Repair, Follows
    <3>4. BehindLine = <<>>
      BY <3>3, ReplyFacts, OneLine
    <3>5. Quiet'
      BY <1>u, <3>1, <3>3, <3>4 DEF Quiet, Listening
    <3> QED
      BY <3>1, <3>5
  <2> QED
    BY <2>h, <2>1, <2>2, <2>3 DEF HostWaits, select_timeout, read_head, read_data
<1>4. hpc' # "response" /\ hpc' # "select"
  BY <1>h
<1>5. hpc' = "second" => (Follows(toHost)' <=> Follows(toHost'))
  BY <1>u DEF Follows, Awaited, Listening, Last, Call
<1> QED
  BY <1>u, <1>f, <1>1, <1>2, <1>3, <1>4, <1>5 DEF Repair

LEMMA ConfigureRepair == Repair /\ remote_rs232_configure => Repair'
BY DEF Repair, remote_rs232_configure

LEMMA TargetRepair ==
    ASSUME SerialInv, Repair, Target
    PROVE  Repair'
<1>u. UNCHANGED <<hpc, issued, result, oneLate>>
  BY DEF Target, Commands, read_char, read_escaped, empty_line, AtLineEnd, unknown_command,
         writeb_byte, command_test, command_switch, command_exec, command_readb,
         command_writeb, hostVars
<1>c. Last' = Last /\ Call' = Call
  BY <1>u DEF Last, Call
<1>t. toTarget # <<>> /\ tpc # "exec"
  BY DEF Target, Commands, read_char, read_escaped, empty_line, AtLineEnd, unknown_command,
         writeb_byte, command_test, command_switch, command_exec, command_readb,
         command_writeb
<1>1. CASE ~(oneLate /\ Call.cmd = "TEST")
  BY <1>u, <1>c, <1>1 DEF Repair
<1>2. CASE oneLate /\ Call.cmd = "TEST"
  <2>1. issued # <<>> /\ ~Listening /\ ~Quiet
    BY <1>t, <1>2 DEF Repair, Listening, Quiet
  <2>2. hpc = "response" => Awaited /\ toHost = Ok(ExecText) \o <<>>
    BY <1>t, <1>2, <2>1 DEF Repair, Follows
  <2>3. hpc = "second" => Awaited /\ toHost = <<>>
    BY <1>2, <2>1 DEF Repair, Follows
  <2>4. Awaited => \/ UNCHANGED toHost /\ Awaited'
                   \/ \E r \in TestReplies : toHost' = toHost \o r /\ Listening'
    BY <1>2, <2>1, AwaitedStep
  <2>5. ASSUME hpc = "response"
        PROVE  \E x \in {<<>>} \cup TestReplies : toHost' = Ok(ExecText) \o x /\ Follows(x)'
    <3>e. Ok(ExecText) \in Seq(Chars) /\ Ok(ExecText) \o <<>> = Ok(ExecText)
      BY ReplyFacts, ConcatEmptySeq DEF IsLine
    <3>1. CASE UNCHANGED toHost /\ Awaited'
      BY <2>2, <2>5, <3>1 DEF Follows
    <3>2. CASE \E r \in TestReplies : toHost' = toHost \o r /\ Listening'
      BY <2>2, <2>5, <3>2, <3>e DEF Follows
    <3> QED
      BY <2>2, <2>4, <2>5, <3>1, <3>2
  <2>6. ASSUME hpc = "second" PROVE Follows(toHost)'
    <3>1. CASE UNCHANGED toHost /\ Awaited'
      BY <2>3, <2>6, <3>1 DEF Follows
    <3>2. CASE \E r \in TestReplies : toHost' = toHost \o r /\ Listening'
      <4>1. PICK r \in TestReplies : toHost' = toHost \o r /\ Listening'
        BY <3>2
      <4>2. r \in Seq(Chars)
        BY ReplyFacts
      <4>3. toHost' = r
        BY <2>3, <2>6, <4>1, <4>2, ConcatEmptySeq
      <4> QED
        BY <4>1, <4>3 DEF Follows
    <3> QED
      BY <2>3, <2>4, <2>6, <3>1, <3>2
  <2>7. ~(hpc = "idle" /\ result.code = "ok")
    BY <1>2, <2>1 DEF Repair
  <2> QED
    BY <1>u, <1>c, <2>1, <2>5, <2>6, <2>7 DEF Repair
<1> QED
  BY <1>1, <1>2

(* The program returns, and its answer is in front of that to TEST.        *)
LEMMA ReturnsRepair ==
    ASSUME SerialInv, Repair, exec_returns
    PROVE  Repair'
<1>u. /\ UNCHANGED <<hpc, issued, result, oneLate, toTarget, in_buf>>
      /\ tpc = "exec" /\ tpc' = "line" /\ toHost' = toHost \o Ok(ExecText)
  BY DEF exec_returns, hostVars, Answer
<1>c. Last' = Last /\ Call' = Call
  BY <1>u DEF Last, Call
<1>n. ~Listening /\ ~Quiet /\ ~Awaited
  BY <1>u DEF Listening, Quiet, Awaited
<1>1. ASSUME oneLate, Call.cmd = "TEST", hpc = "response"
      PROVE  \E x \in {<<>>} \cup TestReplies : toHost' = Ok(ExecText) \o x /\ Follows(x)'
  <2>1. toHost = <<>> /\ toTarget = Wire(Call, Last)
    BY <1>1, <1>n DEF Repair, Follows
  <2>2. Awaited'
    BY <1>u, <1>c, <2>1 DEF Awaited
  <2>3. /\ <<>> \o Ok(ExecText) = Ok(ExecText)
        /\ Ok(ExecText) \o <<>> = Ok(ExecText)
    BY ReplyFacts, ConcatEmptySeq DEF IsLine
  <2>4. toHost' = Ok(ExecText) \o <<>>
    BY <1>u, <2>1, <2>3
  <2> QED
    BY <2>2, <2>4 DEF Follows
<1>2. ~(oneLate /\ Call.cmd = "TEST" /\ hpc = "second")
  BY <1>n DEF Repair, Follows
<1>3. ~(oneLate /\ Call.cmd = "TEST" /\ hpc = "idle" /\ result.code = "ok")
  BY <1>n DEF Repair
<1> QED
  BY <1>u, <1>c, <1>1, <1>2, <1>3 DEF Repair

LEMMA NextRepair ==
    ASSUME SerialInv, Repair, [Next]_vars
    PROVE  Repair'
<1>1. CASE HostCalls
  BY <1>1, CallsRepair
<1>2. CASE HostWaits
  BY <1>2, WaitsRepair
<1>3. CASE remote_rs232_configure
  BY <1>3, ConfigureRepair
<1>4. CASE Target
  BY <1>4, TargetRepair
<1>5. CASE exec_returns
  BY <1>5, ReturnsRepair
<1>6. CASE UNCHANGED vars
  <2>1. UNCHANGED <<hpc, issued, result, oneLate, toTarget, toHost, tpc, in_buf>>
    BY <1>6 DEF vars, hostVars, targetVars
  <2>2. Last' = Last /\ Call' = Call /\ \A x : Follows(x)' <=> Follows(x)
    BY <2>1, FollowsKeeps
  <2>3. (Quiet' <=> Quiet) /\ (Follows(toHost)' <=> Follows(toHost))
    BY <2>1, <2>2 DEF Quiet, Follows, Awaited, Listening
  <2> QED
    BY <2>1, <2>2, <2>3 DEF Repair
<1> QED
  BY <1>1, <1>2, <1>3, <1>4, <1>5, <1>6 DEF Next

(* A TEST that returned 1 repairs the session after one EXEC the host did  *)
(* not wait for (the "Whoops!" of remote_rs232_test), though programs may  *)
(* outlast the host, the host may be restarted at any moment and the line  *)
(* buffer may hold the data of a refused write.                            *)
THEOREM TestRepairs == Spec => []TestRepairsOne
<1>1. Init => Repair
  BY InitRepair
<1>2. SerialInv /\ Repair /\ [Next]_vars => Repair'
  BY NextRepair
<1>3. Repair => TestRepairsOne
  BY DEF Repair, TestRepairsOne
<1> QED
  BY <1>1, <1>2, <1>3, Invariance, PTL DEF Spec
=============================================================================
