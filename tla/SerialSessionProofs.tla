------------------------ MODULE SerialSessionProofs ------------------------
(***************************************************************************)
(* Proofs about the serial session, for every set of calls, every layout   *)
(* of memory and any number of restarts of the host.                       *)
(*                                                                         *)
(* Nothing on the line says where a command ends and data begins, so the   *)
(* invariants say what follows what in the stream to the target: behind a  *)
(* command there are always its line end and the whole of its data, even   *)
(* if that stream is read from the wrong place.                            *)
(***************************************************************************)
EXTENDS SerialSession, SequenceTheorems, TLAPS

Symbols == [byte : Bytes \cup {"cmd"}, call : Nat]

(* How much data a call sends behind its line.                             *)
Size(c) == IF c.cmd = "WRITEB" THEN c.count ELSE 0

(* At position p of s are the line end and the data of call k.             *)
Line(s, p, c, k) ==
    /\ p + Size(c) <= Len(s)
    /\ s[p] = Symbol("LF", k)
    /\ \A j \in 1..Size(c) : s[p + j] = Symbol(c.data[j], k)

(* Every command in s is followed by its line end and its data.            *)
Whole(s, iss) ==
    \A i \in 1..Len(s) :
        s[i].byte = "cmd" => Line(s, i + 1, iss[s[i].call], s[i].call)

Numbered(s, n) == \A i \in 1..Len(s) : s[i].call \in 1..n

-----------------------------------------------------------------------------
(* Facts about sequences and numbers.                                      *)

LEMMA ModFacts ==
    ASSUME NEW n \in Nat, NEW w \in Nat \ {0}
    PROVE  n % w \in 0..n /\ (n < w => n % w = n)
<1>1. n % w \in 0..w - 1
  OBVIOUS
<1>2. n < w => n % w = n
  OBVIOUS
<1> QED
  BY <1>1, <1>2

LEMMA CallFacts ==
    ASSUME NEW c \in Calls
    PROVE  /\ c.cmd \in {"TEST", "EXEC", "READB", "WRITEB"} \cup Modes
           /\ c.addr \in Nat /\ c.count \in Nat /\ c.addr + c.count <= Cells
           /\ c.data \in Seq(Bytes)
           /\ c.cmd = "WRITEB" => c.count = Len(c.data)
           /\ Size(c) \in Nat
           /\ \A j \in 1..Size(c) : c.data[j] \in Bytes
BY SerialConstants DEF CallType, Size

LEMMA SymbolFacts ==
    ASSUME NEW b \in Bytes \cup {"cmd"}, NEW k \in Nat
    PROVE  Symbol(b, k) \in Symbols /\ Symbol(b, k).byte = b /\ Symbol(b, k).call = k
BY DEF Symbol, Symbols

LEMMA SymbolParts ==
    ASSUME NEW x \in Symbols
    PROVE  x = Symbol(x.byte, x.call)
BY DEF Symbol, Symbols

LEMMA TailFacts ==
    ASSUME NEW S, NEW s \in Seq(S), s # <<>>
    PROVE  /\ Tail(s) \in Seq(S) /\ Head(s) = s[1] /\ s[1] \in S
           /\ Len(s) \in Nat \ {0} /\ Len(Tail(s)) = Len(s) - 1
           /\ \A i \in 1..Len(s) - 1 : Tail(s)[i] = s[i + 1]
OBVIOUS

LEMMA ConcatFacts ==
    ASSUME NEW s \in Seq(Symbols), NEW t \in Seq(Symbols)
    PROVE  /\ s \o t \in Seq(Symbols) /\ Len(s \o t) = Len(s) + Len(t)
           /\ Len(s) \in Nat /\ Len(t) \in Nat
           /\ \A i \in 1..Len(s) : (s \o t)[i] = s[i]
           /\ \A i \in 1..Len(t) : (s \o t)[Len(s) + i] = t[i]
<1>1. /\ s \o t \in Seq(Symbols) /\ Len(s \o t) = Len(s) + Len(t)
      /\ \A i \in 1..Len(s) + Len(t) :
            (s \o t)[i] = IF i <= Len(s) THEN s[i] ELSE t[i - Len(s)]
      /\ Len(s) \in Nat /\ Len(t) \in Nat
  BY ConcatProperties
<1>2. ASSUME NEW i \in 1..Len(t) PROVE (s \o t)[Len(s) + i] = t[i]
  <2>1. Len(s) + i \in 1..Len(s) + Len(t) /\ ~(Len(s) + i <= Len(s)) /\ Len(s) + i - Len(s) = i
    BY <1>1
  <2> QED
    BY <1>1, <2>1
<1>3. ASSUME NEW i \in 1..Len(s) PROVE (s \o t)[i] = s[i]
  BY <1>1
<1> QED
  BY <1>1, <1>2, <1>3

LEMMA WireFacts ==
    ASSUME NEW c \in Calls, NEW k \in Nat
    PROVE  /\ Wire(c, k) \in Seq(Symbols)
           /\ Len(Wire(c, k)) = Size(c) + 2
           /\ Wire(c, k)[1] = Symbol("cmd", k)
           /\ Wire(c, k)[2] = Symbol("LF", k)
           /\ \A j \in 1..Size(c) : Wire(c, k)[2 + j] = Symbol(c.data[j], k)
<1>c. Size(c) \in Nat /\ \A j \in 1..Size(c) : c.data[j] \in Bytes
  BY CallFacts
<1> DEFINE h == <<Symbol("cmd", k), Symbol("LF", k)>>
           d == IF c.cmd = "WRITEB" THEN [i \in 1..c.count |-> Symbol(c.data[i], k)]
                ELSE <<>>
<1>1. h \in Seq(Symbols) /\ Len(h) = 2 /\ h[1] = Symbol("cmd", k) /\ h[2] = Symbol("LF", k)
  BY SymbolFacts DEF Bytes
<1>2. /\ d \in Seq(Symbols) /\ Len(d) = Size(c)
      /\ \A j \in 1..Size(c) : d[j] = Symbol(c.data[j], k)
  <2>1. CASE c.cmd = "WRITEB"
    <3>1. Size(c) = c.count /\ d = [i \in 1..c.count |-> Symbol(c.data[i], k)]
      BY <2>1 DEF Size
    <3>2. \A i \in 1..c.count : Symbol(c.data[i], k) \in Symbols
      BY <3>1, <1>c, SymbolFacts
    <3> QED
      BY <3>1, <3>2, <1>c
  <2>2. CASE c.cmd # "WRITEB"
    BY <2>2 DEF Size
  <2> QED
    BY <2>1, <2>2
<1>3. Wire(c, k) = h \o d
  BY DEF Wire
<1> HIDE DEF h, d
<1>4. /\ h \o d \in Seq(Symbols) /\ Len(h \o d) = 2 + Size(c)
      /\ \A i \in 1..2 : (h \o d)[i] = h[i]
      /\ \A i \in 1..Size(c) : (h \o d)[2 + i] = d[i]
  <2>1. /\ h \o d \in Seq(Symbols) /\ Len(h \o d) = Len(h) + Len(d)
        /\ \A i \in 1..Len(h) : (h \o d)[i] = h[i]
        /\ \A i \in 1..Len(d) : (h \o d)[Len(h) + i] = d[i]
    BY <1>1, <1>2, ConcatFacts
  <2> QED
    BY <1>1, <1>2, <2>1
<1> QED
  BY <1>1, <1>2, <1>3, <1>4, <1>c

-----------------------------------------------------------------------------
(* What follows a command.                                                 *)

LEMMA LineTail ==
    ASSUME NEW s \in Seq(Symbols), s # <<>>, NEW c \in Calls, NEW k,
           NEW p \in Nat, p > 1, Line(s, p, c, k)
    PROVE  Line(Tail(s), p - 1, c, k)
<1>1. /\ Len(Tail(s)) = Len(s) - 1 /\ Len(s) \in Nat
      /\ \A i \in 1..Len(s) - 1 : Tail(s)[i] = s[i + 1]
  BY TailFacts
<1>2. Size(c) \in Nat /\ p + Size(c) <= Len(s)
  BY CallFacts DEF Line
<1>3. Tail(s)[p - 1] = s[p]
  BY <1>1, <1>2
<1>4. \A j \in 1..Size(c) : Tail(s)[p - 1 + j] = s[p + j]
  BY <1>1, <1>2
<1> QED
  BY <1>1, <1>2, <1>3, <1>4 DEF Line

LEMMA LineConcat ==
    ASSUME NEW s \in Seq(Symbols), NEW t \in Seq(Symbols), NEW c \in Calls, NEW k,
           NEW p \in Nat, p > 0, Line(s, p, c, k)
    PROVE  Line(s \o t, p, c, k)
<1>1. /\ Len(s \o t) = Len(s) + Len(t) /\ Len(s) \in Nat /\ Len(t) \in Nat
      /\ \A i \in 1..Len(s) : (s \o t)[i] = s[i]
  BY ConcatFacts
<1>2. Size(c) \in Nat /\ p + Size(c) <= Len(s)
  BY CallFacts DEF Line
<1> QED
  BY <1>1, <1>2 DEF Line

LEMMA WholeTail ==
    ASSUME NEW iss \in Seq(Calls), NEW s \in Seq(Symbols), s # <<>>,
           Numbered(s, Len(iss)), Whole(s, iss)
    PROVE  Whole(Tail(s), iss) /\ Numbered(Tail(s), Len(iss))
<1>1. /\ Len(Tail(s)) = Len(s) - 1 /\ Len(s) \in Nat
      /\ \A i \in 1..Len(s) - 1 : Tail(s)[i] = s[i + 1]
  BY TailFacts
<1>2. Numbered(Tail(s), Len(iss))
  BY <1>1 DEF Numbered
<1>3. ASSUME NEW i \in 1..Len(Tail(s)), Tail(s)[i].byte = "cmd"
      PROVE  Line(Tail(s), i + 1, iss[Tail(s)[i].call], Tail(s)[i].call)
  <2>1. i + 1 \in 1..Len(s) /\ Tail(s)[i] = s[i + 1]
    BY <1>1
  <2>2. Line(s, i + 2, iss[s[i + 1].call], s[i + 1].call) /\ iss[s[i + 1].call] \in Calls
    BY <1>3, <2>1 DEF Whole, Numbered
  <2> QED
    BY <2>1, <2>2, LineTail
<1> QED
  BY <1>2, <1>3 DEF Whole

LEMMA WholeSend ==
    ASSUME NEW iss \in Seq(Calls), NEW s \in Seq(Symbols),
           Numbered(s, Len(iss)), Whole(s, iss), NEW c \in Calls
    PROVE  /\ Whole(s \o Wire(c, Len(iss) + 1), Append(iss, c))
           /\ Numbered(s \o Wire(c, Len(iss) + 1), Len(iss) + 1)
<1> DEFINE k == Len(iss) + 1
           w == Wire(c, k)
           t == s \o w
           jss == Append(iss, c)
<1>i. /\ Len(iss) \in Nat /\ k \in Nat /\ jss[k] = c
      /\ \A j \in 1..Len(iss) : jss[j] = iss[j] /\ iss[j] \in Calls
  OBVIOUS
<1>w. /\ w \in Seq(Symbols) /\ Len(w) = Size(c) + 2
      /\ w[1] = Symbol("cmd", k) /\ w[2] = Symbol("LF", k)
      /\ \A j \in 1..Size(c) : w[2 + j] = Symbol(c.data[j], k)
  BY <1>i, WireFacts
<1>c. Size(c) \in Nat /\ \A j \in 1..Size(c) : c.data[j] \in Bytes
  BY CallFacts
<1> HIDE DEF w, k, jss
<1>t. /\ t \in Seq(Symbols) /\ Len(t) = Len(s) + Len(w) /\ Len(s) \in Nat /\ Len(w) \in Nat
      /\ \A i \in 1..Len(s) : t[i] = s[i]
      /\ \A i \in 1..Len(w) : t[Len(s) + i] = w[i]
  BY <1>w, ConcatFacts
<1> HIDE DEF t
<1>n. /\ w[1].byte = "cmd" /\ w[1].call = k /\ w[2].byte = "LF" /\ w[2].call = k
      /\ \A j \in 1..Size(c) : w[2 + j].byte # "cmd" /\ w[2 + j].call = k
  <2>1. \A b, l : Symbol(b, l).byte = b /\ Symbol(b, l).call = l
    BY DEF Symbol
  <2>2. ASSUME NEW j \in 1..Size(c) PROVE w[2 + j].byte # "cmd" /\ w[2 + j].call = k
    <3>1. w[2 + j] = Symbol(c.data[j], k) /\ c.data[j] \in Bytes
      BY <1>w, <1>c
    <3> QED
      BY <2>1, <3>1 DEF Bytes
  <2> QED
    BY <1>w, <2>1, <2>2
<1>l. Len(s) \in Nat /\ Len(w) = Size(c) + 2 /\ Len(t) = Len(s) + Size(c) + 2
  BY <1>w, <1>t, <1>c
<1>s. \A i \in 1..Len(w) : w[i].call = k /\ (w[i].byte = "cmd" => i = 1)
  <2> SUFFICES ASSUME NEW i \in 1..Len(w)
               PROVE  w[i].call = k /\ (w[i].byte = "cmd" => i = 1)
    OBVIOUS
  <2>1. i = 1 \/ i = 2 \/ \E j \in 1..Size(c) : i = 2 + j
    <3>1. i > 2 => i - 2 \in 1..Size(c) /\ i = 2 + (i - 2)
      BY <1>w, <1>c
    <3> QED
      BY <3>1
  <2> QED
    BY <2>1, <1>n
<1>j. \A i \in 1..Len(t) : i \in 1..Len(s) \/ \E j \in 1..Len(w) : i = Len(s) + j
  <2>1. ASSUME NEW i \in 1..Len(t), i \notin 1..Len(s)
        PROVE  i - Len(s) \in 1..Len(w) /\ i = Len(s) + (i - Len(s))
    BY <2>1, <1>l, <1>c
  <2> QED
    BY <2>1
<1>1. Numbered(t, k)
  <2> SUFFICES ASSUME NEW i \in 1..Len(t) PROVE t[i].call \in 1..k
    BY DEF Numbered
  <2>k. k = Len(iss) + 1
    BY DEF k
  <2>1. CASE i \in 1..Len(s)
    <3>1. t[i] = s[i] /\ s[i].call \in 1..Len(iss)
      BY <2>1, <1>t DEF Numbered
    <3> QED
      BY <3>1, <2>k, <1>i
  <2>2. ASSUME NEW j \in 1..Len(w), i = Len(s) + j PROVE t[i].call = k
    BY <2>2, <1>t, <1>s
  <2>3. k \in 1..k
    BY <2>k, <1>i
  <2> QED
    BY <2>1, <2>2, <2>3, <1>j
<1>2. ASSUME NEW i \in 1..Len(t), t[i].byte = "cmd"
      PROVE  Line(t, i + 1, jss[t[i].call], t[i].call)
  <2>1. CASE i \in 1..Len(s)
    <3>1. t[i] = s[i] /\ s[i].call \in 1..Len(iss)
      BY <2>1, <1>t DEF Numbered
    <3>2. Line(s, i + 1, iss[s[i].call], s[i].call)
      BY <2>1, <3>1, <1>2 DEF Whole
    <3>3. Line(t, i + 1, iss[s[i].call], s[i].call)
      BY <3>1, <3>2, <1>w, <1>i, LineConcat DEF t
    <3> QED
      BY <3>1, <3>3, <1>i
  <2>2. ASSUME NEW j \in 1..Len(w), i = Len(s) + j
        PROVE  Line(t, i + 1, jss[t[i].call], t[i].call)
    <3>1. j = 1 /\ t[i] = w[1] /\ jss[t[i].call] = c /\ t[i].call = k
      BY <2>2, <1>2, <1>s, <1>t, <1>n, <1>i
    <3>2. i + 1 = Len(s) + 2 /\ t[i + 1] = w[2]
      BY <3>1, <2>2, <1>t, <1>w, <1>c
    <3>3. ASSUME NEW m \in 1..Size(c)
          PROVE  t[i + 1 + m] = w[2 + m]
      <4>0. Size(c) \in Nat /\ i = Len(s) + 1
        BY <1>c, <2>2, <3>1
      <4>1. i + 1 + m = Len(s) + (2 + m) /\ 2 + m \in 1..Len(w)
        BY <4>0, <1>l
      <4> QED
        BY <4>1, <1>t
    <3>4. i + 1 + Size(c) <= Len(t)
      BY <3>2, <1>w, <1>c, <1>t
    <3> QED
      BY <3>1, <3>2, <3>3, <3>4, <1>w DEF Line
  <2> QED
    BY <2>1, <2>2, <1>j
<1> QED
  BY <1>1, <1>2 DEF Whole, t, w, k, jss
-----------------------------------------------------------------------------
(* The invariant.                                                          *)

(* What is on the way to the target and in its line buffer was sent by the *)
(* calls made, and nothing of what a call sends is missing behind its      *)
(* command.                                                                *)
Streams ==
    /\ toTarget \in Seq(Symbols) /\ Numbered(toTarget, Len(issued))
    /\ in_buf \in Seq(Symbols) /\ Numbered(in_buf, Len(issued))
    /\ Whole(toTarget, issued)

(* A command in the line buffer, whatever else is there, is the last thing *)
(* that was read: its line end comes next.                                 *)
Ahead ==
    \A i \in 1..Len(in_buf) :
        in_buf[i].byte = "cmd" =>
            Line(toTarget, 1, issued[in_buf[i].call], in_buf[i].call)

(* What the target works on.                                               *)
Work ==
    /\ tpc # "line" => in_buf = <<>> /\ cur \in 1..Len(issued)
    /\ tpc = "payload" =>
          /\ issued[cur].cmd = "WRITEB"
          /\ left > 0
          /\ bx >= issued[cur].addr
          /\ bx + left <= issued[cur].addr + issued[cur].count

SerialInv == TypeOK /\ Streams /\ Ahead /\ Work /\ DataIsOwn

LEMMA InitInv == Init => SerialInv
<1> SUFFICES ASSUME Init PROVE SerialInv
  OBVIOUS
<1>1. TypeOK
  BY SerialConstants DEF Init, TypeOK, Modes
<1>2. Streams
  BY DEF Init, Streams, Numbered, Whole
<1>3. Ahead /\ Work /\ DataIsOwn
  BY DEF Init, Ahead, Work, DataIsOwn
<1> QED
  BY <1>1, <1>2, <1>3 DEF SerialInv

LEMMA Stage2Facts ==
    ASSUME mode \in Modes
    PROVE  /\ Stage2.wrap \in Nat \ {0} /\ Stage2.limit \in Nat
           /\ Stage2.switches \subseteq Modes
           /\ Stage2.wrap = Word \/ Stage2.wrap = Cells + 1
           /\ Stage2.limit >= Limit8086 \/ Stage2.limit = Cells
BY SerialConstants DEF Stage2, Modes, stage2_8086, stage2_286, stage2_386_16,
                       stage2_386_32, stage2_x64

(* The call of a symbol that is numbered is a call.                        *)
LEMMA IssuedFacts ==
    ASSUME TypeOK
    PROVE  /\ issued \in Seq(Calls) /\ Len(issued) \in Nat
           /\ \A k \in 1..Len(issued) : issued[k] \in Calls
BY DEF TypeOK

-----------------------------------------------------------------------------
(* The host.                                                               *)

HostPlaces == {"idle", "response", "second", "select", "data", "rest"}

LEMMA HostKeeps ==
    ASSUME SerialInv, UNCHANGED <<issued, oneLate, toTarget, targetVars>>,
           hpc' \in HostPlaces, result'.code \in {"none", "ok", "fail", "error"}
    PROVE  SerialInv'
<1>1. TypeOK'
  BY DEF SerialInv, TypeOK, HostPlaces, targetVars
<1>2. Streams' /\ Ahead' /\ Work'
  BY DEF SerialInv, Streams, Ahead, Work, targetVars
<1>3. DataIsOwn'
  BY DEF SerialInv, DataIsOwn, targetVars
<1> QED
  BY <1>1, <1>2, <1>3 DEF SerialInv

LEMMA WaitsInv == SerialInv /\ HostWaits => SerialInv'
<1> SUFFICES ASSUME SerialInv, HostWaits PROVE SerialInv'
  OBVIOUS
<1>r. ASSUME NEW code \in {"none", "ok", "fail", "error"}, NEW buf, Return(code, buf)
      PROVE  SerialInv'
  BY <1>r, HostKeeps DEF Return, HostPlaces
<1>t. hpc \in HostPlaces /\ result.code \in {"none", "ok", "fail", "error"}
  BY DEF SerialInv, TypeOK, HostPlaces
<1>1. CASE remote_rs232_get_response
  BY <1>1, <1>r, <1>t, HostKeeps DEF remote_rs232_get_response, HostPlaces
<1>2. CASE get_last_response
  BY <1>2, <1>r DEF get_last_response
<1>3. CASE response_timeout
  BY <1>3, <1>r DEF response_timeout
<1>4. CASE select_timeout
  BY <1>4, <1>r DEF select_timeout
<1>5. CASE read_head
  BY <1>5, <1>t, HostKeeps DEF read_head, HostPlaces
<1>6. CASE read_data
  <2>1. \E code \in {"ok", "error"} : \E buf : Return(code, buf)
    BY <1>6, Zenon DEF read_data
  <2> QED
    BY <2>1, <1>r
<1> QED
  BY <1>1, <1>2, <1>3, <1>4, <1>5, <1>6 DEF HostWaits

LEMMA ConfigureInv == SerialInv /\ remote_rs232_configure => SerialInv'
BY HostKeeps DEF remote_rs232_configure, HostPlaces

(* A longer history of calls, a longer stream.                             *)
LEMMA SendInv ==
    ASSUME SerialInv, NEW c \in Calls,
           NEW where \in {"response", "select"}, Send(c, where)
    PROVE  SerialInv'
<1> DEFINE n == Len(issued)
           w == Wire(c, n + 1)
<1>i. /\ issued \in Seq(Calls) /\ n \in Nat /\ issued' = Append(issued, c)
      /\ issued' \in Seq(Calls) /\ Len(issued') = n + 1
      /\ \A k \in 1..n : issued'[k] = issued[k] /\ issued[k] \in Calls
  BY DEF SerialInv, TypeOK, Send
<1>w. w \in Seq(Symbols) /\ toTarget' = toTarget \o w
  BY <1>i, WireFacts DEF Send
<1>t. /\ toTarget \in Seq(Symbols) /\ Numbered(toTarget, n) /\ Whole(toTarget, issued)
      /\ in_buf \in Seq(Symbols) /\ Numbered(in_buf, n)
  BY DEF SerialInv, Streams
<1>n. /\ toTarget' \in Seq(Symbols) /\ Whole(toTarget', issued') /\ Numbered(toTarget', n + 1)
      /\ Len(toTarget) \in Nat /\ Len(toTarget') \in Nat /\ Len(toTarget) <= Len(toTarget')
      /\ \A i \in 1..Len(toTarget) : toTarget'[i] = toTarget[i]
  <2>1. Whole(toTarget', issued') /\ Numbered(toTarget', n + 1)
    BY <1>i, <1>w, <1>t, WholeSend
  <2> QED
    BY <1>w, <1>t, <2>1, ConcatFacts
<1>u. UNCHANGED <<tpc, in_buf, cur, left, bx, mode, mem, done, result>>
  BY DEF Send, targetVars
<1>1. TypeOK'
  <2>1. hpc' \in {"response", "select"} /\ oneLate' \in BOOLEAN
    BY DEF Send
  <2>2. \A i \in 1..Len(toTarget') : toTarget'[i].call \in 1..Len(issued')
    BY <1>n, <1>i DEF Numbered
  <2>3. cur' \in 0..Len(issued') /\ done' \subseteq 1..Len(issued')
    BY <1>i, <1>u DEF SerialInv, TypeOK
  <2> QED
    BY <1>i, <1>u, <2>1, <2>2, <2>3 DEF SerialInv, TypeOK
<1>2. Streams'
  <2>1. Numbered(in_buf, n + 1)
    BY <1>i, <1>t DEF Numbered
  <2> QED
    BY <1>i, <1>n, <1>t, <1>u, <2>1 DEF Streams
<1>3. Ahead'
  <2> SUFFICES ASSUME NEW i \in 1..Len(in_buf), in_buf[i].byte = "cmd"
               PROVE  Line(toTarget', 1, issued'[in_buf[i].call], in_buf[i].call)
    BY <1>u DEF Ahead
  <2>1. in_buf[i].call \in 1..n
    BY <1>t DEF Numbered
  <2>2. Line(toTarget, 1, issued[in_buf[i].call], in_buf[i].call)
    BY DEF SerialInv, Ahead
  <2> QED
    BY <2>1, <2>2, <1>i, <1>w, <1>t, LineConcat
<1>4. Work'
  BY <1>i, <1>u DEF SerialInv, Work
<1>5. DataIsOwn'
  <2> SUFFICES ASSUME tpc = "payload"
               PROVE  /\ \A i \in 1..bx - issued[cur].addr :
                            mem[issued[cur].addr + i - 1] = issued[cur].data[i]
                      /\ \A i \in 1..left :
                            /\ i <= Len(toTarget')
                            /\ toTarget'[i] =
                                 Symbol(issued[cur].data[bx - issued[cur].addr + i], cur)
    <3>1. tpc = "payload" => issued'[cur] = issued[cur]
      BY <1>i DEF SerialInv, Work
    <3> QED
      BY <1>u, <3>1 DEF DataIsOwn
  <2>1. left \in Nat
    BY SerialConstants DEF SerialInv, TypeOK
  <2>2. \A i \in 1..left : i \in 1..Len(toTarget) /\ toTarget'[i] = toTarget[i]
    BY <1>n, <2>1 DEF SerialInv, DataIsOwn
  <2>3. \A i \in 1..left : i <= Len(toTarget')
    BY <1>n, <2>1, <2>2
  <2> QED
    BY <2>2, <2>3 DEF SerialInv, DataIsOwn
<1> QED
  BY <1>1, <1>2, <1>3, <1>4, <1>5 DEF SerialInv

LEMMA CallsInv == SerialInv /\ HostCalls => SerialInv'
BY SendInv DEF HostCalls, remote_rs232_test, remote_rs232_switch, remote_rs232_exec,
               remote_rs232_write, remote_rs232_read

-----------------------------------------------------------------------------
(* The target.                                                             *)

(* Whatever the target does with a symbol, the rest of the stream is whole.*)
LEMMA Consume ==
    ASSUME TypeOK, NEW s \in Seq(Symbols), s # <<>>,
           Numbered(s, Len(issued)), Whole(s, issued)
    PROVE  /\ Tail(s) \in Seq(Symbols)
           /\ Numbered(Tail(s), Len(issued)) /\ Whole(Tail(s), issued)
           /\ \A i \in 1..Len(Tail(s)) : Tail(s)[i].call \in 1..Len(issued)
           /\ Head(s) = s[1] /\ s[1] \in Symbols
           /\ s[1].call \in 1..Len(issued)
           /\ s[1].byte = "cmd" =>
                  Line(Tail(s), 1, issued[s[1].call], s[1].call)
<1>i. /\ issued \in Seq(Calls) /\ Len(issued) \in Nat
      /\ \A k \in 1..Len(issued) : issued[k] \in Calls
  BY IssuedFacts
<1>1. /\ Tail(s) \in Seq(Symbols) /\ Head(s) = s[1]
      /\ s[1] \in Symbols /\ Len(s) \in Nat \ {0}
  BY TailFacts
<1>2. Numbered(Tail(s), Len(issued)) /\ Whole(Tail(s), issued)
  BY <1>i, WholeTail
<1>3. s[1].call \in 1..Len(issued)
  BY <1>1 DEF Numbered
<1>4. s[1].byte = "cmd" =>
         Line(Tail(s), 1, issued[s[1].call], s[1].call)
  <2> SUFFICES ASSUME s[1].byte = "cmd"
               PROVE  Line(Tail(s), 1, issued[s[1].call], s[1].call)
    OBVIOUS
  <2>1. 1 \in 1..Len(s) /\ 1 + 1 = 2
    BY <1>1
  <2>2. Line(s, 2, issued[s[1].call], s[1].call)
    BY <2>1 DEF Whole
  <2>3. Line(Tail(s), 2 - 1, issued[s[1].call], s[1].call)
    BY <1>i, <1>3, <2>2, LineTail
  <2> QED
    BY <2>3
<1> QED
  BY <1>1, <1>2, <1>3, <1>4 DEF Numbered

LEMMA StoredFacts ==
    ASSUME SerialInv, NEW x \in Symbols
    PROVE  /\ Stored(x) \in Seq(Symbols) /\ Len(Stored(x)) < InBufSize
           /\ \A i \in 1..Len(Stored(x)) :
                 Stored(x)[i] = x \/ \E j \in 1..Len(in_buf) : Stored(x)[i] = in_buf[j]
<1>1. in_buf \in Seq(Symbols) /\ Len(in_buf) \in Nat /\ Len(in_buf) < InBufSize /\ InBufSize \in Nat
  BY SerialConstants DEF SerialInv, TypeOK, Streams
<1>2. CASE Len(in_buf) >= InBufSize - 1
  BY <1>1, <1>2 DEF Stored
<1>3. CASE ~(Len(in_buf) >= InBufSize - 1)
  <2>1. Stored(x) = Append(in_buf, x)
    BY <1>3 DEF Stored
  <2>2. /\ Append(in_buf, x) \in Seq(Symbols) /\ Len(Append(in_buf, x)) = Len(in_buf) + 1
        /\ \A i \in 1..Len(in_buf) : Append(in_buf, x)[i] = in_buf[i]
        /\ Append(in_buf, x)[Len(in_buf) + 1] = x
    BY <1>1
  <2> QED
    BY <1>1, <1>3, <2>1, <2>2
<1> QED
  BY <1>2, <1>3

(* One more symbol in the line buffer: no command was there, for behind a  *)
(* command the line ends.                                                  *)
LEMMA LineGrows ==
    ASSUME SerialInv, tpc = "line", NEW x \in Symbols, NEW t \in Seq(Symbols),
           x.call \in 1..Len(issued),
           x.byte = "cmd" => Line(t, 1, issued[x.call], x.call),
           Numbered(t, Len(issued)), Whole(t, issued),
           toTarget[1].byte # "LF",
           in_buf' = Stored(x), toTarget' = t,
           UNCHANGED <<hostVars, tpc, cur, left, bx, mode, mem, done>>
    PROVE  SerialInv'
<1>u. UNCHANGED <<hpc, issued, result, oneLate, tpc, cur, left, bx, mode, mem, done>>
  BY DEF hostVars
<1>1. /\ in_buf' \in Seq(Symbols) /\ Len(in_buf') < InBufSize
      /\ \A i \in 1..Len(in_buf') :
            in_buf'[i] = x \/ \E j \in 1..Len(in_buf) : in_buf'[i] = in_buf[j]
  BY StoredFacts
<1>2. TypeOK'
  <2>1. \A i \in 1..Len(toTarget') : toTarget'[i].call \in 1..Len(issued')
    BY <1>u DEF Numbered
  <2> QED
    BY <1>u, <1>1, <2>1 DEF SerialInv, TypeOK
<1>3. Streams'
  <2>1. \A i \in 1..Len(in_buf') : in_buf'[i].call \in 1..Len(issued)
    BY <1>1 DEF SerialInv, Streams, Numbered
  <2> QED
    BY <1>u, <1>1, <2>1 DEF Streams, Numbered
<1>4. Ahead'
  <2>1. \A j \in 1..Len(in_buf) : in_buf[j].byte # "cmd"
    <3> SUFFICES ASSUME NEW j \in 1..Len(in_buf), in_buf[j].byte = "cmd" PROVE FALSE
      OBVIOUS
    <3>1. Line(toTarget, 1, issued[in_buf[j].call], in_buf[j].call)
      BY DEF SerialInv, Ahead
    <3>2. toTarget[1] = Symbol("LF", in_buf[j].call)
      BY <3>1 DEF Line
    <3> QED
      BY <3>2 DEF Symbol
  <2> QED
    BY <1>u, <1>1, <2>1 DEF Ahead
<1>5. Work' /\ DataIsOwn'
  BY <1>u DEF Work, DataIsOwn
<1> QED
  BY <1>2, <1>3, <1>4, <1>5 DEF SerialInv

LEMMA CharInv == SerialInv /\ read_char => SerialInv'
<1> SUFFICES ASSUME SerialInv, read_char PROVE SerialInv'
  OBVIOUS
<1>1. /\ TypeOK /\ toTarget \in Seq(Symbols) /\ toTarget # <<>>
      /\ Numbered(toTarget, Len(issued)) /\ Whole(toTarget, issued)
  BY DEF SerialInv, Streams, read_char
<1>2. /\ Tail(toTarget) \in Seq(Symbols)
      /\ Numbered(Tail(toTarget), Len(issued)) /\ Whole(Tail(toTarget), issued)
      /\ Head(toTarget) = toTarget[1] /\ toTarget[1] \in Symbols
      /\ toTarget[1].call \in 1..Len(issued)
      /\ toTarget[1].byte = "cmd" =>
             Line(Tail(toTarget), 1, issued[toTarget[1].call], toTarget[1].call)
  BY <1>1, Consume
<1> QED
  BY <1>2, LineGrows DEF read_char

LEMMA EscapedInv == SerialInv /\ read_escaped => SerialInv'
<1> SUFFICES ASSUME SerialInv, read_escaped PROVE SerialInv'
  OBVIOUS
<1> DEFINE s == Tail(toTarget)
<1>1. /\ TypeOK /\ toTarget \in Seq(Symbols)
      /\ Numbered(toTarget, Len(issued)) /\ Whole(toTarget, issued)
      /\ Len(toTarget) \in Nat /\ Len(toTarget) >= 2
  BY DEF SerialInv, Streams, read_escaped
<1>2. toTarget # <<>> /\ s # <<>> /\ s[1] = toTarget[2]
  <2>1. toTarget # <<>>
    BY <1>1
  <2>2. /\ s \in Seq(Symbols) /\ Len(s) = Len(toTarget) - 1
        /\ \A i \in 1..Len(toTarget) - 1 : s[i] = toTarget[i + 1]
    BY <1>1, <2>1, TailFacts
  <2> HIDE DEF s
  <2>3. 1 \in 1..Len(toTarget) - 1 /\ Len(s) # 0
    BY <1>1, <2>2
  <2> QED
    BY <2>1, <2>2, <2>3
<1>3. /\ s \in Seq(Symbols) /\ Numbered(s, Len(issued)) /\ Whole(s, issued)
      /\ Head(toTarget) = toTarget[1]
  BY <1>1, <1>2, Consume
<1> HIDE DEF s
<1>4. /\ Tail(s) \in Seq(Symbols)
      /\ Numbered(Tail(s), Len(issued)) /\ Whole(Tail(s), issued)
      /\ s[1] \in Symbols /\ s[1].call \in 1..Len(issued)
      /\ s[1].byte = "cmd" => Line(Tail(s), 1, issued[s[1].call], s[1].call)
  BY <1>1, <1>2, <1>3, Consume
<1>5. /\ in_buf' = Stored(s[1]) /\ toTarget' = Tail(s) /\ toTarget[1].byte # "LF"
      /\ tpc = "line" /\ UNCHANGED <<hostVars, tpc, cur, left, bx, mode, mem, done>>
  BY <1>2, <1>3 DEF read_escaped, s
<1> QED
  BY <1>4, <1>5, LineGrows

(* A line end empties the buffer and leaves a whole stream.                *)
LEMMA LineEnds ==
    ASSUME SerialInv, AtLineEnd
    PROVE  /\ Streams' /\ Ahead' /\ in_buf' = <<>> /\ tpc = "line"
           /\ UNCHANGED <<hpc, issued, result, oneLate>>
           /\ \A i \in 1..Len(toTarget') : toTarget'[i].call \in 1..Len(issued)
<1>1. /\ TypeOK /\ toTarget \in Seq(Symbols) /\ toTarget # <<>>
      /\ Numbered(toTarget, Len(issued)) /\ Whole(toTarget, issued)
      /\ toTarget' = Tail(toTarget) /\ in_buf' = <<>> /\ tpc = "line"
      /\ UNCHANGED <<hpc, issued, result, oneLate>>
  BY DEF SerialInv, Streams, AtLineEnd, hostVars
<1>2. /\ Tail(toTarget) \in Seq(Symbols)
      /\ Numbered(Tail(toTarget), Len(issued)) /\ Whole(Tail(toTarget), issued)
  BY <1>1, Consume
<1>3. Streams'
  BY <1>1, <1>2 DEF Streams, Numbered
<1>4. Ahead'
  BY <1>1 DEF Ahead
<1> QED
  BY <1>1, <1>2, <1>3, <1>4 DEF Numbered

LEMMA LineDone ==
    ASSUME SerialInv, AtLineEnd, tpc' \in {"line", "exec"}, cur' \in 0..Len(issued),
           tpc' = "exec" => cur' # 0,
           UNCHANGED <<left, bx, mem>>, mode' \in Modes, done' \subseteq 1..Len(issued)
    PROVE  SerialInv'
<1>1. /\ Streams' /\ Ahead' /\ in_buf' = <<>>
      /\ UNCHANGED <<hpc, issued, result, oneLate>>
      /\ \A i \in 1..Len(toTarget') : toTarget'[i].call \in 1..Len(issued)
  BY LineEnds
<1>2. TypeOK'
  BY <1>1, SerialConstants DEF SerialInv, TypeOK
<1>3. Work'
  BY <1>1, IssuedFacts DEF SerialInv, Work
<1>4. DataIsOwn'
  BY DEF DataIsOwn
<1> QED
  BY <1>1, <1>2, <1>3, <1>4 DEF SerialInv

(* The line end of an accepted command: its data comes next.               *)
LEMMA OwnLine ==
    ASSUME SerialInv, AtLineEnd, NEW k \in 1..Len(issued), Is(k)
    PROVE  /\ toTarget[1] = Symbol("LF", k)
           /\ \A j \in 1..Size(issued[k]) :
                 j <= Len(toTarget') /\ toTarget'[j] = Symbol(issued[k].data[j], k)
<1>i. Len(issued) \in Nat /\ issued[k] \in Calls
  BY IssuedFacts DEF SerialInv
<1>1. Len(in_buf) = 1 /\ in_buf[1].byte = "cmd" /\ in_buf[1].call = k
  BY DEF Is, Symbol
<1>2. Line(toTarget, 1, issued[k], k)
  BY <1>1 DEF SerialInv, Ahead
<1>3. /\ toTarget' = Tail(toTarget) /\ Len(Tail(toTarget)) = Len(toTarget) - 1
      /\ Len(toTarget) \in Nat
      /\ \A i \in 1..Len(toTarget) - 1 : Tail(toTarget)[i] = toTarget[i + 1]
  BY TailFacts DEF AtLineEnd, SerialInv, Streams
<1>4. Size(issued[k]) \in Nat /\ 1 + Size(issued[k]) <= Len(toTarget)
  BY <1>i, <1>2, CallFacts DEF Line
<1>5. \A j \in 1..Size(issued[k]) : toTarget[1 + j] = Symbol(issued[k].data[j], k)
  BY <1>2 DEF Line
<1>6. ASSUME NEW j \in 1..Size(issued[k])
      PROVE  j <= Len(toTarget') /\ toTarget'[j] = Symbol(issued[k].data[j], k)
  <2>1. j \in 1..Len(toTarget) - 1 /\ j + 1 = 1 + j
    BY <1>3, <1>4
  <2> QED
    BY <2>1, <1>3, <1>5
<1> QED
  BY <1>2, <1>6 DEF Line

LEMMA PayloadBegins ==
    ASSUME SerialInv, NEW k \in 1..Len(issued), AtLineEnd, Is(k),
           issued[k].cmd = "WRITEB", issued[k].count % Stage2.wrap > 0,
           tpc' = "payload", cur' = k, left' = issued[k].count % Stage2.wrap,
           bx' = issued[k].addr, UNCHANGED <<done, mode, mem>>
    PROVE  SerialInv'
<1> DEFINE c == issued[k]
           n == c.count % Stage2.wrap
<1>i. c \in Calls /\ c.addr \in Nat /\ c.count \in Nat /\ c.addr + c.count <= Cells
      /\ Size(c) = c.count /\ Cells \in Nat
  BY IssuedFacts, CallFacts, SerialConstants DEF SerialInv, Size
<1>n. n \in 0..c.count
  <2>1. Stage2.wrap \in Nat \ {0}
    BY Stage2Facts DEF SerialInv, TypeOK
  <2> QED
    BY <1>i, <2>1, ModFacts
<1>1. /\ Streams' /\ Ahead' /\ in_buf' = <<>>
      /\ UNCHANGED <<hpc, issued, result, oneLate>>
      /\ \A i \in 1..Len(toTarget') : toTarget'[i].call \in 1..Len(issued)
  BY LineEnds
<1>2. TypeOK'
  <2>1. left' \in 0..Cells /\ bx' \in 0..Cells
    BY <1>i, <1>n
  <2>2. cur' \in 0..Len(issued') /\ Len(in_buf') < InBufSize
    BY <1>1, SerialConstants
  <2> QED
    BY <1>1, <2>1, <2>2 DEF SerialInv, TypeOK
<1>3. Work'
  BY <1>1, <1>i, <1>n DEF Work
<1>4. DataIsOwn'
  <2>1. \A j \in 1..c.count : j <= Len(toTarget') /\ toTarget'[j] = Symbol(c.data[j], k)
    BY <1>i, OwnLine
  <2> HIDE DEF n, c
  <2>2. issued'[cur'] = c /\ bx' - c.addr = 0 /\ left' = n
    BY <1>1, <1>i DEF c, n
  <2>3. \A i \in 1..n : i \in 1..c.count /\ 0 + i = i
    BY <1>n, <1>i
  <2>4. 1..0 = {}
    OBVIOUS
  <2> QED
    BY <2>1, <2>2, <2>3, <2>4 DEF DataIsOwn
<1> QED
  BY <1>1, <1>2, <1>3, <1>4 DEF SerialInv

LEMMA CommandsInv ==
    ASSUME SerialInv, Commands \/ empty_line \/ unknown_command
    PROVE  SerialInv'
<1>t. /\ cur \in 0..Len(issued) /\ mode \in Modes /\ done \subseteq 1..Len(issued)
      /\ AtLineEnd => tpc = "line"
  BY DEF SerialInv, TypeOK, AtLineEnd
<1>m. \A m \in Modes : _jmp(m) \in Modes
  BY SerialConstants DEF _jmp, Modes
<1>0. CASE empty_line \/ unknown_command
  BY <1>0, <1>t, LineDone DEF empty_line, unknown_command
<1> SUFFICES ASSUME NEW k \in 1..Len(issued),
                    \/ command_test(k) \/ command_switch(k) \/ command_exec(k)
                    \/ command_readb(k) \/ command_writeb(k)
             PROVE  SerialInv'
  BY <1>0 DEF Commands
<1>d. done \cup {k} \subseteq 1..Len(issued)
  BY <1>t
<1>1. CASE command_test(k)
  BY <1>1, <1>t, <1>d, LineDone DEF command_test
<1>2. CASE command_switch(k)
  <2>1. issued[k].cmd \in Modes
    BY <1>2, <1>t, Stage2Facts DEF command_switch
  <2> QED
    BY <1>2, <1>t, <1>d, <1>m, <2>1, LineDone DEF command_switch
<1>3. CASE command_exec(k)
  <2>1. k \in 0..Len(issued) /\ k # 0
    OBVIOUS
  <2> QED
    BY <1>3, <1>t, <2>1, LineDone DEF command_exec
<1>4. CASE command_readb(k)
  BY <1>4, <1>t, <1>d, LineDone DEF command_readb
<1>5. CASE command_writeb(k)
  <2>1. \/ UNCHANGED <<tpc, cur, left, bx>> /\ done' \in {done, done \cup {k}}
        \/ /\ issued[k].count % Stage2.wrap > 0 /\ tpc' = "payload" /\ cur' = k
           /\ left' = issued[k].count % Stage2.wrap /\ bx' = issued[k].addr /\ done' = done
    BY <1>5 DEF command_writeb
  <2>2. AtLineEnd /\ Is(k) /\ issued[k].cmd = "WRITEB" /\ UNCHANGED <<mode, mem>>
    BY <1>5 DEF command_writeb
  <2>3. CASE UNCHANGED <<tpc, cur, left, bx>> /\ done' \in {done, done \cup {k}}
    BY <2>2, <2>3, <1>t, <1>d, LineDone
  <2> QED
    BY <2>1, <2>2, <2>3, PayloadBegins
<1> QED
  BY <1>1, <1>2, <1>3, <1>4, <1>5

LEMMA ReturnsInv == SerialInv /\ exec_returns => SerialInv'
<1> SUFFICES ASSUME SerialInv, exec_returns PROVE SerialInv'
  OBVIOUS
<1>u. /\ UNCHANGED <<hpc, issued, result, oneLate, toTarget, in_buf, cur, left, bx, mode, mem>>
      /\ tpc = "exec" /\ tpc' = "line" /\ done' = done \cup {cur}
  BY DEF exec_returns, hostVars
<1>1. TypeOK'
  BY <1>u DEF SerialInv, TypeOK, Work
<1>2. Streams' /\ Ahead' /\ Work' /\ DataIsOwn'
  BY <1>u DEF SerialInv, Streams, Ahead, Work, DataIsOwn
<1> QED
  BY <1>1, <1>2 DEF SerialInv

(* One byte of data: the next cell gets what the call meant for it.        *)
LEMMA ByteInv == SerialInv /\ writeb_byte => SerialInv'
<1> SUFFICES ASSUME SerialInv, writeb_byte PROVE SerialInv'
  OBVIOUS
<1> DEFINE c == issued[cur]
           n == bx - c.addr
<1>u. /\ UNCHANGED <<hpc, issued, result, oneLate, in_buf, cur, mode>>
      /\ tpc = "payload" /\ toTarget # <<>> /\ toTarget' = Tail(toTarget)
      /\ mem' = [mem EXCEPT ![bx] = Head(toTarget).byte]
      /\ bx' = bx + 1 /\ left' = left - 1
      /\ \/ left = 1 /\ tpc' = "line" /\ done' = done \cup {cur}
         \/ left > 1 /\ UNCHANGED <<tpc, done>>
  BY DEF writeb_byte, hostVars
<1>t. /\ TypeOK /\ toTarget \in Seq(Symbols)
      /\ Numbered(toTarget, Len(issued)) /\ Whole(toTarget, issued)
      /\ in_buf = <<>> /\ cur \in 1..Len(issued)
  BY <1>u DEF SerialInv, Streams, Work
<1>i. /\ c \in Calls /\ c.addr \in Nat /\ c.count \in Nat
      /\ c.addr + c.count <= Cells /\ Cells \in Nat /\ c.cmd = "WRITEB"
      /\ left \in Nat \ {0} /\ bx \in Nat /\ c.addr <= bx /\ bx + left <= c.addr + c.count
  <2>1. c \in Calls
    BY <1>t, IssuedFacts
  <2>2. c.addr \in Nat /\ c.count \in Nat /\ c.addr + c.count <= Cells
    BY <2>1, CallFacts
  <2>3. left \in Nat /\ bx \in Nat
    BY <1>t, SerialConstants DEF TypeOK
  <2> QED
    BY <1>u, <2>1, <2>2, <2>3, SerialConstants DEF SerialInv, Work
<1>n. n \in Nat /\ bx = c.addr + n /\ n + left <= c.count /\ bx < Cells
  BY <1>i
<1>s. /\ Tail(toTarget) \in Seq(Symbols)
      /\ Numbered(Tail(toTarget), Len(issued)) /\ Whole(Tail(toTarget), issued)
      /\ Head(toTarget) = toTarget[1]
      /\ \A i \in 1..Len(Tail(toTarget)) : Tail(toTarget)[i].call \in 1..Len(issued)
  BY <1>t, <1>u, Consume
<1>o. /\ \A i \in 1..n : mem[c.addr + i - 1] = c.data[i]
      /\ \A i \in 1..left :
            i <= Len(toTarget) /\ toTarget[i] = Symbol(c.data[n + i], cur)
  BY <1>u DEF SerialInv, DataIsOwn
<1>m. DOMAIN mem = 0..Cells - 1
  BY <1>t DEF TypeOK
<1>v. bx' = bx + 1 /\ left' = left - 1 /\ issued'[cur'] = c /\ cur' = cur
  BY <1>u
<1> HIDE DEF c, n
<1>1. TypeOK'
  <2>1. left' \in 0..Cells /\ bx' \in 0..Cells
    BY <1>v, <1>i, <1>n
  <2>2. DOMAIN mem' = 0..Cells - 1
    BY <1>u, <1>m
  <2>3. tpc' \in {"line", "payload", "exec"} /\ done' \subseteq 1..Len(issued)
    BY <1>u, <1>t DEF TypeOK
  <2>4. \A i \in 1..Len(toTarget') : toTarget'[i].call \in 1..Len(issued')
    BY <1>u, <1>s
  <2> QED
    BY <1>t, <1>u, <2>1, <2>2, <2>3, <2>4 DEF TypeOK
<1>2. Streams' /\ Ahead'
  BY <1>u, <1>t, <1>s DEF Streams, Ahead, Numbered
<1>3. Work'
  <2>1. issued'[cur'] = c
    BY <1>u DEF c
  <2>2. UNCHANGED <<in_buf, cur, issued>> /\ tpc' # "exec"
    BY <1>u
  <2>3. tpc' = "payload" => left' > 0 /\ bx' >= c.addr /\ bx' + left' <= c.addr + c.count
    BY <1>u, <1>i
  <2> QED
    BY <1>t, <1>i, <2>1, <2>2, <2>3 DEF Work
<1>4. DataIsOwn'
  <2> SUFFICES ASSUME left > 1
               PROVE  /\ \A i \in 1..n + 1 : mem'[c.addr + i - 1] = c.data[i]
                      /\ \A i \in 1..left - 1 :
                            /\ i <= Len(toTarget')
                            /\ toTarget'[i] = Symbol(c.data[n + 1 + i], cur)
    <3>0. bx' = bx + 1 /\ c.addr \in Nat /\ n \in Nat /\ bx = c.addr + n
      BY <1>v, <1>i, <1>n
    <3>1. issued'[cur'] = c /\ bx' - c.addr = n + 1 /\ cur' = cur
      BY <3>0, <1>v
    <3>2. tpc' = "payload" => left > 1 /\ left' = left - 1
      BY <1>u
    <3>3. CASE tpc' = "payload"
      <4>1. left > 1 /\ left' = left - 1
        BY <3>2, <3>3
      <4> QED
        BY <3>1, <4>1 DEF DataIsOwn
    <3>4. CASE tpc' # "payload"
      BY <3>4 DEF DataIsOwn
    <3> QED
      BY <3>3, <3>4
  <2>1. ASSUME NEW i \in 1..n + 1 PROVE mem'[c.addr + i - 1] = c.data[i]
    <3>1. CASE i = n + 1
      <4>1. c.addr + i - 1 = bx /\ bx \in DOMAIN mem
        BY <3>1, <1>i, <1>n, <1>m
      <4>2. Head(toTarget).byte = c.data[i]
        <5>1. 1 \in 1..left
          BY <1>i
        <5>2. toTarget[1] = Symbol(c.data[n + 1], cur)
          BY <5>1, <1>o
        <5> QED
          BY <5>2, <3>1, <1>s DEF Symbol
      <4> QED
        BY <4>1, <4>2, <1>u
    <3>2. CASE i # n + 1
      <4>n. n \in Nat /\ c.addr \in Nat /\ Cells \in Nat /\ bx = c.addr + n /\ bx < Cells
        BY <1>i, <1>n
      <4>i. i \in Nat /\ 1 <= i /\ i <= n
        BY <3>2, <4>n
      <4>a. c.addr + i - 1 # bx /\ c.addr + i - 1 \in 0..Cells - 1
        BY <4>n, <4>i
      <4>1. i \in 1..n /\ c.addr + i - 1 # bx /\ c.addr + i - 1 \in DOMAIN mem
        BY <4>n, <4>i, <4>a, <1>m
      <4> QED
        BY <4>1, <1>o, <1>u
    <3> QED
      BY <3>1, <3>2
  <2>2. ASSUME NEW i \in 1..left - 1
        PROVE  i <= Len(toTarget') /\ toTarget'[i] = Symbol(c.data[n + 1 + i], cur)
    <3>1. i + 1 \in 1..left /\ n + (i + 1) = n + 1 + i
      BY <1>i, <1>n
    <3>2. /\ Len(toTarget') = Len(toTarget) - 1 /\ Len(toTarget) \in Nat
          /\ \A j \in 1..Len(toTarget) - 1 : toTarget'[j] = toTarget[j + 1]
      BY <1>t, <1>u, TailFacts
    <3>3. i \in 1..Len(toTarget) - 1
      BY <3>1, <3>2, <1>o
    <3> QED
      BY <3>1, <3>2, <3>3, <1>o
  <2> QED
    BY <2>1, <2>2
<1> QED
  BY <1>1, <1>2, <1>3, <1>4 DEF SerialInv

LEMMA NextInv == SerialInv /\ [Next]_vars => SerialInv'
<1> SUFFICES ASSUME SerialInv, [Next]_vars PROVE SerialInv'
  OBVIOUS
<1>1. CASE Next
  BY <1>1, CallsInv, WaitsInv, ConfigureInv, CharInv, EscapedInv, CommandsInv, ByteInv,
     ReturnsInv DEF Next, Target
<1>2. CASE UNCHANGED vars
  <2>1. /\ UNCHANGED <<issued, oneLate, toTarget, targetVars>>
        /\ UNCHANGED <<hpc, result>>
    BY <1>2 DEF vars, hostVars
  <2> QED
    BY <2>1, HostKeeps DEF SerialInv, TypeOK, HostPlaces
<1> QED
  BY <1>1, <1>2

-----------------------------------------------------------------------------
(* The invariant holds whatever the host calls, gives up or restarts.      *)
THEOREM Invariance == Spec => []SerialInv
BY InitInv, NextInv, PTL DEF Spec

(* Every variable of the session keeps its type: in_buf is never filled    *)
(* past its last character and WRITEB never leaves the memory of its call. *)
THEOREM SerialTypeCorrect == Spec => []TypeOK
<1>1. SerialInv => TypeOK
  BY DEF SerialInv
<1> QED
  BY <1>1, Invariance, PTL

(* The loop of WRITEB takes the data of its own call and nothing else,     *)
(* though the host may have given up any number of calls before.           *)
THEOREM OwnData == Spec => []DataIsOwn
<1>1. SerialInv => DataIsOwn
  BY DEF SerialInv
<1> QED
  BY <1>1, Invariance, PTL

-----------------------------------------------------------------------------
(* What the target reads as a line, as long as it accepts every write.     *)

Accepted ==
    \A k \in 1..Len(issued) :
        issued[k].cmd = "WRITEB" => issued[k].addr < Limit8086 /\ issued[k].count < Word

(* Behind its first n symbols s holds commands, each with what belongs to  *)
(* it, and nothing else.                                                   *)
Covered(s, iss, n) ==
    \A i \in 1..Len(s) :
        \/ i <= n
        \/ s[i].byte = "cmd"
        \/ \E p \in 1..Len(s) :
              s[p].byte = "cmd" /\ p < i /\ i <= p + 1 + Size(iss[s[p].call])

(* How much of the stream still belongs to the command being worked on.    *)
Rest == IF tpc = "payload" THEN left
        ELSE IF in_buf # <<>> THEN 1 + Size(issued[in_buf[1].call]) ELSE 0

Lines ==
    Accepted => Len(in_buf) <= 1 /\ LineIsCommand /\ Covered(toTarget, issued, Rest)

LEMMA CoveredTail ==
    ASSUME NEW iss \in Seq(Calls), NEW s \in Seq(Symbols), s # <<>>,
           Numbered(s, Len(iss)), NEW a \in Nat, NEW b \in Nat, a <= b + 1,
           Covered(s, iss, a),
           s[1].byte = "cmd" => b >= 1 + Size(iss[s[1].call])
    PROVE  Covered(Tail(s), iss, b)
<1>1. /\ Len(Tail(s)) = Len(s) - 1 /\ Len(s) \in Nat \ {0}
      /\ \A i \in 1..Len(s) - 1 : Tail(s)[i] = s[i + 1]
  BY TailFacts
<1> SUFFICES ASSUME NEW i \in 1..Len(Tail(s)), ~(i <= b), Tail(s)[i].byte # "cmd"
             PROVE  \E p \in 1..Len(Tail(s)) :
                       /\ Tail(s)[p].byte = "cmd" /\ p < i
                       /\ i <= p + 1 + Size(iss[Tail(s)[p].call])
  BY DEF Covered
<1>2. i + 1 \in 1..Len(s) /\ ~(i + 1 <= a) /\ s[i + 1].byte # "cmd"
  BY <1>1
<1>3. PICK p \in 1..Len(s) : /\ s[p].byte = "cmd" /\ p < i + 1
                             /\ i + 1 <= p + 1 + Size(iss[s[p].call])
  BY <1>2 DEF Covered
<1>4. iss[s[p].call] \in Calls /\ Size(iss[s[p].call]) \in Nat
  <2>1. s[p].call \in 1..Len(iss)
    BY DEF Numbered
  <2>2. iss[s[p].call] \in Calls
    BY <2>1
  <2> QED
    BY <2>2, CallFacts
<1>5. p # 1
  <2> SUFFICES ASSUME p = 1 PROVE FALSE
    OBVIOUS
  <2>1. b >= 1 + Size(iss[s[p].call]) /\ i + 1 <= 1 + 1 + Size(iss[s[p].call])
    BY <1>3
  <2> QED
    BY <2>1, <1>4
<1>6. p - 1 \in 1..Len(Tail(s)) /\ Tail(s)[p - 1] = s[p]
  <2>1. p - 1 \in 1..Len(s) - 1 /\ (p - 1) + 1 = p
    BY <1>1, <1>5
  <2> QED
    BY <1>1, <2>1
<1>7. p - 1 < i /\ i <= (p - 1) + 1 + Size(iss[s[p].call])
  BY <1>3, <1>4
<1> QED
  BY <1>3, <1>6, <1>7

LEMMA CoveredSend ==
    ASSUME NEW iss \in Seq(Calls), NEW s \in Seq(Symbols), Numbered(s, Len(iss)),
           NEW n \in Nat, Covered(s, iss, n), NEW c \in Calls
    PROVE  Covered(s \o Wire(c, Len(iss) + 1), Append(iss, c), n)
<1> DEFINE k == Len(iss) + 1
           w == Wire(c, k)
           t == s \o w
           jss == Append(iss, c)
<1>i. /\ Len(iss) \in Nat /\ k \in Nat /\ jss[k] = c
      /\ \A j \in 1..Len(iss) : jss[j] = iss[j] /\ iss[j] \in Calls
  OBVIOUS
<1>w. /\ w \in Seq(Symbols) /\ Len(w) = Size(c) + 2 /\ w[1] = Symbol("cmd", k)
  BY <1>i, WireFacts
<1>c. Size(c) \in Nat
  BY CallFacts
<1> HIDE DEF w, k, jss
<1>t. /\ Len(t) = Len(s) + Len(w) /\ Len(s) \in Nat
      /\ \A i \in 1..Len(s) : t[i] = s[i]
      /\ \A i \in 1..Len(w) : t[Len(s) + i] = w[i]
  BY <1>w, ConcatFacts
<1> HIDE DEF t
<1>l. Len(w) = Size(c) + 2 /\ Len(t) = Len(s) + Size(c) + 2
  BY <1>w, <1>t, <1>c
<1> SUFFICES ASSUME NEW i \in 1..Len(t), ~(i <= n), t[i].byte # "cmd"
             PROVE  \E p \in 1..Len(t) :
                       /\ t[p].byte = "cmd" /\ p < i
                       /\ i <= p + 1 + Size(jss[t[p].call])
  BY DEF Covered, t, w, k, jss
<1>1. CASE i \in 1..Len(s)
  <2>1. t[i] = s[i]
    BY <1>1, <1>t
  <2>2. PICK p \in 1..Len(s) : /\ s[p].byte = "cmd" /\ p < i
                               /\ i <= p + 1 + Size(iss[s[p].call])
    BY <1>1, <2>1 DEF Covered
  <2>3. t[p] = s[p] /\ s[p].call \in 1..Len(iss) /\ p \in 1..Len(t)
    BY <1>t, <1>l, <1>c DEF Numbered
  <2>4. jss[t[p].call] = iss[s[p].call]
    BY <2>3, <1>i
  <2> QED
    BY <2>2, <2>3, <2>4
<1>2. CASE i \notin 1..Len(s)
  <2> DEFINE p == Len(s) + 1
  <2>1. p \in 1..Len(t) /\ 1 \in 1..Len(w) /\ i <= p + 1 + Size(c) /\ i >= p
    BY <1>2, <1>l, <1>t, <1>c
  <2>2. t[p] = Symbol("cmd", k)
    BY <2>1, <1>t, <1>w
  <2>3. t[p].byte = "cmd" /\ t[p].call = k
    BY <2>2 DEF Symbol
  <2> HIDE DEF p
  <2>4. i # p
    BY <2>3
  <2>5. p < i
    BY <2>1, <2>4, <1>l, <1>t, <1>c DEF p
  <2> QED
    BY <2>1, <2>3, <2>5, <1>i
<1> QED
  BY <1>1, <1>2

LEMMA RestNat == SerialInv => Rest \in Nat
<1> SUFFICES ASSUME SerialInv PROVE Rest \in Nat
  OBVIOUS
<1>1. CASE tpc = "payload"
  BY <1>1, SerialConstants DEF Rest, SerialInv, TypeOK
<1>2. CASE tpc # "payload" /\ in_buf = <<>>
  BY <1>2 DEF Rest
<1>3. CASE tpc # "payload" /\ in_buf # <<>>
  <2>1. in_buf[1].call \in 1..Len(issued)
    BY <1>3, TailFacts DEF SerialInv, Streams, Numbered
  <2>2. Size(issued[in_buf[1].call]) \in Nat
    BY <2>1, IssuedFacts, CallFacts DEF SerialInv
  <2> QED
    BY <1>3, <2>2 DEF Rest
<1> QED
  BY <1>1, <1>2, <1>3

LEMMA LinesSame ==
    ASSUME Lines, UNCHANGED <<issued, toTarget, in_buf, left>>,
           UNCHANGED tpc \/ (tpc # "payload" /\ tpc' # "payload")
    PROVE  Lines'
BY DEF Lines, Accepted, LineIsCommand, Covered, Rest

LEMMA LinesSend ==
    ASSUME SerialInv, Lines, NEW c \in Calls, NEW where, Send(c, where)
    PROVE  Lines'
<1> SUFFICES ASSUME Accepted'
             PROVE  /\ Len(in_buf') <= 1 /\ LineIsCommand'
                    /\ Covered(toTarget', issued', Rest')
  BY DEF Lines
<1>i. /\ issued \in Seq(Calls) /\ issued' = Append(issued, c)
      /\ Len(issued) \in Nat /\ Len(issued') = Len(issued) + 1
      /\ \A k \in 1..Len(issued) : issued'[k] = issued[k]
  BY DEF SerialInv, TypeOK, Send
<1>u. toTarget' = toTarget \o Wire(c, Len(issued) + 1) /\ UNCHANGED <<in_buf, tpc, left>>
  BY DEF Send, targetVars
<1>1. Accepted
  BY <1>i DEF Accepted
<1>2. Len(in_buf) <= 1 /\ LineIsCommand /\ Covered(toTarget, issued, Rest)
  BY <1>1 DEF Lines
<1>3. Rest' = Rest
  <2>1. in_buf # <<>> => in_buf[1].call \in 1..Len(issued)
    BY TailFacts DEF SerialInv, Streams, Numbered
  <2> QED
    BY <2>1, <1>i, <1>u DEF Rest
<1>4. Covered(toTarget', issued', Rest)
  BY <1>i, <1>u, <1>2, RestNat, CoveredSend DEF SerialInv, Streams
<1> QED
  BY <1>u, <1>2, <1>3, <1>4 DEF LineIsCommand

(* What can be at the head of the stream while a line is read.             *)
LEMMA LineHead ==
    ASSUME SerialInv, Lines, Accepted, tpc = "line", toTarget # <<>>
    PROVE  /\ in_buf = <<>> => toTarget[1].byte = "cmd" /\ Rest = 0
           /\ in_buf # <<>> =>
                 /\ toTarget[1].byte = "LF" /\ in_buf = <<in_buf[1]>>
                 /\ in_buf[1] = Symbol("cmd", in_buf[1].call)
                 /\ in_buf[1].call \in 1..Len(issued)
                 /\ Rest = 1 + Size(issued[in_buf[1].call])
<1>1. Len(in_buf) <= 1 /\ LineIsCommand /\ Covered(toTarget, issued, Rest)
  BY DEF Lines
<1>2. ASSUME in_buf = <<>> PROVE toTarget[1].byte = "cmd" /\ Rest = 0
  <2>1. Rest = 0 /\ Len(toTarget) \in Nat /\ 1 \in 1..Len(toTarget)
    BY <1>2, TailFacts DEF Rest, SerialInv, Streams
  <2>2. ~(1 <= 0) /\ \A p \in 1..Len(toTarget) : ~(p < 1)
    BY <2>1
  <2>3. Covered(toTarget, issued, 0)
    BY <1>1, <2>1
  <2>4. toTarget[1].byte = "cmd"
    BY <2>1, <2>2, <2>3 DEF Covered
  <2> QED
    BY <2>1, <2>4
<1>3. ASSUME in_buf # <<>>
      PROVE  /\ toTarget[1].byte = "LF" /\ in_buf = <<in_buf[1]>>
             /\ in_buf[1] = Symbol("cmd", in_buf[1].call)
             /\ in_buf[1].call \in 1..Len(issued)
             /\ Rest = 1 + Size(issued[in_buf[1].call])
  <2>1. in_buf \in Seq(Symbols) /\ Len(in_buf) = 1
    <3>1. in_buf \in Seq(Symbols)
      BY DEF SerialInv, Streams
    <3>2. Len(in_buf) \in Nat \ {0}
      BY <3>1, <1>3, TailFacts
    <3>3. Len(in_buf) <= 1
      BY <1>1
    <3>4. \A n \in Nat \ {0} : n <= 1 => n = 1
      OBVIOUS
    <3>5. Len(in_buf) = 1
      BY <3>2, <3>3, <3>4
    <3> QED
      BY <3>1, <3>5
  <2>2. in_buf = <<in_buf[1]>> /\ in_buf[1] \in Symbols
    BY <2>1
  <2>3. in_buf[1].byte = "cmd"
    BY <1>1, <2>1 DEF LineIsCommand
  <2>4. in_buf[1] = Symbol("cmd", in_buf[1].call)
    BY <2>2, <2>3, SymbolParts
  <2>5. in_buf[1].call \in 1..Len(issued)
    BY <2>1 DEF SerialInv, Streams, Numbered
  <2>6. toTarget[1] = Symbol("LF", in_buf[1].call)
    BY <2>1, <2>3 DEF SerialInv, Ahead, Line
  <2>7. toTarget[1].byte = "LF"
    BY <2>6 DEF Symbol
  <2> QED
    BY <1>3, <2>2, <2>4, <2>5, <2>7 DEF Rest
<1> QED
  BY <1>2, <1>3

LEMMA LinesChar ==
    ASSUME SerialInv, Lines, read_char \/ read_escaped \/ empty_line
    PROVE  Lines'
<1> SUFFICES ASSUME Accepted'
             PROVE  /\ Len(in_buf') <= 1 /\ LineIsCommand'
                    /\ Covered(toTarget', issued', Rest')
  BY DEF Lines
<1>u. issued' = issued /\ tpc = "line" /\ tpc' = "line"
  BY DEF read_char, read_escaped, empty_line, AtLineEnd, hostVars
<1>t. /\ toTarget \in Seq(Symbols) /\ Numbered(toTarget, Len(issued))
      /\ issued \in Seq(Calls) /\ toTarget # <<>> /\ Head(toTarget) = toTarget[1]
      /\ toTarget[1] \in Symbols /\ toTarget[1].call \in 1..Len(issued)
  <2>1. toTarget \in Seq(Symbols) /\ toTarget # <<>> /\ Numbered(toTarget, Len(issued))
    BY DEF read_char, read_escaped, empty_line, AtLineEnd, SerialInv, Streams
  <2>2. /\ Head(toTarget) = toTarget[1] /\ toTarget[1] \in Symbols
        /\ Len(toTarget) \in Nat \ {0}
    BY <2>1, TailFacts
  <2>3. toTarget[1].call \in 1..Len(issued)
    BY <2>1, <2>2 DEF Numbered
  <2> QED
    BY <2>1, <2>2, <2>3 DEF SerialInv, TypeOK
<1>a. Accepted
  BY <1>u DEF Accepted
<1>1. /\ in_buf = <<>> => toTarget[1].byte = "cmd" /\ Rest = 0
      /\ in_buf # <<>> => toTarget[1].byte = "LF"
  BY <1>a, <1>t, <1>u, LineHead
<1>2. read_char /\ in_buf = <<>> /\ toTarget[1].byte = "cmd" /\ Rest = 0
  BY <1>1, <1>t DEF read_char, read_escaped, empty_line, AtLineEnd
<1>3. in_buf' = <<toTarget[1]>> /\ toTarget' = Tail(toTarget)
  BY <1>2, <1>t, SerialConstants DEF read_char, Stored
<1>4. Rest' = 1 + Size(issued[toTarget[1].call])
  BY <1>3, <1>u DEF Rest
<1>5. Size(issued[toTarget[1].call]) \in Nat
  BY <1>t, IssuedFacts, CallFacts DEF SerialInv
<1>6. Covered(toTarget, issued, 0)
  BY <1>a, <1>2 DEF Lines
<1>7. Covered(Tail(toTarget), issued, 1 + Size(issued[toTarget[1].call]))
  <2> DEFINE b == 1 + Size(issued[toTarget[1].call])
  <2>1. b \in Nat /\ 0 <= b + 1 /\ b >= 1 + Size(issued[toTarget[1].call])
    BY <1>5
  <2> HIDE DEF b
  <2>2. Covered(Tail(toTarget), issued, b)
    BY <1>t, <1>6, <2>1, CoveredTail
  <2> QED
    BY <2>2 DEF b
<1>8. Len(in_buf') <= 1 /\ LineIsCommand'
  BY <1>2, <1>3 DEF LineIsCommand
<1> QED
  BY <1>3, <1>4, <1>7, <1>8, <1>u

(* A command leaves as much of the stream to itself as it has data.        *)
LEMMA LinesCommand ==
    ASSUME SerialInv, Lines, Commands \/ unknown_command
    PROVE  Lines'
<1> SUFFICES ASSUME Accepted'
             PROVE  /\ Len(in_buf') <= 1 /\ LineIsCommand'
                    /\ Covered(toTarget', issued', Rest')
  BY DEF Lines
<1>l. AtLineEnd /\ in_buf # <<>>
  BY DEF Commands, unknown_command, command_test, command_switch, command_exec,
         command_readb, command_writeb, Is
<1>u. /\ issued' = issued /\ tpc = "line" /\ in_buf' = <<>>
      /\ toTarget # <<>> /\ toTarget' = Tail(toTarget)
  BY <1>l DEF AtLineEnd, hostVars
<1>a. Accepted
  BY <1>u DEF Accepted
<1> DEFINE k == in_buf[1].call
           c == issued[k]
<1>1. /\ toTarget[1].byte = "LF" /\ Is(k) /\ k \in 1..Len(issued) /\ Rest = 1 + Size(c)
  BY <1>l, <1>u, <1>a, LineHead DEF Is
<1>2. \A j : Is(j) => j = k
  BY DEF Is, Symbol
<1>c. /\ c \in Calls /\ c.addr \in Nat /\ c.count \in Nat /\ c.addr + c.count <= Cells
      /\ Size(c) \in Nat
      /\ c.cmd = "WRITEB" => Size(c) = c.count
      /\ c.cmd # "WRITEB" => Size(c) = 0
  BY <1>1, IssuedFacts, CallFacts DEF SerialInv, Size
<1>3. Rest' = Size(c)
  <2>1. CASE c.cmd # "WRITEB"
    <3>1. tpc' # "payload"
      <4>1. CASE unknown_command
        BY <4>1, <1>u DEF unknown_command
      <4>2. ASSUME NEW j \in 1..Len(issued),
                   \/ command_test(j) \/ command_switch(j) \/ command_exec(j)
                   \/ command_readb(j) \/ command_writeb(j)
            PROVE  tpc' # "payload"
        <5>1. ~command_writeb(j)
          BY <1>2, <2>1 DEF command_writeb
        <5> QED
          BY <4>2, <5>1, <1>u DEF command_test, command_switch, command_exec, command_readb
      <4> QED
        BY <4>1, <4>2 DEF Commands
    <3> QED
      BY <3>1, <2>1, <1>c, <1>u DEF Rest
  <2>2. CASE c.cmd = "WRITEB"
    <3>1. command_writeb(k)
      <4>1. ~unknown_command
        BY <1>1, <2>2 DEF unknown_command, Understood
      <4>2. ASSUME NEW j \in 1..Len(issued),
                   command_test(j) \/ command_switch(j) \/ command_exec(j) \/ command_readb(j)
            PROVE  FALSE
        <5>1. j = k
          BY <4>2, <1>2 DEF command_test, command_switch, command_exec, command_readb
        <5>2. "WRITEB" \notin Stage2.switches
          BY Stage2Facts DEF SerialInv, TypeOK, Modes
        <5> QED
          BY <4>2, <5>1, <5>2, <2>2
             DEF command_test, command_switch, command_exec, command_readb
      <4>3. PICK j \in 1..Len(issued) : command_writeb(j)
        BY <4>1, <4>2 DEF Commands
      <4> QED
        BY <4>3, <1>2 DEF command_writeb
    <3>2. c.addr < Limit8086 /\ c.count < Word
      BY <1>1, <1>a, <2>2 DEF Accepted
    <3>3. /\ Stage2.wrap \in Nat \ {0} /\ Stage2.limit \in Nat
          /\ Stage2.wrap = Word \/ Stage2.wrap = Cells + 1
          /\ Stage2.limit >= Limit8086 \/ Stage2.limit = Cells
          /\ Cells \in Nat /\ Word \in Nat /\ Limit8086 \in Nat
      BY Stage2Facts, SerialConstants DEF SerialInv, TypeOK
    <3>4. c.count % Stage2.wrap = c.count
      <4>1. c.count < Stage2.wrap
        BY <3>2, <3>3, <1>c
      <4> QED
        BY <4>1, <3>3, <1>c, ModFacts
    <3>5. Refused(k) => c.count = 0
      BY <3>2, <3>3, <1>c DEF Refused
    <3>6. \/ tpc' = "line" /\ c.count = 0
          \/ tpc' = "payload" /\ left' = c.count
      BY <3>1, <3>4, <3>5, <1>u DEF command_writeb
    <3> QED
      BY <3>6, <2>2, <1>c, <1>u DEF Rest
  <2> QED
    BY <2>1, <2>2
<1>4. Covered(toTarget, issued, 1 + Size(c))
  BY <1>a, <1>1 DEF Lines
<1>5. Covered(Tail(toTarget), issued, Size(c))
  <2>1. /\ issued \in Seq(Calls) /\ toTarget \in Seq(Symbols)
        /\ Numbered(toTarget, Len(issued))
    BY DEF SerialInv, TypeOK, Streams
  <2>2. 1 + Size(c) \in Nat /\ 1 + Size(c) <= Size(c) + 1
    BY <1>c
  <2>3. toTarget[1].byte # "cmd"
    BY <1>1
  <2> HIDE DEF c
  <2> QED
    BY <1>4, <1>c, <1>u, <2>1, <2>2, <2>3, CoveredTail
<1>6. Len(in_buf') <= 1 /\ LineIsCommand'
  BY <1>u DEF LineIsCommand
<1> QED
  BY <1>u, <1>3, <1>5, <1>6

LEMMA LinesByte == SerialInv /\ Lines /\ writeb_byte => Lines'
<1> SUFFICES ASSUME SerialInv, Lines, writeb_byte, Accepted'
             PROVE  /\ Len(in_buf') <= 1 /\ LineIsCommand'
                    /\ Covered(toTarget', issued', Rest')
  BY DEF Lines
<1>u. /\ UNCHANGED <<issued, in_buf>> /\ tpc = "payload" /\ toTarget # <<>>
      /\ toTarget' = Tail(toTarget) /\ left' = left - 1
      /\ \/ left = 1 /\ tpc' = "line"
         \/ left > 1 /\ tpc' = "payload"
  BY DEF writeb_byte, hostVars
<1>a. Accepted
  BY <1>u DEF Accepted
<1>t. /\ issued \in Seq(Calls) /\ toTarget \in Seq(Symbols)
      /\ Numbered(toTarget, Len(issued)) /\ in_buf = <<>> /\ left \in Nat \ {0}
  BY <1>u, SerialConstants DEF SerialInv, TypeOK, Streams, Work
<1>1. Covered(toTarget, issued, left)
  BY <1>a, <1>u DEF Lines, Rest
<1>2. toTarget[1].byte # "cmd"
  <2> DEFINE c == issued[cur]
             n == bx - c.addr
  <2>1. toTarget[1] = Symbol(c.data[n + 1], cur)
    BY <1>u, <1>t DEF SerialInv, DataIsOwn
  <2>2. /\ c \in Calls /\ c.cmd = "WRITEB" /\ bx >= c.addr
        /\ bx + left <= c.addr + c.count
    BY <1>u, IssuedFacts DEF SerialInv, Work
  <2>3. /\ c.addr \in Nat /\ c.count \in Nat /\ bx \in Nat
        /\ \A j \in 1..c.count : c.data[j] \in Bytes
    BY <2>2, CallFacts, SerialConstants DEF SerialInv, TypeOK, Size
  <2> HIDE DEF c
  <2>l. left \in Nat /\ left >= 1
    BY <1>t
  <2>4. n + 1 \in 1..c.count
    BY <2>2, <2>3, <2>l
  <2> QED
    BY <2>1, <2>3, <2>4 DEF Bytes, Symbol
<1>3. Rest' = left - 1
  BY <1>u, <1>t DEF Rest
<1>4. Covered(Tail(toTarget), issued, left - 1)
  <2> DEFINE b == left - 1
  <2>1. b \in Nat /\ left <= b + 1 /\ left \in Nat
    BY <1>t
  <2> HIDE DEF b
  <2>2. Covered(Tail(toTarget), issued, b)
    BY <1>1, <1>2, <1>t, <1>u, <2>1, CoveredTail
  <2> QED
    BY <2>2 DEF b
<1>5. Len(in_buf') <= 1 /\ LineIsCommand'
  BY <1>u, <1>t DEF LineIsCommand
<1> QED
  BY <1>u, <1>3, <1>4, <1>5

LEMMA NextLines == SerialInv /\ Lines /\ [Next]_vars => Lines'
<1> SUFFICES ASSUME SerialInv, Lines, [Next]_vars PROVE Lines'
  OBVIOUS
<1>1. CASE HostCalls
  BY <1>1, LinesSend DEF HostCalls, remote_rs232_test, remote_rs232_switch,
     remote_rs232_exec, remote_rs232_write, remote_rs232_read
<1>2. CASE HostWaits \/ remote_rs232_configure \/ UNCHANGED vars
  <2>1. UNCHANGED <<issued, toTarget, targetVars>>
    BY <1>2 DEF HostWaits, remote_rs232_get_response, get_last_response, response_timeout,
       select_timeout, read_head, read_data, Return, remote_rs232_configure, vars, hostVars
  <2> QED
    BY <2>1, LinesSame DEF targetVars
<1>3. CASE Target
  BY <1>3, LinesChar, LinesCommand, LinesByte DEF Target
<1>4. CASE exec_returns
  BY <1>4, LinesSame DEF exec_returns, hostVars
<1> QED
  BY <1>1, <1>2, <1>3, <1>4 DEF Next

(* While every write is one that all modes accept, the target never takes  *)
(* data for a command line, however many answers the host gave up.         *)
THEOREM OnlyCommandLines == Spec => []AcceptedLines
<1>1. Init => Lines
  BY DEF Init, Lines, LineIsCommand, Covered
<1>2. Lines => AcceptedLines
  BY DEF Lines, Accepted, AcceptedLines
<1> QED
  BY <1>1, <1>2, NextLines, Invariance, PTL DEF Spec
=============================================================================
