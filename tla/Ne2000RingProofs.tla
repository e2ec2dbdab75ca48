-------------------------- MODULE Ne2000RingProofs --------------------------
(***************************************************************************)
(* Proofs about the ring of pages of the NE2000, for rings of every size,  *)
(* frames of any number of pages and any number of frames.                 *)
(*                                                                         *)
(* The frames of the ring are laid out one behind the other from the page  *)
(* the driver reads to CURR.  Pages are counted from the one the driver    *)
(* reads, so that the order of the ring is the order of the offsets.       *)
(***************************************************************************)
EXTENDS Ne2000Ring, SequenceTheorems, TLAPS

Ring == Start..End - 1
Size == End - Start

(* The number of the next frame to return, and of the next one stored.     *)
First == Len(returned) + 2
Free == Len(stored) + 1

(* In the memory r, a frame f of k pages begins at page p.                 *)
FrameIn(r, p, k, f) ==
    /\ r[p].part = "head" /\ r[p].frame = f
    /\ r[p].pages = k /\ r[p].next = After(p, k)
    /\ \A j \in 0..k - 1 : r[After(p, j)].frame = f

(* Frame i of those stored begins off[i] pages behind the one the driver   *)
(* reads, and CURR is behind the last of them.  CURR reaches the boundary  *)
(* only if the boundary is not in the ring.                                *)
Layout(off) ==
    /\ off \in [First..Free -> 0..Size - 1]
    /\ off[First] = 0
    /\ curr = After(cur_read, off[Free])
    /\ bnry >= Start => off[Free] # Size - 1
    /\ \A i, j \in First..Free : i <= j => off[i] <= off[j]
    /\ \A i \in First..Free - 1 :
          /\ off[i + 1] - off[i] \in PageCounts
          /\ FrameIn(ram, After(cur_read, off[i]), off[i + 1] - off[i], stored[i])

(* Before the first frame is stored nothing has happened.                  *)
Fresh ==
    /\ bnry = Start /\ curr = Start
    /\ prx = "clear" /\ pc = "idle" /\ returned = <<>>

(* The driver is where a frame begins, or where the next one will.         *)
InPlace ==
    /\ bnry \in Start - 1..End - 1
    /\ First <= Free
    /\ \E off \in [First..Free -> 0..Size - 1] : Layout(off)

(* The frame that has been copied and not been acknowledged yet.           *)
Copied ==
    pc = "reading" =>
        First < Free /\ got.frame = stored[First] /\ got.next = ram[cur_read].next

InOrder == \A i \in 1..Len(returned) : returned[i] = stored[i + 1]

RingInv ==
    /\ TypeOK
    /\ lost = "no" /\ stored = <<>> => Fresh
    /\ lost = "no" /\ stored # <<>> => InPlace /\ Copied /\ InOrder

-----------------------------------------------------------------------------
(* Going round the ring.                                                   *)

LEMMA RingSize ==
    /\ Byte \in Nat /\ Start \in Nat \ {0} /\ End \in Nat /\ End < Byte
    /\ Size \in Nat /\ Size >= 2 /\ End = Start + Size
    /\ \A k \in PageCounts : k \in 1..Size - 1
    /\ MaxFrames \in Nat
BY Ne2000Constants DEF Size

LEMMA AfterType ==
    ASSUME NEW p \in Ring, NEW m \in 0..Size
    PROVE  After(p, m) \in Ring /\ After(p, 0) = p /\ After(p, Size) = p
BY RingSize DEF After, Wrap, Ring, Size

LEMMA AfterAdds ==
    ASSUME NEW p \in Ring, NEW m \in Nat, NEW n \in Nat, m + n <= Size
    PROVE  After(After(p, m), n) = After(p, m + n)
BY RingSize DEF After, Wrap, Ring, Size

LEMMA AfterInjective ==
    ASSUME NEW p \in Ring, NEW m \in 0..Size - 1, NEW n \in 0..Size - 1,
           After(p, m) = After(p, n)
    PROVE  m = n
BY RingSize DEF After, Wrap, Ring, Size

LEMMA ModFacts ==
    ASSUME NEW n \in Nat, NEW w \in Nat \ {0}
    PROVE  n % w \in 0..w - 1 /\ (n < w => n % w = n)
<1>1. n % w \in 0..w - 1
  OBVIOUS
<1>2. n < w => n % w = n
  OBVIOUS
<1> QED
  BY <1>1, <1>2

(* The page the driver reads is the one behind the boundary.               *)
LEMMA ReadPage ==
    ASSUME bnry \in Start - 1..End - 1
    PROVE  /\ cur_read \in Ring
           /\ cur_read = IF bnry + 1 = End THEN Start ELSE bnry + 1
           /\ bnry >= Start => bnry = After(cur_read, Size - 1)
<1>0. bnry + 1 \in Nat /\ bnry + 1 < Byte /\ Byte \in Nat \ {0}
  BY RingSize
<1>1. (bnry + 1) % Byte = bnry + 1
  BY <1>0, ModFacts
<1>2. cur_read = IF bnry + 1 = End THEN Start ELSE bnry + 1
  BY <1>1, RingSize DEF cur_read
<1>3. cur_read \in Ring
  BY <1>2, RingSize DEF Ring
<1>4. bnry >= Start => bnry = After(cur_read, Size - 1)
  BY <1>2, RingSize DEF After, Wrap, Size
<1> QED
  BY <1>2, <1>3, <1>4

(* The boundary before page p makes the driver read page p.                *)
LEMMA PageBefore ==
    ASSUME NEW p \in Ring, bnry' = (p - 1) % Byte
    PROVE  bnry' = p - 1 /\ bnry' \in Start - 1..End - 1 /\ cur_read' = p
<1>1. /\ p - 1 \in Nat /\ p - 1 < Byte /\ p \in Nat /\ p < End /\ p < Byte
      /\ Byte \in Nat \ {0}
  BY RingSize DEF Ring
<1>2. bnry' = p - 1
  BY <1>1, ModFacts
<1>a. bnry' + 1 = p
  BY <1>1, <1>2
<1>3. (bnry' + 1) % Byte = p
  BY <1>1, <1>a, ModFacts
<1>4. cur_read' = p
  BY <1>1, <1>3, RingSize DEF cur_read
<1> QED
  BY <1>1, <1>2, <1>4, RingSize DEF Ring

-----------------------------------------------------------------------------
(* Types.                                                                  *)

LEMMA TypeParts ==
    ASSUME TypeOK
    PROVE  /\ bnry \in 0..Byte - 1 /\ curr \in Ring
           /\ got.frame \in 0..Garbage /\ got.next \in 0..Byte - 1
           /\ arrived \in 0..MaxFrames /\ lost \in {"no", "first", "lapped"}
           /\ stored \in Seq(1..MaxFrames) /\ returned \in Seq(1..Garbage)
           /\ \A p \in 0..Byte - 1 :
                 ram[p].frame \in 0..MaxFrames /\ ram[p].next \in 0..Byte - 1
<1>1. /\ bnry \in 0..Byte - 1 /\ curr \in Ring
      /\ got \in [frame : 0..Garbage, next : 0..Byte - 1]
      /\ arrived \in 0..MaxFrames /\ lost \in {"no", "first", "lapped"}
      /\ stored \in Seq(1..MaxFrames) /\ returned \in Seq(1..Garbage)
  BY DEF TypeOK, Ring
<1>2. ASSUME NEW p \in 0..Byte - 1
      PROVE  ram[p].frame \in 0..MaxFrames /\ ram[p].next \in 0..Byte - 1
  <2>1. ram[p] \in [part : {"head", "body", "other"}, frame : 0..MaxFrames,
                    pages : PageCounts \cup {1}, next : 0..Byte - 1]
    BY DEF TypeOK
  <2> QED
    BY <2>1
<1> QED
  BY <1>1, <1>2

LEMMA InitType == Init => TypeOK
<1> SUFFICES ASSUME Init PROVE TypeOK
  OBVIOUS
<1> DEFINE R == [part : {"head", "body", "other"}, frame : 0..MaxFrames,
                 pages : PageCounts \cup {1}, next : 0..Byte - 1]
<1>1. [part |-> "other", frame |-> 0, pages |-> 1, next |-> 0] \in R
  BY RingSize
<1>2. ram \in [0..Byte - 1 -> R]
  BY <1>1 DEF Init
<1>3. got \in [frame : 0..Garbage, next : 0..Byte - 1]
  BY RingSize DEF Init, Garbage
<1>4. /\ bnry \in 0..Byte - 1 /\ curr \in Start..End - 1
      /\ xmit \in 0..Garbage /\ txp \in 0..Garbage /\ arrived \in 0..MaxFrames
  BY RingSize DEF Init, ne2000_init, Garbage
<1>5. /\ prx \in {"set", "clear"}
      /\ pc \in {"idle", "reading", "handling", "building", "sending", "handled"}
      /\ lost \in {"no", "first", "lapped"}
      /\ stored \in Seq(1..MaxFrames) /\ returned \in Seq(1..Garbage)
  BY DEF Init, ne2000_init
<1> QED
  BY <1>2, <1>3, <1>4, <1>5 DEF TypeOK

LEMMA HeadersType ==
    ASSUME TypeOK, NEW h \in Headers(cur_read)
    PROVE  h \in [frame : 0..Garbage, next : 0..Byte - 1]
<1>1. cur_read \in 0..Byte - 1
  <2>1. bnry + 1 \in Nat /\ Byte \in Nat \ {0}
    BY RingSize DEF TypeOK
  <2>2. (bnry + 1) % Byte \in 0..Byte - 1
    BY <2>1, ModFacts
  <2> QED
    BY <2>2, RingSize DEF cur_read
<1>2. /\ ram[cur_read].frame \in 0..Garbage /\ Garbage \in 0..Garbage /\ 0 \in 0..Garbage
      /\ ram[cur_read].next \in 0..Byte - 1
  BY <1>1, TypeParts, RingSize DEF Garbage
<1> QED
  BY <1>2 DEF Headers

(* What the card does to its memory when it stores a frame.                *)
LEMMA StoredPages ==
    ASSUME TypeOK, NEW k \in PageCounts, CardReceive(k)
    PROVE  /\ ram' \in [0..Byte - 1 ->
                  [part : {"head", "body", "other"}, frame : 0..MaxFrames,
                   pages : PageCounts \cup {1}, next : 0..Byte - 1]]
           /\ ram'[curr] = [part |-> "head", frame |-> arrived + 1,
                            pages |-> k, next |-> After(curr, k)]
           /\ \A j \in 0..k - 1 : ram'[After(curr, j)].frame = arrived + 1
           /\ \A p \in Ring : (\A j \in 0..k - 1 : p # After(curr, j)) => ram'[p] = ram[p]
           /\ curr' = After(curr, k) /\ curr' \in Ring
           /\ arrived' = arrived + 1 /\ arrived + 1 \in 1..MaxFrames
           /\ stored' = Append(stored, arrived + 1)
           /\ prx' = "set"
           /\ UNCHANGED <<bnry, pc, got, returned, txVars>>
<1> DEFINE R == [part : {"head", "body", "other"}, frame : 0..MaxFrames,
                 pages : PageCounts \cup {1}, next : 0..Byte - 1]
           pages == {After(curr, j) : j \in 0..k - 1}
           page(p) == [part |-> IF p = curr THEN "head" ELSE "body", frame |-> arrived + 1,
                       pages |-> k, next |-> After(curr, k)]
<1>1. curr \in Ring /\ k \in 1..Size - 1 /\ Ring \subseteq 0..Byte - 1
  <2>1. curr \in Ring
    BY TypeParts
  <2>2. k \in 1..Size - 1
    BY RingSize
  <2>3. Byte \in Nat /\ Start \in Nat /\ End \in Nat /\ End < Byte
    BY RingSize
  <2>4. Ring \subseteq 0..Byte - 1
    BY <2>3 DEF Ring
  <2> QED
    BY <2>1, <2>2, <2>4
<1>e. arrived \in 0..MaxFrames /\ arrived < MaxFrames
  BY TypeParts DEF CardReceive
<1>2. arrived + 1 \in 1..MaxFrames /\ After(curr, k) \in Ring /\ After(curr, 0) = curr
  BY <1>1, <1>e, AfterType, RingSize
<1>3. ram' = [p \in DOMAIN ram |-> IF p \notin pages THEN ram[p] ELSE page(p)]
  BY DEF CardReceive
<1>4. \A p : page(p) \in R
  <2>1. After(curr, k) \in 0..Byte - 1
    BY <1>1, <1>2
  <2>2. arrived + 1 \in 0..MaxFrames
    BY <1>e, RingSize
  <2> QED
    BY <2>1, <2>2
<1>5. ram \in [0..Byte - 1 -> R]
  BY DEF TypeOK
<1>6. \A j \in 0..k - 1 : After(curr, j) \in Ring /\ After(curr, j) \in pages
  BY <1>1, AfterType, RingSize
<1>7. curr \in pages
  BY <1>1, <1>2, <1>6, RingSize
<1>8. \A p \in Ring : (\A j \in 0..k - 1 : p # After(curr, j)) => p \notin pages
  OBVIOUS
<1>a. \A p : page(p).frame = arrived + 1
  OBVIOUS
<1>b. page(curr) = [part |-> "head", frame |-> arrived + 1,
                    pages |-> k, next |-> After(curr, k)]
  OBVIOUS
<1>c. ram' \in [0..Byte - 1 -> R]
  <2> HIDE DEF page, pages, R
  <2> QED
    BY <1>3, <1>4, <1>5
<1>d. /\ ram'[curr] = page(curr)
      /\ \A p \in Ring : p \in pages => ram'[p] = page(p)
      /\ \A p \in Ring : p \notin pages => ram'[p] = ram[p]
  <2> HIDE DEF page, pages, R
  <2> QED
    BY <1>1, <1>3, <1>5, <1>7
<1>9. \A j \in 0..k - 1 : ram'[After(curr, j)].frame = arrived + 1
  <2> HIDE DEF page, pages, R
  <2> QED
    BY <1>6, <1>a, <1>d
<1>10. \A p \in Ring : (\A j \in 0..k - 1 : p # After(curr, j)) => ram'[p] = ram[p]
  <2> HIDE DEF page, pages, R
  <2> QED
    BY <1>8, <1>d
<1>11. /\ curr' = After(curr, k) /\ arrived' = arrived + 1 /\ prx' = "set"
       /\ stored' = Append(stored, arrived + 1)
       /\ UNCHANGED <<bnry, pc, got, returned, txVars>>
  BY DEF CardReceive
<1> QED
  BY <1>2, <1>9, <1>10, <1>11, <1>b, <1>c, <1>d

LEMMA ReceiveType ==
    ASSUME TypeOK, NEW k \in PageCounts, CardReceive(k)
    PROVE  TypeOK'
<1>1. lost' \in {"no", "first", "lapped"}
  BY TypeParts DEF CardReceive
<1>2. stored' \in Seq(1..MaxFrames) /\ arrived' \in 0..MaxFrames
  <2>1. /\ stored \in Seq(1..MaxFrames) /\ arrived + 1 \in 1..MaxFrames
        /\ stored' = Append(stored, arrived + 1) /\ arrived' = arrived + 1
    BY StoredPages, TypeParts
  <2> QED
    BY <2>1, RingSize
<1>3. curr' \in Start..End - 1
  BY StoredPages DEF Ring
<1> QED
  BY <1>1, <1>2, <1>3, StoredPages DEF TypeOK, txVars

LEMMA AcknowledgeType ==
    ASSUME TypeOK, ne2000_acknowledge
    PROVE  TypeOK'
<1>1. bnry' \in 0..Byte - 1
  <2>1. got.next - 1 \in Int /\ Byte \in Nat \ {0} /\ bnry' = (got.next - 1) % Byte
    BY TypeParts, RingSize DEF ne2000_acknowledge
  <2> QED
    BY <2>1
<1>2. returned' \in Seq(1..Garbage)
  <2>1. returned \in Seq(1..Garbage) /\ got.frame \in 0..Garbage
    BY TypeParts
  <2>2. Garbage \in Nat
    BY RingSize DEF Garbage
  <2>3. CASE got.frame = 0
    BY <2>1, <2>3 DEF ne2000_acknowledge
  <2>4. CASE got.frame # 0
    <3>1. got.frame \in 1..Garbage
      BY <2>1, <2>2, <2>4
    <3>2. returned' = Append(returned, got.frame)
      BY <2>4 DEF ne2000_acknowledge
    <3>3. Append(returned, got.frame) \in Seq(1..Garbage)
      BY <2>1, <3>1, AppendProperties
    <3> QED
      BY <3>2, <3>3
  <2> QED
    BY <2>3, <2>4
<1>3. /\ pc' \in {"idle", "handling"} /\ prx' = "clear"
      /\ UNCHANGED <<cardVars, got, txVars>>
  BY DEF ne2000_acknowledge
<1> QED
  BY <1>1, <1>2, <1>3 DEF TypeOK, cardVars, txVars

LEMMA NextType == TypeOK /\ [Next]_vars => TypeOK'
<1> SUFFICES ASSUME TypeOK, [Next]_vars PROVE TypeOK'
  OBVIOUS
<1>1. CASE ne2000_get_packet
  <2>1. got' \in [frame : 0..Garbage, next : 0..Byte - 1]
    BY <1>1, HeadersType DEF ne2000_get_packet
  <2> QED
    BY <1>1, <2>1 DEF ne2000_get_packet, TypeOK, cardVars, txVars
<1>2. CASE ne2000_acknowledge
  BY <1>2, AcknowledgeType
<1>3. CASE \E sz \in Sizes : ne2000_prepare_send_packet(sz)
  BY <1>3 DEF ne2000_prepare_send_packet, TypeOK, cardVars
<1>4. CASE ne2000_send_packet
  BY <1>4 DEF ne2000_send_packet, TypeOK, cardVars
<1>5. CASE ne2000_send_wait
  BY <1>5 DEF ne2000_send_wait, TypeOK, cardVars
<1>6. CASE ne2000_put_packet
  BY <1>6 DEF ne2000_put_packet, TypeOK, cardVars, txVars
<1>7. CASE \E k \in PageCounts : CardReceive(k)
  BY <1>7, ReceiveType
<1>8. CASE \E k \in PageCounts : CardMiss(k)
  <2>1. /\ arrived' \in 0..MaxFrames
        /\ UNCHANGED <<ram, curr, stored, lost, bnry, prx, pc, got, returned, xmit, txp>>
    BY <1>8, TypeParts, RingSize DEF CardMiss, txVars
  <2> QED
    BY <2>1 DEF TypeOK
<1>9. CASE CardTransmit
  <2>1. /\ txp' \in 0..Garbage
        /\ UNCHANGED <<ram, curr, arrived, stored, lost, bnry, prx, pc, got, returned, xmit>>
    BY <1>9, RingSize DEF CardTransmit, cardVars, Garbage
  <2> QED
    BY <2>1 DEF TypeOK
<1>10. CASE UNCHANGED vars
  BY <1>10 DEF vars, TypeOK, cardVars, txVars
<1> QED
  BY <1>1, <1>2, <1>3, <1>4, <1>5, <1>6, <1>7, <1>8, <1>9, <1>10 DEF Next, Driver, Card

(* What every variable is: the boundary stays a byte whatever page the     *)
(* header names, and the frames are numbers of arrivals or garbage.        *)
THEOREM RingTypeCorrect == Spec => []TypeOK
BY InitType, NextType, PTL DEF Spec

-----------------------------------------------------------------------------
(* The layout of the ring.                                                 *)

LEMMA HistoryTypes ==
    ASSUME TypeOK
    PROVE  /\ Len(returned) \in Nat /\ Len(stored) \in Nat
           /\ First \in Nat /\ First >= 2 /\ Free \in Nat
           /\ stored # <<>> => Len(stored) >= 1
<1>1. returned \in Seq(1..Garbage) /\ stored \in Seq(1..MaxFrames)
  BY TypeParts
<1>2. Len(returned) \in Nat /\ Len(stored) \in Nat
  BY <1>1
<1>3. stored # <<>> => Len(stored) >= 1
  BY <1>1
<1> QED
  BY <1>2, <1>3 DEF First, Free

LEMMA LayoutFacts ==
    ASSUME TypeOK, InPlace, NEW off, Layout(off)
    PROVE  /\ cur_read \in Ring
           /\ off[First] = 0 /\ curr = After(cur_read, off[Free])
           /\ bnry >= Start => off[Free] # Size - 1
           /\ \A i \in First..Free : off[i] \in 0..Size - 1 /\ off[i] <= off[Free]
           /\ \A i, j \in First..Free : i <= j => off[i] <= off[j]
           /\ \A i \in First..Free - 1 :
                 /\ off[i + 1] - off[i] \in PageCounts /\ off[i + 1] - off[i] \in 1..Size - 1
                 /\ After(cur_read, off[i]) \in Ring
                 /\ FrameIn(ram, After(cur_read, off[i]), off[i + 1] - off[i], stored[i])
<1>1. cur_read \in Ring
  BY ReadPage DEF InPlace
<1>2. /\ off \in [First..Free -> 0..Size - 1]
      /\ off[First] = 0 /\ curr = After(cur_read, off[Free])
      /\ bnry >= Start => off[Free] # Size - 1
      /\ \A i, j \in First..Free : i <= j => off[i] <= off[j]
      /\ \A i \in First..Free - 1 :
            /\ off[i + 1] - off[i] \in PageCounts
            /\ FrameIn(ram, After(cur_read, off[i]), off[i + 1] - off[i], stored[i])
  BY DEF Layout
<1>3. First <= Free /\ First \in Nat /\ Free \in Nat
  BY HistoryTypes DEF InPlace
<1>4. \A i \in First..Free : off[i] \in 0..Size - 1 /\ off[i] <= off[Free]
  BY <1>2, <1>3
<1>5. \A i \in First..Free - 1 :
         off[i + 1] - off[i] \in 1..Size - 1 /\ After(cur_read, off[i]) \in Ring
  <2> TAKE i \in First..Free - 1
  <2>1. off[i + 1] - off[i] \in 1..Size - 1
    BY <1>2, RingSize
  <2>2. off[i] \in 0..Size
    BY <1>3, <1>4, RingSize
  <2> QED
    BY <1>1, <2>1, <2>2, AfterType
<1> QED
  BY <1>1, <1>2, <1>4, <1>5

(* A step that leaves the ring alone.                                      *)
LEMMA SamePlace ==
    ASSUME InPlace, InOrder, UNCHANGED <<ram, curr, bnry, stored, returned>>
    PROVE  InPlace' /\ InOrder' /\ cur_read' = cur_read
<1>1. cur_read' = cur_read /\ First' = First /\ Free' = Free
  BY DEF cur_read, First, Free
<1>2. PICK off \in [First..Free -> 0..Size - 1] : Layout(off)
  BY DEF InPlace
<1>3. Layout(off)'
  BY <1>1, <1>2 DEF Layout, FrameIn
<1>4. InPlace'
  BY <1>1, <1>3 DEF InPlace
<1> QED
  BY <1>1, <1>4 DEF InOrder

(* The driver copies the frame the card stored behind those returned.      *)
LEMMA CopiesFirst ==
    ASSUME TypeOK, InPlace, ne2000_get_packet
    PROVE  /\ First < Free
           /\ got'.frame = stored[First] /\ got'.next = ram[cur_read].next
<1>1. PICK off \in [First..Free -> 0..Size - 1] : Layout(off)
  BY DEF InPlace
<1>2. First \in Nat /\ Free \in Nat /\ First <= Free
  BY HistoryTypes DEF InPlace
<1>3. cur_read # curr /\ got' \in Headers(cur_read)
  BY DEF ne2000_get_packet
<1>4. cur_read \in Ring /\ After(cur_read, 0) = cur_read
  BY <1>1, LayoutFacts, AfterType, RingSize
<1>5. First < Free
  <2>1. First # Free
    BY <1>1, <1>3, <1>4, LayoutFacts
  <2> QED
    BY <1>2, <2>1
<1> DEFINE k == off[First + 1] - off[First]
<1>6. First \in First..Free - 1
  BY <1>2, <1>5
<1>7. FrameIn(ram, cur_read, k, stored[First])
  BY <1>1, <1>4, <1>6, LayoutFacts
<1> HIDE DEF k
<1>8. /\ ram[cur_read].part = "head" /\ ram[cur_read].frame = stored[First]
      /\ \A j \in 0..ram[cur_read].pages - 1 :
            ram[After(cur_read, j)].frame = ram[cur_read].frame
  BY <1>7 DEF FrameIn
<1>9. got' = [frame |-> stored[First], next |-> ram[cur_read].next]
  BY <1>3, <1>8 DEF Headers
<1> QED
  BY <1>5, <1>9

(* The acknowledged frame is taken off the layout.                         *)
LEMMA AcknowledgePlace ==
    ASSUME TypeOK, InPlace, Copied, InOrder, ne2000_acknowledge
    PROVE  InPlace' /\ InOrder'
<1>1. PICK off \in [First..Free -> 0..Size - 1] : Layout(off)
  BY DEF InPlace
<1>2. /\ First \in Nat /\ First >= 2 /\ Free \in Nat
      /\ Len(returned) \in Nat /\ Len(stored) \in Nat
  BY HistoryTypes
<1>3. /\ First < Free /\ got.frame = stored[First] /\ got.next = ram[cur_read].next
      /\ bnry' = (got.next - 1) % Byte
      /\ UNCHANGED <<ram, curr, stored>>
  BY DEF ne2000_acknowledge, Copied, cardVars
<1>4. cur_read \in Ring /\ After(cur_read, 0) = cur_read
  BY <1>1, LayoutFacts, AfterType, RingSize
<1> DEFINE k == off[First + 1]
<1>5. First \in First..Free - 1 /\ First + 1 \in First..Free
  BY <1>2, <1>3
<1>6. /\ k - 0 \in 1..Size - 1 /\ k \in 0..Size - 1
      /\ FrameIn(ram, cur_read, k - 0, stored[First])
  BY <1>1, <1>4, <1>5, LayoutFacts
<1>7. k \in 1..Size - 1 /\ k - 0 = k
  BY <1>6, RingSize
<1>8. got.next = After(cur_read, k) /\ got.next \in Ring
  BY <1>3, <1>4, <1>6, <1>7, AfterType, RingSize DEF FrameIn
<1>9. /\ bnry' = got.next - 1 /\ bnry' \in Start - 1..End - 1
      /\ cur_read' = After(cur_read, k)
  BY <1>3, <1>8, PageBefore
<1>10. stored[First] \in 1..MaxFrames
  <2>1. stored \in Seq(1..MaxFrames) /\ First \in 1..Len(stored)
    BY <1>2, <1>3, TypeParts DEF Free
  <2> QED
    BY <2>1, ElementOfSeq
<1>11. returned' = Append(returned, stored[First])
  BY <1>3, <1>10, RingSize DEF ne2000_acknowledge
<1>12. /\ returned \in Seq(1..Garbage) /\ stored[First] \in 1..Garbage
       /\ First = Len(returned) + 2
  BY <1>10, TypeParts, RingSize DEF First, Garbage
<1>13. Len(returned') = Len(returned) + 1
  BY <1>11, <1>12
<1>14. First' = First + 1 /\ Free' = Free
  BY <1>2, <1>3, <1>13 DEF First, Free
<1>15. InOrder'
  <2> SUFFICES ASSUME NEW i \in 1..Len(returned') PROVE returned'[i] = stored[i + 1]
    BY <1>3 DEF InOrder
  <2>1. CASE i = Len(returned) + 1
    <3>1. returned'[i] = stored[First]
      BY <1>2, <1>11, <1>12, <2>1
    <3>2. i + 1 = First
      BY <1>2, <1>12, <2>1
    <3> QED
      BY <3>1, <3>2
  <2>2. CASE i # Len(returned) + 1
    <3>1. i \in 1..Len(returned)
      BY <1>2, <1>13, <2>2
    <3>2. returned'[i] = returned[i]
      BY <1>11, <1>12, <3>1
    <3> QED
      BY <3>1, <3>2 DEF InOrder
  <2> QED
    BY <2>1, <2>2
<1> HIDE DEF k
<1>a. \A i \in First + 1..Free : off[i] \in 0..Size - 1 /\ k <= off[i]
  <2> TAKE i \in First + 1..Free
  <2>1. i \in First..Free /\ First + 1 <= i
    BY <1>2
  <2> QED
    BY <1>1, <1>5, <2>1, LayoutFacts DEF k
<1>b. \A i \in First + 1..Free : off[i] - k \in 0..Size - 1
  BY <1>7, <1>a, RingSize
<1>17. PICK new \in [First + 1..Free -> 0..Size - 1] :
          \A i \in First + 1..Free : new[i] = off[i] - k
  <2> DEFINE g == [i \in First + 1..Free |-> off[i] - k]
  <2>1. g \in [First + 1..Free -> 0..Size - 1]
    BY <1>b
  <2> QED
    BY <2>1
<1>16. \A i \in First + 1..Free : /\ off[i] \in 0..Size - 1 /\ k <= off[i]
                                  /\ new[i] = off[i] - k
  BY <1>17, <1>a
<1>18. \A i \in First + 1..Free : After(After(cur_read, k), new[i]) = After(cur_read, off[i])
  <2> TAKE i \in First + 1..Free
  <2>1. /\ new[i] = off[i] - k /\ k \in Nat /\ off[i] - k \in Nat
        /\ k + (off[i] - k) = off[i] /\ off[i] <= Size
    BY <1>7, <1>16, RingSize
  <2>2. After(After(cur_read, k), off[i] - k) = After(cur_read, k + (off[i] - k))
    BY <1>4, <2>1, AfterAdds
  <2> QED
    BY <2>1, <2>2
<1>19. /\ First + 1 \in First + 1..Free /\ Free \in First + 1..Free
       /\ \A i \in First + 1..Free - 1 :
             /\ i \in First + 1..Free /\ i + 1 \in First + 1..Free
             /\ i \in First..Free - 1
       /\ \A i \in First + 1..Free : i \in First..Free
  BY <1>2, <1>3
<1>20. new[First + 1] = 0
  BY <1>7, <1>16, <1>19 DEF k
<1>21. curr = After(After(cur_read, k), new[Free])
  BY <1>1, <1>18, <1>19, LayoutFacts
<1>22. new[Free] # Size - 1
  BY <1>7, <1>16, <1>19, RingSize
<1>23. \A i, j \in First + 1..Free : i <= j => new[i] <= new[j]
  <2> SUFFICES ASSUME NEW i \in First + 1..Free, NEW j \in First + 1..Free, i <= j
               PROVE  new[i] <= new[j]
    OBVIOUS
  <2>1. off[i] <= off[j]
    BY <1>1, <1>19, LayoutFacts
  <2> QED
    BY <1>7, <1>16, <2>1
<1>24. \A i \in First + 1..Free - 1 :
          /\ new[i + 1] - new[i] \in PageCounts
          /\ FrameIn(ram, After(After(cur_read, k), new[i]), new[i + 1] - new[i], stored[i])
  <2> TAKE i \in First + 1..Free - 1
  <2>1. new[i + 1] - new[i] = off[i + 1] - off[i]
    BY <1>7, <1>16, <1>19
  <2>2. After(After(cur_read, k), new[i]) = After(cur_read, off[i])
    BY <1>18, <1>19
  <2> QED
    BY <1>1, <1>19, <2>1, <2>2, LayoutFacts
<1>25. Layout(new)'
  BY <1>3, <1>9, <1>14, <1>17, <1>20, <1>21, <1>22, <1>23, <1>24 DEF Layout, FrameIn
<1>26. First' <= Free'
  BY <1>2, <1>3, <1>14
<1> QED
  BY <1>9, <1>14, <1>15, <1>17, <1>25, <1>26 DEF InPlace

(* CURR goes on to the page the driver reads, and in the ring it meets the *)
(* boundary one page before that.                                          *)
LEMMA CurrGoesOn ==
    ASSUME TypeOK, InPlace, NEW off, Layout(off)
    PROVE  /\ curr \in Ring /\ off[Free] \in 0..Size - 1
           /\ \A j \in Nat : off[Free] + j <= Size =>
                 After(curr, j) = After(cur_read, off[Free] + j)
           /\ After(curr, Size - off[Free]) = cur_read
           /\ bnry >= Start => /\ off[Free] \in 0..Size - 2
                               /\ After(curr, Size - 1 - off[Free]) = bnry
<1> DEFINE o == off[Free]
<1>1. Free \in First..Free
  BY HistoryTypes DEF InPlace
<1>2. o \in 0..Size - 1 /\ cur_read \in Ring /\ curr = After(cur_read, o)
  BY <1>1, LayoutFacts
<1>3. bnry >= Start => o # Size - 1 /\ bnry = After(cur_read, Size - 1)
  BY LayoutFacts, ReadPage DEF InPlace
<1> HIDE DEF o
<1>4. \A j \in Nat : o + j <= Size => After(curr, j) = After(cur_read, o + j)
  BY <1>2, AfterAdds, RingSize
<1>5. /\ Size - o \in Nat /\ o + (Size - o) = Size
      /\ Size - 1 - o \in Nat /\ o + (Size - 1 - o) = Size - 1
      /\ o # Size - 1 => o \in 0..Size - 2
      /\ o \in 0..Size /\ Size - 1 <= Size
  BY <1>2, RingSize
<1>6. After(curr, Size - o) = cur_read
  BY <1>2, <1>4, <1>5, AfterType, RingSize
<1>7. After(curr, Size - 1 - o) = After(cur_read, Size - 1)
  BY <1>4, <1>5, RingSize
<1>8. curr \in Ring
  BY TypeParts
<1> QED
  BY <1>2, <1>3, <1>4, <1>5, <1>6, <1>7, <1>8 DEF o

LEMMA Overtaken ==
    ASSUME TypeOK, InPlace, NEW k \in PageCounts, Fits(k),
           NEW n \in 1..k, After(curr, n) = cur_read
    PROVE  bnry = Start - 1
<1>1. PICK off \in [First..Free -> 0..Size - 1] : Layout(off)
  BY DEF InPlace
<1> DEFINE o == off[Free]
<1>2. /\ o \in 0..Size - 1
      /\ \A j \in Nat : o + j <= Size => After(curr, j) = After(cur_read, o + j)
      /\ bnry >= Start => o \in 0..Size - 2 /\ After(curr, Size - 1 - o) = bnry
  BY <1>1, CurrGoesOn
<1>3. bnry \in Start - 1..End - 1 /\ cur_read \in Ring
  BY ReadPage DEF InPlace
<1>4. k \in 1..Size - 1 /\ n \in Nat /\ n >= 1 /\ n <= k
  BY RingSize
<1> HIDE DEF o
<1>5. o + n >= Size
  <2> SUFFICES ASSUME o + n < Size PROVE FALSE
    BY <1>2, <1>4, RingSize
  <2>1. o + n \in 0..Size - 1 /\ 0 \in 0..Size - 1 /\ o + n # 0 /\ o + n <= Size
    BY <1>2, <1>4, RingSize
  <2>2. After(cur_read, o + n) = cur_read
    BY <1>2, <1>4, <2>1
  <2>3. After(cur_read, 0) = cur_read
    BY <1>3, AfterType, RingSize
  <2> QED
    BY <1>3, <2>1, <2>2, <2>3, AfterInjective
<1>6. ~ (bnry >= Start)
  <2> SUFFICES ASSUME bnry >= Start PROVE FALSE
    OBVIOUS
  <2>1. Size - 1 - o \in 1..k
    BY <1>2, <1>4, <1>5, RingSize
  <2> QED
    BY <1>2, <2>1 DEF Fits
<1> QED
  BY <1>3, <1>6, RingSize

(* The page the driver reads stays as it is while a frame is there.        *)
LEMMA FirstStays ==
    ASSUME TypeOK, InPlace, NEW k \in PageCounts, CardReceive(k), First < Free,
           \A j \in 1..k : After(curr, j) # cur_read
    PROVE  ram'[cur_read] = ram[cur_read]
<1>1. PICK off \in [First..Free -> 0..Size - 1] : Layout(off)
  BY DEF InPlace
<1>2. First \in Nat /\ Free \in Nat
  BY HistoryTypes
<1>3. First \in First..Free - 1 /\ First + 1 \in First..Free
  BY <1>2
<1>4. /\ off[First + 1] - 0 \in 1..Size - 1 /\ off[First + 1] \in 0..Size - 1
      /\ off[First + 1] <= off[Free]
  BY <1>1, <1>3, LayoutFacts
<1>5. /\ off[Free] \in 0..Size - 1 /\ curr = After(cur_read, off[Free])
      /\ cur_read \in Ring
  BY <1>1, CurrGoesOn, LayoutFacts
<1>6. curr # cur_read
  <2>1. off[Free] # 0 /\ 0 \in 0..Size - 1
    BY <1>4, <1>5, RingSize
  <2>2. After(cur_read, 0) = cur_read
    BY <1>5, AfterType, RingSize
  <2> QED
    BY <1>5, <2>1, <2>2, AfterInjective
<1>7. curr \in Ring /\ After(curr, 0) = curr
  BY TypeParts, AfterType, RingSize
<1>8. \A j \in 0..k - 1 : cur_read # After(curr, j)
  <2> TAKE j \in 0..k - 1
  <2>1. CASE j = 0
    BY <1>6, <1>7, <2>1
  <2>2. CASE j # 0
    <3>1. j \in 1..k
      BY <2>2, RingSize
    <3> QED
      BY <3>1
  <2> QED
    BY <2>1, <2>2
<1> QED
  BY <1>5, <1>8, StoredPages

(* The stored frame is put behind the layout.                              *)
LEMMA ReceivePlace ==
    ASSUME TypeOK, InPlace, NEW k \in PageCounts, CardReceive(k),
           \A j \in 1..k : After(curr, j) # cur_read
    PROVE  InPlace'
<1>1. PICK off \in [First..Free -> 0..Size - 1] : Layout(off)
  BY DEF InPlace
<1>2. /\ First \in Nat /\ First >= 2 /\ Free \in Nat /\ First <= Free
      /\ Len(stored) \in Nat
  BY HistoryTypes DEF InPlace
<1>3. /\ bnry \in Start - 1..End - 1 /\ cur_read \in Ring
      /\ k \in 1..Size - 1
  BY ReadPage, RingSize DEF InPlace
<1> DEFINE o == off[Free]
<1>4. /\ o \in 0..Size - 1 /\ curr \in Ring
      /\ \A j \in Nat : o + j <= Size => After(curr, j) = After(cur_read, o + j)
      /\ After(curr, Size - o) = cur_read
      /\ bnry >= Start => After(curr, Size - 1 - o) = bnry
  BY <1>1, CurrGoesOn
<1>5. Fits(k)
  BY DEF CardReceive
<1> HIDE DEF o
<1>6. o + k \in 0..Size - 1
  <2>1. ~ (o + k >= Size)
    <3> SUFFICES ASSUME o + k >= Size PROVE FALSE
      OBVIOUS
    <3>1. Size - o \in 1..k
      BY <1>3, <1>4, RingSize
    <3> QED
      BY <1>4, <3>1
  <2> QED
    BY <1>3, <1>4, <2>1, RingSize
<1>7. bnry >= Start => o + k # Size - 1
  <2> SUFFICES ASSUME bnry >= Start, o + k = Size - 1 PROVE FALSE
    OBVIOUS
  <2>1. Size - 1 - o = k /\ k \in 1..k
    BY <1>3, <1>4, RingSize
  <2> QED
    BY <1>4, <1>5, <2>1 DEF Fits
<1>8. /\ ram'[curr] = [part |-> "head", frame |-> arrived + 1,
                       pages |-> k, next |-> After(curr, k)]
      /\ \A j \in 0..k - 1 : ram'[After(curr, j)].frame = arrived + 1
      /\ \A p \in Ring : (\A j \in 0..k - 1 : p # After(curr, j)) => ram'[p] = ram[p]
      /\ curr' = After(curr, k)
      /\ arrived + 1 \in 1..MaxFrames /\ stored' = Append(stored, arrived + 1)
      /\ bnry' = bnry /\ returned' = returned
  BY StoredPages
<1>9. cur_read' = cur_read /\ First' = First
  BY <1>8 DEF cur_read, First
<1>10. /\ Free' = Free + 1 /\ stored'[Free] = arrived + 1
       /\ \A i \in First..Free - 1 : stored'[i] = stored[i]
  <2>1. stored \in Seq(1..MaxFrames)
    BY TypeParts
  <2>2. Len(stored') = Len(stored) + 1 /\ stored'[Len(stored) + 1] = arrived + 1
    BY <1>8, <2>1
  <2>3. \A i \in 1..Len(stored) : stored'[i] = stored[i]
    BY <1>8, <2>1
  <2>4. \A i \in First..Free - 1 : i \in 1..Len(stored)
    BY <1>2 DEF Free
  <2> QED
    BY <1>2, <2>2, <2>3, <2>4 DEF Free
<1>11. PICK new \in [First..Free + 1 -> 0..Size - 1] :
          new[Free + 1] = o + k /\ \A i \in First..Free : new[i] = off[i]
  <2> DEFINE g == [i \in First..Free + 1 |-> IF i = Free + 1 THEN o + k ELSE off[i]]
  <2>1. \A i \in First..Free + 1 : i # Free + 1 => i \in First..Free
    BY <1>2
  <2>2. g \in [First..Free + 1 -> 0..Size - 1]
    BY <1>1, <1>6, <2>1
  <2>3. Free + 1 \in First..Free + 1 /\ \A i \in First..Free : i \in First..Free + 1 /\ i # Free + 1
    BY <1>2
  <2> QED
    BY <2>2, <2>3
<1>12. /\ Free \in First..Free /\ First \in First..Free
       /\ \A i \in First..Free + 1 : i \in First..Free \/ i = Free + 1
       /\ \A i \in First..Free - 1 : i \in First..Free /\ i + 1 \in First..Free
       /\ \A i \in First..Free : i \in First..Free - 1 \/ i = Free
  BY <1>2
<1>13. new[First] = 0 /\ new[Free] = o
  BY <1>1, <1>11, <1>12, LayoutFacts DEF o
<1>14. curr' = After(cur_read, new[Free + 1])
  BY <1>3, <1>4, <1>6, <1>8, <1>11, RingSize
<1>15. \A i, j \in First..Free + 1 : i <= j => new[i] <= new[j]
  <2> SUFFICES ASSUME NEW i \in First..Free + 1, NEW j \in First..Free + 1, i <= j
               PROVE  new[i] <= new[j]
    OBVIOUS
  <2>1. CASE i = Free + 1
    <3>1. j = Free + 1
      BY <1>2, <2>1
    <3> QED
      BY <2>1, <3>1, <1>6, <1>11
  <2>2. CASE i # Free + 1 /\ j = Free + 1
    <3>1. i \in First..Free /\ off[i] <= o /\ off[i] \in Nat
      BY <1>1, <1>12, <2>2, LayoutFacts DEF o
    <3> QED
      BY <1>3, <1>4, <1>11, <2>2, <3>1
  <2>3. CASE i # Free + 1 /\ j # Free + 1
    <3>1. i \in First..Free /\ j \in First..Free
      BY <1>12, <2>3
    <3> QED
      BY <1>1, <1>11, <3>1, LayoutFacts
  <2> QED
    BY <2>1, <2>2, <2>3
<1>16. ASSUME NEW i \in First..Free - 1
       PROVE  /\ new[i + 1] - new[i] \in PageCounts
              /\ FrameIn(ram', After(cur_read, new[i]), new[i + 1] - new[i], stored'[i])
  <2> DEFINE m == off[i + 1] - off[i]
             p == After(cur_read, off[i])
  <2>1. /\ new[i] = off[i] /\ new[i + 1] = off[i + 1]
        /\ i + 1 \in First..Free /\ i \in First..Free
    BY <1>11, <1>12
  <2>2. /\ m \in PageCounts /\ m \in 1..Size - 1 /\ p \in Ring
        /\ FrameIn(ram, p, m, stored[i])
        /\ off[i] \in 0..Size - 1 /\ off[i + 1] \in 0..Size - 1 /\ off[i + 1] <= o
    BY <1>1, <2>1, LayoutFacts DEF o
  <2>3. off[i] + m = off[i + 1]
    BY <2>2
  <2>a. /\ off[i] \in 0..Size - 1 /\ off[i + 1] \in 0..Size - 1 /\ off[i + 1] <= o
        /\ m \in 1..Size - 1 /\ o \in 0..Size - 1 /\ Size \in Nat
    BY <2>2, <1>4, RingSize
  <2> HIDE DEF m
  <2>4. ASSUME NEW j \in 0..m - 1
        PROVE  After(p, j) \in Ring /\ ram'[After(p, j)] = ram[After(p, j)]
    <3>1. /\ off[i] + j \in 0..Size - 1 /\ off[i] + j < o /\ off[i] + j <= Size
          /\ j \in Nat /\ off[i] \in Nat
      BY <2>3, <2>a
    <3>2. After(p, j) = After(cur_read, off[i] + j)
      BY <1>3, <3>1, AfterAdds
    <3>3. After(p, j) \in Ring
      BY <1>3, <3>1, <3>2, AfterType, RingSize
    <3>4. ASSUME NEW n \in 0..k - 1 PROVE After(p, j) # After(curr, n)
      <4>1. o + n \in 0..Size - 1 /\ o + n # off[i] + j /\ o + n <= Size /\ n \in Nat
        BY <1>3, <1>4, <1>6, <3>1, RingSize
      <4>2. After(curr, n) = After(cur_read, o + n)
        BY <1>4, <4>1
      <4> QED
        BY <1>3, <3>1, <3>2, <4>1, <4>2, AfterInjective
    <3> QED
      BY <1>8, <3>3, <3>4
  <2>5. ram'[p] = ram[p]
    <3>1. 0 \in 0..m - 1 /\ After(p, 0) = p
      BY <2>2, AfterType, RingSize
    <3> QED
      BY <2>4, <3>1
  <2>6. stored'[i] = stored[i]
    BY <1>10
  <2> HIDE DEF p
  <2>7. FrameIn(ram', p, m, stored'[i])
    BY <2>2, <2>4, <2>5, <2>6 DEF FrameIn
  <2> QED
    BY <2>1, <2>2, <2>7 DEF m, p
<1>17. /\ new[Free + 1] - new[Free] = k
       /\ FrameIn(ram', After(cur_read, new[Free]), k, stored'[Free])
  <2>1. new[Free + 1] - new[Free] = k
    BY <1>3, <1>4, <1>11, <1>13
  <2>2. FrameIn(ram', curr, k, arrived + 1)
    BY <1>8 DEF FrameIn
  <2>3. After(cur_read, new[Free]) = curr
    BY <1>1, <1>13, LayoutFacts DEF o
  <2> QED
    BY <2>1, <2>2, <2>3, <1>10
<1>18. \A i \in First..Free :
          /\ new[i + 1] - new[i] \in PageCounts
          /\ FrameIn(ram', After(cur_read, new[i]), new[i + 1] - new[i], stored'[i])
  BY <1>12, <1>16, <1>17
<1>19. Free + 1 - 1 = Free /\ First <= Free + 1
  BY <1>2
<1>a. bnry' >= Start => new[Free + 1] # Size - 1
  BY <1>7, <1>8, <1>11
<1>b. First' = First /\ Free' = Free + 1 /\ Free' - 1 = Free /\ cur_read' = cur_read
  <2>1. First' = First /\ cur_read' = cur_read
    BY <1>9
  <2>2. Free' = Free + 1
    BY <1>10
  <2> QED
    BY <1>2, <2>1, <2>2
<1>c. new \in [First..Free + 1 -> 0..Size - 1]
  BY <1>11
<1>20. Layout(new)'
  BY <1>13, <1>14, <1>15, <1>18, <1>a, <1>b, <1>c DEF Layout
<1> QED
  BY <1>3, <1>8, <1>9, <1>10, <1>11, <1>19, <1>20 DEF InPlace

-----------------------------------------------------------------------------
(* The invariant.                                                          *)

(* A one-page frame, the first the card stores, takes the page before the  *)
(* one the driver reads.                                                   *)
LEMMA FirstPlace ==
    ASSUME TypeOK, Fresh, stored = <<>>, CardReceive(1), 1 \in PageCounts
    PROVE  InPlace' /\ InOrder'
<1>1. /\ bnry' = Start /\ curr' = After(Start, 1) /\ returned' = <<>>
      /\ stored' = Append(stored, arrived + 1) /\ arrived + 1 \in 1..MaxFrames
  BY StoredPages DEF Fresh
<1>2. Len(stored') = 1 /\ Len(returned') = 0
  BY <1>1
<1>3. First' = 2 /\ Free' = 2
  BY <1>2 DEF First, Free
<1>4. Start + 1 \in Ring /\ After(Start, 1) = Start + 1
  BY RingSize DEF Ring, After, Wrap, Size
<1> DEFINE q == Start + 1
<1>5. Start % Byte = Start /\ q - 1 = Start
  <2>1. Start \in Nat /\ Byte \in Nat \ {0} /\ Start < Byte
    BY RingSize
  <2>2. Start % Byte = Start
    BY <2>1, ModFacts
  <2> QED
    BY <2>1, <2>2
<1>a. bnry' = (q - 1) % Byte /\ q \in Ring
  <2>1. q \in Ring
    BY <1>4
  <2>2. bnry' = Start
    BY <1>1
  <2> HIDE DEF q
  <2> QED
    BY <1>5, <2>1, <2>2
<1>6. cur_read' = Start + 1
  <2> HIDE DEF q
  <2>1. cur_read' = q
    BY <1>a, PageBefore
  <2> QED
    BY <2>1 DEF q
<1>7. PICK new \in [2..2 -> 0..Size - 1] : new[2] = 0
  <2> DEFINE g == [i \in 2..2 |-> 0]
  <2>1. 0 \in 0..Size - 1 /\ 2 \in 2..2
    BY RingSize
  <2>2. g \in [2..2 -> 0..Size - 1] /\ g[2] = 0
    BY <2>1
  <2> QED
    BY <2>2
<1>8. After(Start + 1, 0) = Start + 1
  BY <1>4, AfterType, RingSize
<1>9. /\ new[2] # Size - 1
      /\ \A i, j \in 2..2 : i <= j => new[i] <= new[j]
  BY <1>7, RingSize
<1>10. Layout(new)'
  BY <1>1, <1>3, <1>4, <1>6, <1>7, <1>8, <1>9 DEF Layout
<1>11. Start \in Start - 1..End - 1
  BY RingSize
<1>12. InPlace'
  BY <1>1, <1>3, <1>7, <1>10, <1>11 DEF InPlace
<1> QED
  BY <1>2, <1>12 DEF InOrder

LEMMA ReceiveInv ==
    ASSUME RingInv, NEW k \in PageCounts, CardReceive(k)
    PROVE  RingInv'
<1>1. TypeOK /\ TypeOK'
  BY ReceiveType DEF RingInv
<1>2. stored' # <<>>
  <2>1. /\ stored \in Seq(1..MaxFrames) /\ arrived + 1 \in 1..MaxFrames
        /\ stored' = Append(stored, arrived + 1)
    BY <1>1, StoredPages, TypeParts
  <2>2. Len(stored') = Len(stored) + 1 /\ Len(stored) \in Nat
    BY <2>1
  <2> QED
    BY <2>2
<1>3. SUFFICES ASSUME lost' = "no" PROVE InPlace' /\ Copied' /\ InOrder'
  BY <1>1, <1>2 DEF RingInv
<1>4. /\ lost = "no"
      /\ stored = <<>> => ~(k > 1)
      /\ stored # <<>> => \A j \in 1..k : After(curr, j) # cur_read
  BY <1>3 DEF CardReceive
<1>5. CASE stored = <<>>
  <2>1. Fresh
    BY <1>4, <1>5 DEF RingInv
  <2>2. k = 1
    BY <1>4, <1>5, RingSize
  <2>3. pc' # "reading"
    BY <1>1, <2>1, StoredPages DEF Fresh
  <2> QED
    BY <1>1, <1>5, <2>1, <2>2, <2>3, FirstPlace DEF Copied
<1>6. CASE stored # <<>>
  <2>1. InPlace /\ Copied /\ InOrder
    BY <1>4, <1>6 DEF RingInv
  <2>2. InPlace'
    BY <1>1, <1>4, <1>6, <2>1, ReceivePlace
  <2>3. /\ bnry' = bnry /\ pc' = pc /\ got' = got /\ returned' = returned
        /\ stored' = Append(stored, arrived + 1)
    BY <1>1, StoredPages
  <2>4. /\ stored \in Seq(1..MaxFrames) /\ arrived + 1 \in 1..MaxFrames
        /\ Len(stored) \in Nat /\ Len(returned) \in Nat
        /\ First <= Free
    BY <1>1, <2>1, StoredPages, TypeParts, HistoryTypes DEF InPlace
  <2>5. /\ \A i \in 1..Len(stored) : stored'[i] = stored[i]
        /\ Len(stored') = Len(stored) + 1
    BY <2>3, <2>4
  <2>6. InOrder'
    <3>1. \A i \in 1..Len(returned) : i + 1 \in 1..Len(stored)
      BY <2>4 DEF First, Free
    <3> QED
      BY <2>1, <2>3, <2>5, <3>1 DEF InOrder
  <2>7. Copied'
    <3> SUFFICES ASSUME pc = "reading"
                 PROVE  /\ First' < Free' /\ got.frame = stored'[First']
                        /\ got.next = ram'[cur_read'].next
      BY <2>3 DEF Copied
    <3>1. First < Free /\ got.frame = stored[First] /\ got.next = ram[cur_read].next
      BY <2>1 DEF Copied
    <3>2. First' = First /\ cur_read' = cur_read /\ Free' = Free + 1
      BY <2>3, <2>4, <2>5 DEF First, Free, cur_read
    <3>3. First < Free + 1 /\ stored'[First] = stored[First]
      BY <2>4, <2>5, <3>1 DEF First, Free
    <3>4. ram'[cur_read] = ram[cur_read]
      BY <1>1, <1>4, <1>6, <2>1, <3>1, FirstStays
    <3> QED
      BY <3>1, <3>2, <3>3, <3>4
  <2> QED
    BY <2>2, <2>6, <2>7
<1> QED
  BY <1>5, <1>6

LEMMA AcknowledgeInv ==
    ASSUME RingInv, ne2000_acknowledge
    PROVE  RingInv'
<1>1. TypeOK /\ TypeOK'
  BY AcknowledgeType DEF RingInv
<1>2. SUFFICES ASSUME lost' = "no"
               PROVE  stored' # <<>> /\ InPlace' /\ Copied' /\ InOrder'
  BY <1>1 DEF RingInv
<1>3. lost = "no" /\ stored' = stored /\ pc = "reading" /\ pc' \in {"idle", "handling"}
  BY <1>2 DEF ne2000_acknowledge, cardVars
<1>4. stored # <<>>
  BY <1>3 DEF RingInv, Fresh
<1>5. InPlace /\ Copied /\ InOrder
  BY <1>3, <1>4 DEF RingInv
<1>6. InPlace' /\ InOrder'
  BY <1>1, <1>5, AcknowledgePlace
<1> QED
  BY <1>3, <1>4, <1>6 DEF Copied

LEMMA GetInv ==
    ASSUME RingInv, ne2000_get_packet
    PROVE  RingInv'
<1>1. TypeOK /\ TypeOK'
  BY NextType DEF RingInv, Next, Driver
<1>2. /\ UNCHANGED <<ram, curr, bnry, stored, returned, lost>>
      /\ prx = "set"
  BY DEF ne2000_get_packet, cardVars
<1>3. SUFFICES ASSUME lost = "no"
               PROVE  stored # <<>> /\ InPlace' /\ Copied' /\ InOrder'
  BY <1>1, <1>2 DEF RingInv
<1>4. stored # <<>>
  BY <1>2, <1>3 DEF RingInv, Fresh
<1>5. InPlace /\ InOrder
  BY <1>3, <1>4 DEF RingInv
<1>6. InPlace' /\ InOrder' /\ cur_read' = cur_read
  BY <1>2, <1>5, SamePlace
<1>7. /\ First < Free /\ got'.frame = stored[First]
      /\ got'.next = ram[cur_read].next
  BY <1>1, <1>5, CopiesFirst
<1>8. Copied'
  BY <1>2, <1>6, <1>7 DEF Copied, First, Free
<1> QED
  BY <1>4, <1>6, <1>8

(* The other steps leave the ring and its registers alone.                 *)
LEMMA OtherInv ==
    ASSUME RingInv, TypeOK',
           UNCHANGED <<ram, curr, bnry, prx, got, stored, returned, lost>>,
           pc = "idle" => pc' = "idle",
           pc' = "reading" => pc = "reading"
    PROVE  RingInv'
<1>1. CASE lost = "no" /\ stored = <<>>
  BY <1>1 DEF RingInv, Fresh
<1>2. CASE lost = "no" /\ stored # <<>>
  <2>1. InPlace /\ Copied /\ InOrder
    BY <1>2 DEF RingInv
  <2>2. InPlace' /\ InOrder' /\ cur_read' = cur_read
    BY <2>1, SamePlace
  <2>3. Copied'
    BY <2>1, <2>2 DEF Copied, First, Free
  <2> QED
    BY <1>2, <2>2, <2>3 DEF RingInv
<1>3. CASE lost # "no"
  BY <1>3 DEF RingInv
<1> QED
  BY <1>1, <1>2, <1>3

LEMMA NextInv == RingInv /\ [Next]_vars => RingInv'
<1> SUFFICES ASSUME RingInv, [Next]_vars PROVE RingInv'
  OBVIOUS
<1>1. TypeOK'
  BY NextType DEF RingInv
<1>2. CASE ne2000_get_packet
  BY <1>2, GetInv
<1>3. CASE ne2000_acknowledge
  BY <1>3, AcknowledgeInv
<1>4. CASE \E sz \in Sizes : ne2000_prepare_send_packet(sz)
  <2>1. /\ UNCHANGED <<ram, curr, bnry, prx, got, stored, returned, lost>>
        /\ pc = "handling" /\ pc' \in {"handled", "building"}
    BY <1>4 DEF ne2000_prepare_send_packet, cardVars
  <2> QED
    BY <1>1, <2>1, OtherInv
<1>5. CASE ne2000_send_packet \/ ne2000_send_wait \/ ne2000_put_packet
  <2>1. /\ UNCHANGED <<ram, curr, bnry, prx, got, stored, returned, lost>>
        /\ pc # "idle" /\ pc' # "reading"
    BY <1>5 DEF ne2000_send_packet, ne2000_send_wait, ne2000_put_packet, cardVars
  <2> QED
    BY <1>1, <2>1, OtherInv
<1>6. CASE \E k \in PageCounts : CardReceive(k)
  BY <1>6, ReceiveInv
<1>7. CASE (\E k \in PageCounts : CardMiss(k)) \/ CardTransmit \/ UNCHANGED vars
  <2>1. UNCHANGED <<ram, curr, bnry, prx, got, stored, returned, lost, pc>>
    BY <1>7 DEF CardMiss, CardTransmit, vars, cardVars
  <2> QED
    BY <1>1, <2>1, OtherInv
<1> QED
  BY <1>2, <1>3, <1>4, <1>5, <1>6, <1>7 DEF Next, Driver, Card

LEMMA InitInv == Init => RingInv
<1> SUFFICES ASSUME Init PROVE RingInv
  OBVIOUS
<1>1. TypeOK
  BY InitType
<1>2. Fresh /\ stored = <<>>
  BY DEF Init, ne2000_init, Fresh
<1> QED
  BY <1>1, <1>2 DEF RingInv

(* The frames laid out in the ring are the ones still to be returned.      *)
LEMMA InvIsOrder == RingInv => AllButTheFirst
<1> SUFFICES ASSUME RingInv, lost = "no" PROVE AllButTheFirst
  BY DEF AllButTheFirst
<1>1. TypeOK
  BY DEF RingInv
<1>2. CASE stored = <<>>
  <2>1. Len(returned) = 0 /\ Len(stored) = 0
    BY <1>2 DEF RingInv, Fresh
  <2>2. Unread = {} /\ 1..Len(returned) = {}
    BY <2>1 DEF Unread
  <2> QED
    BY <2>2 DEF AllButTheFirst
<1>3. CASE stored # <<>>
  <2>1. InPlace /\ InOrder
    BY <1>3 DEF RingInv
  <2>2. PICK off \in [First..Free -> 0..Size - 1] : Layout(off)
    BY <2>1 DEF InPlace
  <2>3. ASSUME NEW f \in Unread
        PROVE  \E p \in Start..End - 1 :
                  /\ ram[p].part = "head" /\ ram[p].frame = f
                  /\ \A j \in 0..ram[p].pages - 1 : ram[After(p, j)].frame = f
    <3>1. PICK i \in Len(returned) + 2..Len(stored) : f = stored[i]
      BY DEF Unread
    <3>2. i \in First..Free - 1
      BY <1>1, <3>1, HistoryTypes DEF First, Free
    <3> DEFINE p == After(cur_read, off[i])
               k == off[i + 1] - off[i]
    <3>3. p \in Ring /\ FrameIn(ram, p, k, stored[i])
      BY <1>1, <2>1, <2>2, <3>2, LayoutFacts
    <3> HIDE DEF p, k
    <3>4. /\ ram[p].part = "head" /\ ram[p].frame = f
          /\ \A j \in 0..ram[p].pages - 1 : ram[After(p, j)].frame = f
      BY <3>1, <3>3 DEF FrameIn
    <3> QED
      BY <3>3, <3>4 DEF Ring
  <2> QED
    BY <2>1, <2>3 DEF AllButTheFirst, InOrder
<1> QED
  BY <1>2, <1>3

LEMMA Invariance == Spec => []RingInv
BY InitInv, NextInv, PTL DEF Spec

(* Whatever the size of the ring and of the frames, and however the card's *)
(* steps fall between those of ne2000_get_packet: until the card overtakes *)
(* the driver, every frame but the first is returned whole, once and in    *)
(* the order of its arrival, and the others wait unharmed in the ring.     *)
THEOREM FramesInOrder == Spec => []AllButTheFirst
BY Invariance, InvIsOrder, PTL

(* The card overtakes the driver only while the boundary lies before the   *)
(* ring: a boundary in the ring always stops CURR in time.                 *)
THEOREM BoundaryStops == Spec => LappedOnlyBeforeRing
<1>1. ASSUME RingInv, Next, lost' = "lapped", lost # "lapped"
      PROVE  bnry = Start - 1
  <2>1. PICK k \in PageCounts : CardReceive(k)
    BY <1>1 DEF Next, Driver, Card, ne2000_get_packet, ne2000_acknowledge,
       ne2000_prepare_send_packet, ne2000_send_packet, ne2000_send_wait,
       ne2000_put_packet, CardMiss, CardTransmit, cardVars
  <2>2. /\ lost = "no" /\ stored # <<>> /\ Fits(k)
        /\ \E j \in 1..k : After(curr, j) = cur_read
    BY <1>1, <2>1 DEF CardReceive
  <2>3. TypeOK /\ InPlace
    BY <1>1, <2>2 DEF RingInv
  <2> QED
    BY <2>2, <2>3, Overtaken
<1>2. RingInv /\ [Next]_vars =>
         [lost' = "lapped" /\ lost # "lapped" => bnry = Start - 1]_vars
  BY <1>1
<1> QED
  BY <1>2, Invariance, PTL DEF Spec, LappedOnlyBeforeRing

=============================================================================
