------------------------- MODULE Rtl8101RingProofs -------------------------
(***************************************************************************)
(* Proofs about the rings of the RTL8101 driver, for rings of every size   *)
(* and any number of frames.  The card finds the end of a ring by the mark *)
(* EOR, which it may lose whenever it stores a frame, so the invariant     *)
(* says which marks the card can still meet: those of its own descriptors. *)
(***************************************************************************)
EXTENDS Rtl8101Ring, RingRuns

(* The descriptors of the driver are one run, from its offset up to the    *)
(* card's.                                                                 *)
RxRun == IsRun(Ring, Waiting, rx_offset, rxCard)

(* A descriptor of the card has the right mark.                            *)
RxMarks == \A i \in Slot : rx[i].own = "card" => rx[i].eor = EndAtLast(i)

(* The run is in the order of arrival.                                     *)
RxOrder ==
    /\ \A i \in Waiting : rx[i].frame \in 1..arrived
    /\ \A i, j \in Waiting :
          Pos(Ring, rx_offset, i) < Pos(Ring, rx_offset, j) => rx[i].frame < rx[j].frame

HeldWaits == pc # "idle" => rx_offset \in Waiting

(* Each frame runs out of patience at most once, so the waits that ran out *)
(* are fewer than the number of any frame still to come.                   *)
Patience ==
    /\ overwrites <= arrived
    /\ \A i \in Waiting :
          pc \in {"idle", "handling"} \/ i # rx_offset => overwrites < rx[i].frame

(* One transmit descriptor is in use, and the card stays there.            *)
TxOne ==
    /\ tx_offset = 0 /\ txCard = 0
    /\ tx[0].own = "card" => tx[0].eor = "end"
    /\ tx[0].own = "card" \/ pc = "building" => tx[0].frame # 0
    /\ reading # 0 => tx[0].own = "card"

(* Without overwriting, the answers not yet sent are at most one, and it   *)
(* is in the descriptor as it was built.                                   *)
TxLast ==
    overwrites = 0 =>
        /\ tx[0].own = "driver" => Len(answers) = Len(wire)
        /\ tx[0].own = "card" =>
              /\ Len(answers) = Len(wire) + 1
              /\ tx[0].frame = answers[Len(answers)]
              /\ reading # 0 => reading = tx[0].frame
        /\ pc = "building" =>
              tx[0].own = "driver" /\ tx[0].frame = rx[rx_offset].frame
        /\ \A i \in 1..Len(wire) : wire[i] = answers[i]

RingInv ==
    /\ TypeOK
    /\ RxRun /\ RxMarks /\ RxOrder /\ HeldWaits /\ Patience
    /\ TxOne /\ TxLast

-----------------------------------------------------------------------------
(* Going round the ring: the facts of RingRuns for this ring.              *)

Advance(i) == IF i + 1 >= Ring THEN 0 ELSE i + 1

LEMMA ThisRing ==
    /\ Ring \in Nat \ {0}
    /\ Slot = Slots(Ring)
    /\ \A i \in Slot : Advance(i) = After(Ring, i) /\ Advance(i) \in Slot
    /\ 0 \in Slot
BY RtlConstants, AfterType DEF Slot, Slots, Advance, After

LEMMA SlotPos ==
    ASSUME NEW lo \in Slot, NEW i \in Slot
    PROVE  /\ Pos(Ring, lo, i) \in 0..Ring - 1
           /\ Pos(Ring, lo, i) = 0 <=> i = lo
           /\ i # lo => Pos(Ring, Advance(lo), i) = Pos(Ring, lo, i) - 1
BY ThisRing, PosFacts

LEMMA RunTakes ==
    ASSUME NEW lo \in Slot, NEW hi \in Slot, NEW S \in SUBSET Slot,
           IsRun(Ring, S, lo, hi), lo \in S
    PROVE  IsRun(Ring, S \ {lo}, Advance(lo), hi)
BY ThisRing, RunShrinks

LEMMA RunAdds ==
    ASSUME NEW lo \in Slot, NEW hi \in Slot, NEW S \in SUBSET Slot,
           IsRun(Ring, S, lo, hi), hi \notin S
    PROVE  /\ IsRun(Ring, S \cup {hi}, lo, Advance(hi))
           /\ \A i \in S : Pos(Ring, lo, i) < Pos(Ring, lo, hi)
BY ThisRing, RunGrows

-----------------------------------------------------------------------------
(* What the steps change.                                                  *)

LEMMA TypeFacts ==
    ASSUME TypeOK
    PROVE  /\ rx_offset \in Slot /\ rxCard \in Slot /\ Waiting \in SUBSET Slot
           /\ \A i \in Slot :
                 /\ rx[i].own \in {"card", "driver"} /\ rx[i].eor \in {"more", "end"}
                 /\ rx[i].kind \in Kinds /\ rx[i].frame \in 0..MaxFrames
                 /\ tx[i].own \in {"card", "driver"} /\ tx[i].eor \in {"more", "end"}
                 /\ tx[i].frame \in 0..MaxFrames
           /\ MaxFrames \in Nat /\ arrived \in Nat
BY RtlConstants DEF TypeOK, Waiting, RxDescriptor, TxDescriptor

LEMMA GiveBackFacts ==
    ASSUME TypeOK, GiveBack
    PROVE  /\ rx' \in [Slot -> RxDescriptor]
           /\ rx_offset' = Advance(rx_offset) /\ rx_offset' \in Slot
           /\ rx'[rx_offset].own = "card"
           /\ rx'[rx_offset].eor = EndAtLast(rx_offset)
           /\ \A i \in Slot : i # rx_offset => rx'[i] = rx[i]
           /\ Waiting' = Waiting \ {rx_offset}
<1>1. rx_offset \in Slot /\ rx \in [Slot -> RxDescriptor]
  BY DEF TypeOK
<1> DEFINE d == [[rx[rx_offset] EXCEPT !.own = "card"] EXCEPT !.eor = EndAtLast(rx_offset)]
<1>2. rx' = [rx EXCEPT ![rx_offset] = d]
  BY <1>1 DEF GiveBack
<1>3. d \in RxDescriptor /\ d.own = "card" /\ d.eor = EndAtLast(rx_offset)
  <2>1. rx[rx_offset] \in RxDescriptor
    BY <1>1
  <2>2. EndAtLast(rx_offset) \in {"more", "end"}
    BY DEF EndAtLast
  <2> QED
    BY <2>1, <2>2 DEF RxDescriptor
<1> HIDE DEF d
<1>4. /\ rx' \in [Slot -> RxDescriptor] /\ rx'[rx_offset] = d
      /\ \A i \in Slot : i # rx_offset => rx'[i] = rx[i]
  BY <1>1, <1>2, <1>3
<1>5. rx_offset' = Advance(rx_offset) /\ rx_offset' \in Slot
  BY <1>1, ThisRing DEF GiveBack, Advance
<1>6. Waiting' = Waiting \ {rx_offset}
  BY <1>1, <1>3, <1>4 DEF Waiting
<1> QED
  BY <1>3, <1>4, <1>5, <1>6

LEMMA ReceiveFacts ==
    ASSUME TypeOK, RxMarks, NEW k \in ArrivingKinds, NEW eor \in {"more", "end"},
           CardReceive(k, eor)
    PROVE  /\ rx' \in [Slot -> RxDescriptor]
           /\ rxCard' = Advance(rxCard) /\ rxCard' \in Slot
           /\ rxCard \notin Waiting
           /\ rx'[rxCard].own = "driver" /\ rx'[rxCard].frame = arrived + 1
           /\ rx'[rxCard].kind = k
           /\ \A i \in Slot : i # rxCard => rx'[i] = rx[i]
           /\ Waiting' = Waiting \cup {rxCard}
<1>1. /\ rxCard \in Slot /\ rx \in [Slot -> RxDescriptor] /\ arrived \in 0..MaxFrames
      /\ arrived < MaxFrames /\ MaxFrames \in Nat
  BY RtlConstants DEF TypeOK, CardReceive
<1>2. k \in Kinds
  BY RtlConstants DEF ArrivingKinds, Kinds, PieceKinds
<1> DEFINE d == [own |-> "driver", eor |-> eor, kind |-> k, frame |-> arrived + 1]
<1>3. d \in RxDescriptor /\ d.own = "driver" /\ d.kind = k /\ d.frame = arrived + 1
  BY <1>1, <1>2 DEF RxDescriptor
<1>4. rx' = [rx EXCEPT ![rxCard] = d]
  BY DEF CardReceive
<1> HIDE DEF d
<1>5. /\ rx' \in [Slot -> RxDescriptor] /\ rx'[rxCard] = d
      /\ \A i \in Slot : i # rxCard => rx'[i] = rx[i]
  BY <1>1, <1>3, <1>4
<1>6. rxCard \notin Waiting /\ Waiting' = Waiting \cup {rxCard}
  BY <1>1, <1>3, <1>5 DEF Waiting, CardReceive
<1>7. rxCard' = Advance(rxCard)
  <2>1. rx[rxCard].eor = EndAtLast(rxCard) /\ rxCard' = CardNext(rx, rxCard)
    BY <1>1 DEF RxMarks, CardReceive
  <2> QED
    BY <2>1, <1>1, RtlConstants DEF CardNext, EndAtLast, Advance, Slot
<1> QED
  BY <1>1, <1>3, <1>5, <1>6, <1>7, ThisRing

-----------------------------------------------------------------------------
(* The receive ring.                                                       *)

RxInv == RxRun /\ RxMarks /\ RxOrder /\ HeldWaits /\ Patience

(* The descriptor at the driver's offset is given back, by get_packet or   *)
(* by put_packet.                                                          *)
LEMMA RxGiveBack ==
    ASSUME TypeOK, RxInv, GiveBack, rx_offset \in Waiting, pc # "building",
           pc' = "idle", UNCHANGED <<rxCard, arrived, overwrites>>
    PROVE  RxInv'
<1> USE DEF RxInv
<1>t. /\ rx_offset \in Slot /\ rxCard \in Slot /\ Waiting \in SUBSET Slot
      /\ \A i \in Slot : rx[i].own \in {"card", "driver"}
      /\ arrived \in Nat /\ overwrites \in Nat /\ \A i \in Slot : rx[i].frame \in Nat
  BY TypeFacts, RtlConstants DEF TypeOK
<1>g. /\ rx_offset' = Advance(rx_offset) /\ rx_offset' \in Slot
      /\ rx'[rx_offset].own = "card" /\ rx'[rx_offset].eor = EndAtLast(rx_offset)
      /\ \A i \in Slot : i # rx_offset => rx'[i] = rx[i]
      /\ Waiting' = Waiting \ {rx_offset}
  BY GiveBackFacts
<1>p. /\ \A i \in Slot : i # rx_offset =>
                Pos(Ring, rx_offset', i) = Pos(Ring, rx_offset, i) - 1
      /\ \A i \in Slot : Pos(Ring, rx_offset, i) \in Nat
      /\ Pos(Ring, rx_offset, rx_offset) = 0
      /\ \A i \in Slot : i # rx_offset => Pos(Ring, rx_offset, i) > 0
  BY <1>t, <1>g, SlotPos
<1>1. RxRun'
  BY <1>t, <1>g, RunTakes DEF RxRun
<1>2. RxMarks'
  <2> SUFFICES ASSUME NEW i \in Slot, rx'[i].own = "card"
               PROVE  rx'[i].eor = EndAtLast(i)
    BY DEF RxMarks, EndAtLast
  <2> QED
    BY <1>g DEF RxMarks
<1>3. RxOrder'
  BY <1>t, <1>g, <1>p DEF RxOrder
<1>4. HeldWaits'
  BY DEF HeldWaits
<1>5. Patience'
  <2> SUFFICES ASSUME NEW i \in Waiting, i # rx_offset
               PROVE  overwrites < rx[i].frame
    BY <1>t, <1>g DEF Patience
  <2> QED
    BY DEF Patience
<1> QED
  BY <1>1, <1>2, <1>3, <1>4, <1>5

LEMMA RxReceive ==
    ASSUME TypeOK, RxInv, NEW k \in ArrivingKinds, NEW eor \in {"more", "end"},
           CardReceive(k, eor)
    PROVE  RxInv'
<1> USE DEF RxInv
<1>t. /\ rx_offset \in Slot /\ rxCard \in Slot /\ Waiting \in SUBSET Slot
      /\ arrived \in Nat /\ overwrites \in Nat /\ \A i \in Slot : rx[i].frame \in Nat
  BY TypeFacts, RtlConstants DEF TypeOK
<1>g. /\ rxCard' = Advance(rxCard) /\ rxCard' \in Slot /\ rxCard \notin Waiting
      /\ rx'[rxCard].own = "driver" /\ rx'[rxCard].frame = arrived + 1
      /\ \A i \in Slot : i # rxCard => rx'[i] = rx[i]
      /\ Waiting' = Waiting \cup {rxCard}
  BY ReceiveFacts
<1>u. UNCHANGED <<rx_offset, pc, overwrites>> /\ arrived' = arrived + 1
  BY DEF CardReceive, txVars
<1>r. /\ IsRun(Ring, Waiting', rx_offset, rxCard')
      /\ \A i \in Waiting : Pos(Ring, rx_offset, i) < Pos(Ring, rx_offset, rxCard)
  BY <1>t, <1>g, RunAdds DEF RxRun
<1>p. \A i \in Slot : Pos(Ring, rx_offset, i) \in Nat
  BY <1>t, SlotPos
<1>f. \A i \in Waiting : rx'[i] = rx[i] /\ rx[i].frame \in 1..arrived
  BY <1>t, <1>g DEF RxOrder
<1>1. RxRun'
  BY <1>r, <1>u DEF RxRun
<1>2. RxMarks'
  <2> SUFFICES ASSUME NEW i \in Slot, rx'[i].own = "card"
               PROVE  rx'[i].eor = EndAtLast(i)
    BY DEF RxMarks, EndAtLast
  <2> QED
    BY <1>g DEF RxMarks
<1>3. RxOrder'
  <2>1. \A i \in Waiting' : rx'[i].frame \in 1..arrived'
    BY <1>t, <1>g, <1>u, <1>f
  <2>2. ASSUME NEW i \in Waiting', NEW j \in Waiting',
               Pos(Ring, rx_offset, i) < Pos(Ring, rx_offset, j)
        PROVE  rx'[i].frame < rx'[j].frame
    <3>1. CASE i \in Waiting /\ j \in Waiting
      BY <3>1, <2>2, <1>f DEF RxOrder
    <3>2. CASE i \in Waiting /\ j = rxCard
      BY <3>2, <1>f, <1>g, <1>t
    <3>3. CASE i = rxCard
      <4>1. j = rxCard \/ Pos(Ring, rx_offset, j) < Pos(Ring, rx_offset, i)
        BY <3>3, <1>r, <1>g
      <4>2. Pos(Ring, rx_offset, i) \in Nat /\ Pos(Ring, rx_offset, j) \in Nat
        BY <1>p, <1>t, <1>g
      <4> QED
        BY <2>2, <3>3, <4>1, <4>2
    <3> QED
      BY <3>1, <3>2, <3>3, <1>g
  <2> QED
    BY <2>1, <2>2, <1>u DEF RxOrder
<1>4. HeldWaits'
  BY <1>g, <1>u DEF HeldWaits
<1>5. Patience'
  BY <1>t, <1>f, <1>g, <1>u DEF Patience
<1> QED
  BY <1>1, <1>2, <1>3, <1>4, <1>5

(* Steps that leave the receive ring alone.                                *)
LEMMA RxSame ==
    ASSUME TypeOK, RxInv, UNCHANGED <<rx, rx_offset, rxCard>>,
           arrived' \in Nat, arrived' >= arrived,
           pc' # "idle" => rx_offset \in Waiting,
           \/ UNCHANGED overwrites /\ (pc' \in {"idle", "handling"} => pc \in {"idle", "handling"})
           \/ /\ pc = "handling" /\ pc' \notin {"idle", "handling"}
              /\ overwrites' = overwrites + 1 /\ rx_offset \in Waiting
    PROVE  RxInv'
<1> USE DEF RxInv
<1>t. /\ rx_offset \in Slot /\ rxCard \in Slot /\ Waiting \in SUBSET Slot
      /\ arrived \in Nat /\ overwrites \in Nat /\ \A i \in Slot : rx[i].frame \in Nat
  BY TypeFacts, RtlConstants DEF TypeOK
<1>w. Waiting' = Waiting
  BY DEF Waiting
<1>1. RxRun' /\ RxMarks' /\ HeldWaits'
  BY <1>w DEF RxRun, RxMarks, EndAtLast, HeldWaits
<1>2. RxOrder'
  BY <1>w, <1>t DEF RxOrder
<1>3. Patience'
  <2>1. CASE UNCHANGED overwrites /\ (pc' \in {"idle", "handling"} => pc \in {"idle", "handling"})
    BY <2>1, <1>w, <1>t DEF Patience
  <2>2. CASE /\ pc = "handling" /\ pc' \notin {"idle", "handling"}
             /\ overwrites' = overwrites + 1 /\ rx_offset \in Waiting
    <3>1. overwrites < rx[rx_offset].frame /\ rx[rx_offset].frame \in 1..arrived
      BY <2>2 DEF Patience, RxOrder
    <3>2. ASSUME NEW i \in Waiting, i # rx_offset
          PROVE  rx[rx_offset].frame < rx[i].frame
      <4>1. Pos(Ring, rx_offset, rx_offset) < Pos(Ring, rx_offset, i)
        BY <3>2, <1>t, SlotPos
      <4> QED
        BY <4>1, <2>2 DEF RxOrder
    <3>3. \A i \in Waiting : i # rx_offset => overwrites + 1 < rx[i].frame
      BY <3>1, <3>2, <1>t
    <3> QED
      BY <3>1, <3>3, <2>2, <1>w, <1>t DEF Patience
  <2> QED
    BY <2>1, <2>2
<1> QED
  BY <1>1, <1>2, <1>3

-----------------------------------------------------------------------------
(* The transmit ring.                                                      *)

TxInv == TxOne /\ TxLast

Answer == 1..MaxFrames

LEMMA AppendFacts ==
    ASSUME NEW S, NEW s \in Seq(S), NEW x \in S
    PROVE  /\ Append(s, x) \in Seq(S)
           /\ Len(Append(s, x)) = Len(s) + 1 /\ Len(s) \in Nat
           /\ Append(s, x)[Len(s) + 1] = x
           /\ \A i \in 1..Len(s) : Append(s, x)[i] = s[i]
OBVIOUS

LEMMA HeldFrame ==
    ASSUME TypeOK, RxInv, pc # "idle"
    PROVE  rx[rx_offset].frame \in Answer
BY TypeFacts DEF RxInv, HeldWaits, RxOrder, Answer, TypeOK

LEMMA TxOwnFacts ==
    ASSUME TypeOK, NEW o \in {"card", "driver"}, NEW e \in {"more", "end"},
           \/ tx' = [tx EXCEPT ![0].own = o, ![0].eor = e]
           \/ tx' = [tx EXCEPT ![0].own = o] /\ e = tx[0].eor
    PROVE  /\ tx' \in [Slot -> TxDescriptor]
           /\ tx'[0].own = o /\ tx'[0].eor = e /\ tx'[0].frame = tx[0].frame
<1>1. tx \in [Slot -> TxDescriptor] /\ 0 \in Slot /\ tx[0] \in TxDescriptor
  BY ThisRing DEF TypeOK
<1>2. CASE tx' = [tx EXCEPT ![0].own = o, ![0].eor = e]
  <2> DEFINE d == [[tx[0] EXCEPT !.own = o] EXCEPT !.eor = e]
  <2>1. d \in TxDescriptor /\ d.own = o /\ d.eor = e /\ d.frame = tx[0].frame
    BY <1>1 DEF TxDescriptor
  <2>2. tx' = [tx EXCEPT ![0] = d]
    BY <1>1, <1>2
  <2> HIDE DEF d
  <2> QED
    BY <1>1, <2>1, <2>2
<1>3. CASE tx' = [tx EXCEPT ![0].own = o] /\ e = tx[0].eor
  <2> DEFINE d == [tx[0] EXCEPT !.own = o]
  <2>1. d \in TxDescriptor /\ d.own = o /\ d.eor = e /\ d.frame = tx[0].frame
    BY <1>1, <1>3 DEF TxDescriptor
  <2>2. tx' = [tx EXCEPT ![0] = d]
    BY <1>1, <1>3
  <2> HIDE DEF d
  <2> QED
    BY <1>1, <2>1, <2>2
<1> QED
  BY <1>2, <1>3

LEMMA TxFillFacts ==
    ASSUME TypeOK, NEW f \in Answer, tx' = [tx EXCEPT ![0].frame = f]
    PROVE  /\ tx' \in [Slot -> TxDescriptor]
           /\ tx'[0].own = tx[0].own /\ tx'[0].eor = tx[0].eor /\ tx'[0].frame = f
<1>1. tx \in [Slot -> TxDescriptor] /\ 0 \in Slot /\ tx[0] \in TxDescriptor
  BY ThisRing DEF TypeOK
<1> DEFINE d == [tx[0] EXCEPT !.frame = f]
<1>2. d \in TxDescriptor /\ d.own = tx[0].own /\ d.eor = tx[0].eor /\ d.frame = f
  BY <1>1, RtlConstants DEF TxDescriptor, Answer
<1>3. tx' = [tx EXCEPT ![0] = d]
  BY <1>1
<1> HIDE DEF d
<1> QED
  BY <1>1, <1>2, <1>3

(* Steps that leave the transmit ring alone and do not build an answer.    *)
LEMMA TxSame ==
    ASSUME TxInv, UNCHANGED txVars, pc' = "building" => pc = "building",
           pc = "building" => rx'[rx_offset'].frame = rx[rx_offset].frame
    PROVE  TxInv'
BY DEF TxInv, TxOne, TxLast, txVars

LEMMA TxPrepare ==
    ASSUME TypeOK, RxInv, TxInv, NEW sz \in Sizes, rtl8101_prepare_send_packet(sz),
           sz <= MaxPayload
    PROVE  /\ TxInv' /\ tx' \in [Slot -> TxDescriptor]
           /\ UNCHANGED overwrites \/ overwrites' = overwrites + 1
           /\ overwrites' \in Nat
<1>1. /\ pc = "handling" /\ pc' = "building" /\ tx_offset = 0
      /\ UNCHANGED <<rxVars, tx_offset, txCard, reading, answers, wire>>
      /\ \/ tx[0].own = "driver" /\ UNCHANGED overwrites
         \/ overwrites' = overwrites + 1
      /\ tx' = [tx EXCEPT ![0].frame = rx[rx_offset].frame]
      /\ overwrites \in Nat
  BY RtlConstants DEF rtl8101_prepare_send_packet, TxInv, TxOne, TypeOK
<1>2. rx[rx_offset].frame \in Answer
  BY <1>1, HeldFrame
<1>3. /\ tx' \in [Slot -> TxDescriptor]
      /\ tx'[0].own = tx[0].own /\ tx'[0].eor = tx[0].eor
      /\ tx'[0].frame = rx[rx_offset].frame
  BY <1>1, <1>2, TxFillFacts
<1>4. TxOne'
  BY <1>1, <1>2, <1>3 DEF TxInv, TxOne, Answer
<1>5. TxLast'
  <2>1. CASE tx[0].own = "driver" /\ UNCHANGED overwrites
    BY <1>1, <1>3, <2>1 DEF TxInv, TxLast, rxVars
  <2>2. CASE overwrites' = overwrites + 1
    BY <1>1, <2>2 DEF TxLast
  <2> QED
    BY <1>1, <2>1, <2>2
<1> QED
  BY <1>1, <1>3, <1>4, <1>5 DEF TxInv

LEMMA TxSend ==
    ASSUME TypeOK, RxInv, TxInv, rtl8101_send_packet
    PROVE  TxInv' /\ tx' \in [Slot -> TxDescriptor] /\ answers' \in Seq(Answer)
<1>1. /\ pc = "building" /\ pc' = "sending" /\ tx_offset = 0
      /\ UNCHANGED <<rxVars, tx_offset, txCard, reading, overwrites, wire>>
      /\ tx' = [tx EXCEPT ![0].own = "card", ![0].eor = "end"]
      /\ answers' = Append(answers, rx[rx_offset].frame)
      /\ answers \in Seq(Answer) /\ wire \in Seq(1..Torn)
  BY DEF rtl8101_send_packet, TxInv, TxOne, TypeOK, Answer
<1>2. rx[rx_offset].frame \in Answer
  BY <1>1, HeldFrame
<1>3. /\ tx' \in [Slot -> TxDescriptor] /\ tx'[0].own = "card"
      /\ tx'[0].eor = "end" /\ tx'[0].frame = tx[0].frame
  BY <1>1, TxOwnFacts
<1>4. /\ answers' \in Seq(Answer)
      /\ Len(answers') = Len(answers) + 1 /\ Len(answers) \in Nat
      /\ answers'[Len(answers) + 1] = rx[rx_offset].frame
      /\ \A i \in 1..Len(answers) : answers'[i] = answers[i]
  BY <1>1, <1>2, AppendFacts
<1>5. TxOne'
  BY <1>1, <1>3 DEF TxInv, TxOne
<1>6. TxLast'
  <2> SUFFICES ASSUME overwrites = 0
               PROVE  /\ Len(answers') = Len(wire) + 1
                      /\ tx[0].frame = answers'[Len(answers')]
                      /\ reading = 0
                      /\ \A i \in 1..Len(wire) : wire[i] = answers'[i]
    BY <1>1, <1>3 DEF TxLast
  <2>1. tx[0].own = "driver" /\ tx[0].frame = rx[rx_offset].frame
    BY <1>1 DEF TxInv, TxLast
  <2>2. Len(answers) = Len(wire) /\ \A i \in 1..Len(wire) : wire[i] = answers[i]
    BY <2>1 DEF TxInv, TxLast
  <2>3. reading = 0
    BY <2>1 DEF TxInv, TxOne
  <2> QED
    BY <1>4, <2>1, <2>2, <2>3
<1> QED
  BY <1>3, <1>4, <1>5, <1>6 DEF TxInv

LEMMA TxFetch ==
    ASSUME TypeOK, TxInv, CardFetch
    PROVE  TxInv' /\ reading' \in 0..MaxFrames
<1>1. /\ tx[0].own = "card" /\ reading' = tx[0].frame
      /\ UNCHANGED <<rxVars, tx, tx_offset, txCard, answers, overwrites, wire, pc>>
      /\ tx[0].frame \in 0..MaxFrames
  BY TypeFacts, ThisRing DEF CardFetch, TxInv, TxOne
<1>2. TxOne'
  BY <1>1 DEF TxInv, TxOne
<1>3. TxLast'
  BY <1>1 DEF TxInv, TxLast, rxVars
<1> QED
  BY <1>1, <1>2, <1>3 DEF TxInv

LEMMA TxSent ==
    ASSUME TypeOK, RxInv, TxInv, CardSent
    PROVE  TxInv' /\ tx' \in [Slot -> TxDescriptor] /\ wire' \in Seq(1..Torn)
<1>1. /\ reading # 0 /\ txCard = 0 /\ reading' = 0
      /\ tx' = [tx EXCEPT ![0].own = "driver"]
      /\ txCard' = CardNext(tx, 0)
      /\ UNCHANGED <<rxVars, tx_offset, answers, overwrites, pc>>
      /\ tx[0].own = "card" /\ tx[0].eor = "end" /\ tx[0].frame # 0
      /\ wire \in Seq(1..Torn) /\ answers \in Seq(Answer)
      /\ MaxFrames \in Nat /\ Torn = MaxFrames + 1
      /\ reading \in 0..MaxFrames /\ tx[0].frame \in 0..MaxFrames
  BY TypeFacts, ThisRing DEF CardSent, TxInv, TxOne, TypeOK, Torn, Answer
<1>2. PICK f \in {reading, tx[0].frame,
                  IF tx[0].frame = reading THEN reading ELSE Torn} :
          wire' = Append(wire, f)
  BY <1>1 DEF CardSent
<1>3. /\ tx' \in [Slot -> TxDescriptor] /\ tx'[0].own = "driver"
      /\ tx'[0].eor = "end" /\ tx'[0].frame = tx[0].frame
  BY <1>1, TxOwnFacts
<1>4. f \in 1..Torn
  BY <1>1, <1>2
<1>5. /\ wire' \in Seq(1..Torn)
      /\ Len(wire') = Len(wire) + 1 /\ Len(wire) \in Nat
      /\ wire'[Len(wire) + 1] = f
      /\ \A i \in 1..Len(wire) : wire'[i] = wire[i]
  BY <1>1, <1>2, <1>4, AppendFacts
<1>6. TxOne'
  BY <1>1, <1>3 DEF TxInv, TxOne, CardNext
<1>7. TxLast'
  <2> SUFFICES ASSUME overwrites = 0
               PROVE  /\ Len(answers) = Len(wire')
                      /\ pc # "building"
                      /\ \A i \in 1..Len(wire') : wire'[i] = answers[i]
    BY <1>1, <1>3 DEF TxLast
  <2>1. /\ Len(answers) = Len(wire) + 1 /\ tx[0].frame = answers[Len(answers)]
        /\ reading = tx[0].frame /\ pc # "building"
        /\ \A i \in 1..Len(wire) : wire[i] = answers[i]
    BY <1>1 DEF TxInv, TxLast
  <2>2. f = tx[0].frame
    BY <1>2, <2>1
  <2> QED
    BY <1>5, <2>1, <2>2
<1> QED
  BY <1>3, <1>5, <1>6, <1>7 DEF TxInv

-----------------------------------------------------------------------------
LEMMA RingInit == Init => RingInv
<1> SUFFICES ASSUME Init PROVE RingInv
  OBVIOUS
<1>1. rx \in [Slot -> RxDescriptor] /\ tx \in [Slot -> TxDescriptor]
  BY RtlConstants DEF Init, rtl8101_init, RxDescriptor, TxDescriptor, EndAtLast, Kinds
<1>2. Waiting = {} /\ rx_offset = 0 /\ rxCard = 0 /\ pc = "idle" /\ arrived = 0 /\ overwrites = 0
  BY DEF Init, rtl8101_init, Waiting
<1>3. TypeOK
  BY <1>1, ThisRing, RtlConstants DEF Init, rtl8101_init, TypeOK, Torn
<1>4. RxRun /\ RxOrder /\ HeldWaits /\ Patience
  BY <1>2 DEF RxRun, IsRun, RxOrder, HeldWaits, Patience
<1>5. RxMarks
  BY DEF Init, rtl8101_init, RxMarks
<1>6. TxOne /\ TxLast
  BY ThisRing DEF Init, rtl8101_init, TxOne, TxLast
<1> QED
  BY <1>3, <1>4, <1>5, <1>6 DEF RingInv

LEMMA RingStep ==
    ASSUME RingInv, [Next]_vars
    PROVE  RingInv'
<1>i. TypeOK /\ RxInv /\ TxInv
  BY DEF RingInv, RxInv, TxInv
<1>q. ASSUME TypeOK', RxInv', TxInv'
      PROVE  RingInv'
  BY <1>q DEF RingInv, RxInv, TxInv
<1>k. /\ rx_offset \in Slot /\ arrived \in Nat /\ MaxFrames \in Nat
      /\ pc # "idle" => rx_offset \in Waiting
  BY <1>i, TypeFacts DEF RxInv, HeldWaits
<1>1. CASE rtl8101_get_packet
  <2>u. /\ pc = "idle" /\ rx_offset \in Waiting
        /\ UNCHANGED <<rxCard, expects, arrived, txVars>>
    BY <1>1, <1>k DEF rtl8101_get_packet, Waiting
  <2>1. CASE GiveBack /\ UNCHANGED pc
    <3>1. RxInv' /\ rx' \in [Slot -> RxDescriptor] /\ rx_offset' \in Slot
      BY <2>1, <2>u, <1>i, RxGiveBack, GiveBackFacts DEF txVars
    <3>2. TxInv'
      BY <2>1, <2>u, <1>i, TxSame
    <3>3. TypeOK'
      BY <3>1, <2>1, <2>u, <1>i DEF TypeOK, txVars
    <3> QED
      BY <3>1, <3>2, <3>3, <1>q
  <2>2. CASE UNCHANGED <<rx, rx_offset>> /\ pc' \in {"idle", "handling"}
    <3>1. RxInv'
      BY <2>2, <2>u, <1>i, <1>k, RxSame DEF txVars
    <3>2. TxInv'
      BY <2>2, <2>u, <1>i, TxSame
    <3>3. TypeOK'
      BY <2>2, <2>u, <1>i DEF TypeOK, txVars
    <3> QED
      BY <3>1, <3>2, <3>3, <1>q
  <2> QED
    BY <1>1, <2>1, <2>2, <2>u DEF rtl8101_get_packet
<1>2. ASSUME NEW sz \in Sizes, rtl8101_prepare_send_packet(sz)
      PROVE  RingInv'
  <2>u. /\ pc = "handling" /\ UNCHANGED <<rxVars, tx_offset, txCard, reading, answers, wire>>
        /\ sz \in Nat /\ MaxPayload \in Nat
    BY <1>2, RtlConstants DEF rtl8101_prepare_send_packet
  <2>1. CASE sz > MaxPayload
    <3>1. pc' = "handled" /\ UNCHANGED <<rxVars, txVars>>
      BY <1>2, <2>1, <2>u DEF rtl8101_prepare_send_packet, txVars
    <3>2. RxInv'
      BY <3>1, <2>u, <1>i, <1>k, RxSame DEF rxVars, txVars
    <3>3. TxInv'
      BY <3>1, <2>u, <1>i, TxSame
    <3>4. TypeOK'
      BY <3>1, <1>i DEF TypeOK, rxVars, txVars
    <3> QED
      BY <3>2, <3>3, <3>4, <1>q
  <2>2. CASE sz <= MaxPayload
    <3>1. /\ TxInv' /\ tx' \in [Slot -> TxDescriptor]
          /\ UNCHANGED overwrites \/ overwrites' = overwrites + 1
          /\ overwrites' \in Nat /\ pc' = "building"
      BY <1>2, <2>2, <2>u, <1>i, TxPrepare DEF rtl8101_prepare_send_packet
    <3>2. RxInv'
      BY <3>1, <2>u, <1>i, <1>k, RxSame DEF rxVars
    <3>3. overwrites' \in 0..MaxFrames
      <4>1. overwrites' <= arrived /\ arrived \in 0..MaxFrames
        BY <3>2, <2>u, <1>i DEF RxInv, Patience, rxVars, TypeOK
      <4> QED
        BY <4>1, <3>1, <1>k
    <3>4. TypeOK'
      BY <3>1, <3>3, <2>u, <1>i DEF TypeOK, rxVars
    <3> QED
      BY <3>1, <3>2, <3>4, <1>q
  <2> QED
    BY <2>1, <2>2, <2>u
<1>3. CASE rtl8101_send_packet
  <2>u. /\ pc = "building" /\ pc' = "sending"
        /\ UNCHANGED <<rxVars, tx_offset, txCard, reading, overwrites, wire>>
    BY <1>3 DEF rtl8101_send_packet
  <2>1. TxInv' /\ tx' \in [Slot -> TxDescriptor] /\ answers' \in Seq(1..MaxFrames)
    BY <1>3, <1>i, TxSend DEF Answer
  <2>2. RxInv'
    BY <2>u, <1>i, <1>k, RxSame DEF rxVars
  <2>3. TypeOK'
    BY <2>1, <2>u, <1>i DEF TypeOK, rxVars
  <2> QED
    BY <2>1, <2>2, <2>3, <1>q
<1>4. CASE rtl8101_send_wait
  <2>u. /\ pc = "sending" /\ pc' = "handled" /\ tx_offset' = 0 /\ tx_offset = 0
        /\ UNCHANGED <<rxVars, txVars>>
    BY <1>4, <1>i DEF rtl8101_send_wait, TxInv, TxOne, txVars
  <2>1. TxInv'
    BY <2>u, <1>i, TxSame
  <2>2. RxInv'
    BY <2>u, <1>i, <1>k, RxSame DEF rxVars, txVars
  <2>3. TypeOK'
    BY <2>u, <1>i DEF TypeOK, rxVars, txVars
  <2> QED
    BY <2>1, <2>2, <2>3, <1>q
<1>5. CASE rtl8101_put_packet
  <2>u. /\ pc \in {"handling", "handled"} /\ GiveBack /\ pc' = "idle"
        /\ UNCHANGED <<rxCard, expects, arrived, txVars>>
    BY <1>5 DEF rtl8101_put_packet
  <2>1. RxInv' /\ rx' \in [Slot -> RxDescriptor] /\ rx_offset' \in Slot
    BY <2>u, <1>i, <1>k, RxGiveBack, GiveBackFacts DEF txVars
  <2>2. TxInv'
    BY <2>u, <1>i, TxSame
  <2>3. TypeOK'
    BY <2>1, <2>u, <1>i DEF TypeOK, txVars
  <2> QED
    BY <2>1, <2>2, <2>3, <1>q
<1>6. ASSUME NEW k \in ArrivingKinds, NEW eor \in {"more", "end"}, CardReceive(k, eor)
      PROVE  RingInv'
  <2>u. /\ arrived < MaxFrames /\ arrived' = arrived + 1 /\ expects' \in {"frame", "rest"}
        /\ UNCHANGED <<rx_offset, txVars, pc>>
    BY <1>6 DEF CardReceive
  <2>1. /\ rx' \in [Slot -> RxDescriptor] /\ rxCard' \in Slot /\ rxCard \notin Waiting
        /\ \A i \in Slot : i # rxCard => rx'[i] = rx[i]
    BY <1>6, <1>i, ReceiveFacts DEF RxInv
  <2>2. RxInv'
    BY <1>6, <1>i, RxReceive
  <2>3. TxInv'
    BY <2>u, <2>1, <1>i, <1>k, TxSame
  <2>4. TypeOK'
    BY <2>u, <2>1, <1>i, <1>k DEF TypeOK, txVars
  <2> QED
    BY <2>2, <2>3, <2>4, <1>q
<1>7. CASE CardMiss
  <2>u. /\ arrived < MaxFrames /\ arrived' = arrived + 1 /\ expects' \in {"frame", "rest"}
        /\ UNCHANGED <<rx, rx_offset, rxCard, txVars, pc>>
    BY <1>7 DEF CardMiss
  <2>1. RxInv'
    BY <2>u, <1>i, <1>k, RxSame DEF txVars
  <2>2. TxInv'
    BY <2>u, <1>i, TxSame
  <2>3. TypeOK'
    BY <2>u, <1>i, <1>k DEF TypeOK, txVars
  <2> QED
    BY <2>1, <2>2, <2>3, <1>q
<1>8. CASE CardFetch
  <2>u. UNCHANGED <<rxVars, tx, tx_offset, txCard, answers, overwrites, wire, pc>>
    BY <1>8 DEF CardFetch
  <2>1. TxInv' /\ reading' \in 0..MaxFrames
    BY <1>8, <1>i, TxFetch
  <2>2. RxInv'
    BY <2>u, <1>i, <1>k, RxSame DEF rxVars
  <2>3. TypeOK'
    BY <2>1, <2>u, <1>i DEF TypeOK, rxVars
  <2> QED
    BY <2>1, <2>2, <2>3, <1>q
<1>9. CASE CardSent
  <2>u. reading' = 0 /\ UNCHANGED <<rxVars, tx_offset, answers, overwrites, pc>>
    BY <1>9 DEF CardSent
  <2>1. TxInv' /\ tx' \in [Slot -> TxDescriptor] /\ wire' \in Seq(1..Torn)
    BY <1>9, <1>i, TxSent
  <2>2. RxInv'
    BY <2>u, <1>i, <1>k, RxSame DEF rxVars
  <2>3. TypeOK'
    <3>1. txCard' \in Slot /\ reading' \in 0..MaxFrames /\ Torn' = Torn
      BY <2>1, <2>u, <1>k, ThisRing DEF TxInv, TxOne, Torn
    <3> QED
      BY <2>1, <2>u, <3>1, <1>i DEF TypeOK, rxVars
  <2> QED
    BY <2>1, <2>2, <2>3, <1>q
<1>10. CASE UNCHANGED vars
  <2>u. UNCHANGED <<rxVars, txVars, pc>>
    BY <1>10 DEF vars
  <2>1. RxInv'
    BY <2>u, <1>i, <1>k, RxSame DEF rxVars, txVars
  <2>2. TxInv'
    BY <2>u, <1>i, TxSame DEF rxVars
  <2>3. TypeOK'
    BY <2>u, <1>i DEF TypeOK, rxVars, txVars
  <2> QED
    BY <2>1, <2>2, <2>3, <1>q
<1> QED
  BY <1>1, <1>2, <1>3, <1>4, <1>5, <1>6, <1>7, <1>8, <1>9, <1>10 DEF Next, Driver, Card

LEMMA RingInvariant == Spec => []RingInv
<1>1. RingInv /\ [Next]_vars => RingInv'
  BY RingStep
<1> QED
  BY RingInit, <1>1, PTL DEF Spec

(* For rings of every size the variables keep their types: the card never  *)
(* runs off the end of a ring, though it loses the marks it finds the end  *)
(* by, because rtl8101_rx_reinit writes them again.                        *)
THEOREM RingTypeCorrect == Spec => []TypeOK
<1>1. RingInv => TypeOK
  BY DEF RingInv
<1> QED
  BY RingInvariant, <1>1, PTL

(* As long as prepare_send_packet has always found its descriptor free,    *)
(* the card sends the answers in order and unchanged, though the wait of   *)
(* send_packet may run out at any time.                                    *)
THEOREM SendOrder == Spec => []WireIsAnswers
<1>1. RingInv => WireIsAnswers
  <2> SUFFICES ASSUME RingInv, overwrites = 0
               PROVE  /\ Len(wire) <= Len(answers)
                      /\ \A i \in 1..Len(wire) : wire[i] = answers[i]
    BY DEF WireIsAnswers
  <2>1. tx[0].own \in {"card", "driver"} /\ Len(wire) \in Nat /\ Len(answers) \in Nat
    BY TypeFacts, ThisRing DEF RingInv, TypeOK
  <2> QED
    BY <2>1 DEF RingInv, TxLast
<1> QED
  BY RingInvariant, <1>1, PTL

-----------------------------------------------------------------------------
(* The receive ring is a queue of frames.                                  *)

held == IF pc = "idle" THEN 0 ELSE rx[rx_offset].frame

LEMMA QueueSame ==
    ASSUME TypeOK, UNCHANGED <<rx, rx_offset, arrived>>, pc' = "idle" <=> pc = "idle"
    PROVE  UNCHANGED Queue!vars
<1>1. Waiting' = Waiting /\ Held' = Held
  BY DEF Waiting, Held
<1>2. Queued' = Queued
  BY <1>1 DEF Queued
<1> QED
  BY <1>2 DEF Queue!vars

(* Giving back the descriptor at the offset takes no frame out of the      *)
(* queue if it is the one that is held, or not a whole one.                *)
LEMMA QueueGiveBack ==
    ASSUME TypeOK, GiveBack, pc' = "idle",
           pc # "idle" \/ rx[rx_offset].kind # "whole"
    PROVE  Queued' = Queued
<1>1. /\ Waiting' = Waiting \ {rx_offset} /\ Waiting \in SUBSET Slot
      /\ \A i \in Slot : i # rx_offset => rx'[i] = rx[i]
  BY GiveBackFacts, TypeFacts
<1> DEFINE P == {j \in Waiting \ Held : rx[j].kind = "whole"}
           Q == {j \in Waiting' : rx'[j].kind = "whole"}
<1>2. P = Q
  BY <1>1 DEF Held
<1>3. \A i \in P : rx'[i] = rx[i]
  BY <1>1, <1>2
<1>4. Queued = {rx[i].frame : i \in P}
  BY DEF Queued
<1>5. Queued' = {rx'[i].frame : i \in Q}
  <2>1. Held' = {}
    BY DEF Held
  <2> QED
    BY <2>1 DEF Queued
<1> HIDE DEF P, Q
<1> QED
  BY <1>2, <1>3, <1>4, <1>5

(* get_packet returns the first frame of the queue.                        *)
LEMMA QueueTake ==
    ASSUME TypeOK, RxInv, rx_offset \in Waiting, rx[rx_offset].kind = "whole",
           pc = "idle", pc' = "handling", UNCHANGED <<rx, rx_offset, arrived>>
    PROVE  Queue!get_packet
<1> DEFINE f == rx[rx_offset].frame
           P == {j \in Waiting : rx[j].kind = "whole"}
<1>t. /\ rx_offset \in Slot /\ Waiting \in SUBSET Slot
      /\ \A i \in Waiting : rx[i].frame \in Nat
  BY TypeFacts
<1>1. Queued = {rx[i].frame : i \in P}
  BY DEF Queued, Held
<1>2. Queued' = {rx[i].frame : i \in P \ {rx_offset}}
  <2>1. Waiting' = Waiting /\ Held' = {rx_offset}
    BY DEF Waiting, Held
  <2>2. {j \in Waiting' \ Held' : rx'[j].kind = "whole"} = P \ {rx_offset}
    BY <2>1
  <2> QED
    BY <2>2 DEF Queued
<1>3. ASSUME NEW i \in P, i # rx_offset
      PROVE  f < rx[i].frame
  <2>1. Pos(Ring, rx_offset, rx_offset) < Pos(Ring, rx_offset, i)
    BY <1>3, <1>t, SlotPos
  <2> QED
    BY <2>1, <1>3 DEF RxInv, RxOrder
<1>4. rx_offset \in P /\ f \in Nat /\ \A i \in P : rx[i].frame \in Nat
  BY <1>t
<1> HIDE DEF P
<1>5. f \in Queued /\ \A g \in Queued : f <= g
  BY <1>1, <1>3, <1>4
<1>6. Queued' = Queued \ {f}
  BY <1>1, <1>2, <1>3, <1>4
<1> HIDE DEF f
<1> QED
  BY <1>5, <1>6 DEF Queue!get_packet, f

LEMMA QueueReceive ==
    ASSUME TypeOK, RxInv, NEW k \in ArrivingKinds, NEW eor \in {"more", "end"},
           CardReceive(k, eor)
    PROVE  Queue!Arrive
<1> DEFINE P == {j \in Waiting \ Held : rx[j].kind = "whole"}
           Q == {j \in Waiting' \ Held' : rx'[j].kind = "whole"}
<1>t. rx_offset \in Slot /\ rxCard \in Slot /\ Waiting \in SUBSET Slot
  BY TypeFacts
<1>g. /\ rxCard \notin Waiting
      /\ rx'[rxCard].frame = arrived + 1 /\ rx'[rxCard].kind = k
      /\ \A i \in Slot : i # rxCard => rx'[i] = rx[i]
      /\ Waiting' = Waiting \cup {rxCard}
  BY ReceiveFacts DEF RxInv
<1>u. UNCHANGED <<rx_offset, pc>> /\ arrived' = arrived + 1
  BY DEF CardReceive
<1>h. Held' = Held /\ rxCard \notin Held
  BY <1>g, <1>u DEF Held, RxInv, HeldWaits
<1>1. Queued = {rx[i].frame : i \in P} /\ Queued' = {rx'[i].frame : i \in Q}
  BY DEF Queued
<1>2. \A i \in P : i # rxCard /\ rx'[i] = rx[i]
  BY <1>t, <1>g
<1>3. Q = IF k = "whole" THEN P \cup {rxCard} ELSE P
  BY <1>t, <1>g, <1>h
<1> HIDE DEF P, Q
<1>4. Queued' = Queued \/ Queued' = Queued \cup {arrived + 1}
  <2>1. CASE k = "whole"
    BY <2>1, <1>1, <1>2, <1>3, <1>g
  <2>2. CASE k # "whole"
    BY <2>2, <1>1, <1>2, <1>3
  <2> QED
    BY <2>1, <2>2
<1>5. held' = held
  <2>1. CASE pc = "idle"
    BY <2>1, <1>u DEF held
  <2>2. CASE pc # "idle"
    <3>1. rx_offset # rxCard
      BY <2>2, <1>h DEF Held
    <3> QED
      BY <2>2, <3>1, <1>t, <1>g, <1>u DEF held
  <2> QED
    BY <2>1, <2>2
<1> QED
  BY <1>4, <1>5, <1>u DEF Queue!Arrive, held

LEMMA QueueStep ==
    ASSUME RingInv, [Next]_vars
    PROVE  [Queue!Next]_(Queue!vars)
<1>i. TypeOK /\ RxInv
  BY DEF RingInv, RxInv
<1>k. /\ rx_offset \in Slot
      /\ pc # "idle" => rx_offset \in Waiting /\ rx[rx_offset].frame # 0
  BY <1>i, TypeFacts, HeldFrame DEF RxInv, HeldWaits, Answer
<1> USE DEF Queue!Next
<1>1. CASE rtl8101_get_packet
  <2>u. pc = "idle" /\ rx_offset \in Waiting /\ UNCHANGED arrived
    BY <1>1, <1>k DEF rtl8101_get_packet, Waiting
  <2>1. CASE rx[rx_offset].kind \in {"error"} \cup PieceKinds /\ GiveBack /\ UNCHANGED pc
    <3>1. Queued' = Queued
      BY <2>1, <2>u, <1>i, QueueGiveBack DEF PieceKinds
    <3> QED
      BY <2>1, <2>u, <3>1 DEF Queue!vars
  <2>2. CASE rx[rx_offset].kind = "whole" /\ pc' = "handling" /\ UNCHANGED <<rx, rx_offset>>
    BY <2>2, <2>u, <1>i, QueueTake
  <2>3. CASE UNCHANGED <<rx, rx_offset, pc>>
    BY <2>3, <2>u, <1>i, QueueSame
  <2> QED
    BY <1>1, <2>1, <2>2, <2>3 DEF rtl8101_get_packet
<1>2. ASSUME NEW sz \in Sizes, rtl8101_prepare_send_packet(sz)
      PROVE  [Queue!Next]_(Queue!vars)
  BY <1>2, <1>i, QueueSame DEF rtl8101_prepare_send_packet, rxVars
<1>3. CASE rtl8101_send_packet
  BY <1>3, <1>i, QueueSame DEF rtl8101_send_packet, rxVars
<1>4. CASE rtl8101_send_wait
  BY <1>4, <1>i, QueueSame DEF rtl8101_send_wait, rxVars
<1>5. CASE rtl8101_put_packet
  <2>1. pc # "idle" /\ pc' = "idle" /\ GiveBack /\ UNCHANGED arrived
    BY <1>5 DEF rtl8101_put_packet
  <2>2. Queued' = Queued
    BY <2>1, <1>i, QueueGiveBack
  <2> QED
    BY <2>1, <2>2, <1>k DEF Queue!put_packet
<1>6. ASSUME NEW k \in ArrivingKinds, NEW eor \in {"more", "end"}, CardReceive(k, eor)
      PROVE  [Queue!Next]_(Queue!vars)
  BY <1>6, <1>i, QueueReceive
<1>7. CASE CardMiss
  <2>1. arrived' = arrived + 1 /\ UNCHANGED <<rx, rx_offset, pc>>
    BY <1>7 DEF CardMiss
  <2>2. Queued' = Queued
    BY <2>1 DEF Queued, Waiting, Held
  <2> QED
    BY <2>1, <2>2 DEF Queue!Arrive
<1>8. CASE CardFetch
  BY <1>8, <1>i, QueueSame DEF CardFetch, rxVars
<1>9. CASE CardSent
  BY <1>9, <1>i, QueueSame DEF CardSent, rxVars
<1>10. CASE UNCHANGED vars
  BY <1>10, <1>i, QueueSame DEF vars, rxVars
<1> QED
  BY <1>1, <1>2, <1>3, <1>4, <1>5, <1>6, <1>7, <1>8, <1>9, <1>10 DEF Next, Driver, Card

(* For rings of every size the receive ring, with its discarded errors,    *)
(* pieces and misses, is a queue of numbered frames: get_packet returns    *)
(* the oldest stored frame, once, and it stays as it is until put_packet.  *)
THEOREM RingIsQueue == Spec => ImplementsQueue
<1>1. Init => Queue!Init
  <2> SUFFICES ASSUME Init PROVE Queue!Init
    OBVIOUS
  <2>1. Waiting = {} /\ arrived = 0 /\ pc = "idle"
    BY DEF Init, rtl8101_init, Waiting
  <2> QED
    BY <2>1 DEF Queue!Init, Queued
<1>2. RingInv /\ [Next]_vars => [Queue!Next]_(Queue!vars)
  BY QueueStep
<1> QED
  BY RingInvariant, <1>1, <1>2, PTL DEF Spec, ImplementsQueue, Queue!Spec
=============================================================================
