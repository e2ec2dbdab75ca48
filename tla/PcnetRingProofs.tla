-------------------------- MODULE PcnetRingProofs --------------------------
(***************************************************************************)
(* Proofs about the rings of the PCnet driver, for rings of every size.    *)
(*                                                                         *)
(* The driver and the card never compare their offsets: each looks at the  *)
(* OWN bit of its own descriptor only.  What keeps them apart is that the  *)
(* descriptors of the driver are always one run of the ring, from          *)
(* rx_offset up to rxCard, and those of the card in the transmit ring one  *)
(* run from txCard up to tx_offset.                                        *)
(***************************************************************************)
EXTENDS PcnetRing, RingRuns

(* Descriptors of the receive ring the driver has to give back.            *)
RxRun == IsRun(Ring, Waiting, rx_offset, rxCard)

(* The frames of the run are in the order of their arrival.                *)
RxOrder ==
    /\ \A i \in Waiting : rx[i].frame \in 1..arrived
    /\ \A i, j \in Waiting :
         Pos(Ring, rx_offset, i) < Pos(Ring, rx_offset, j) => rx[i].frame < rx[j].frame

last == handled[Len(handled)]

(* Every frame of the run but the held one is later than the last handled. *)
RxLater ==
    handled # <<>> =>
        /\ last <= arrived
        /\ \A i \in Waiting :
             ~(pc # "idle" /\ i = rx_offset) => last < rx[i].frame

(* NoneLost, with the status the driver will find.                         *)
Kept ==
    \A f \in stored :
        \/ f \in Handled
        \/ \E i \in Waiting : rx[i].frame = f /\ rx[i].kind = "whole"

(* A frame is held from get_packet to put_packet.                          *)
HeldSome == pc # "idle" => handled # <<>>

RxInv ==
    /\ TypeOK
    /\ HeldSome
    /\ RxRun
    /\ RxOrder
    /\ RxLater
    /\ HeldIntact
    /\ HandledInOrder
    /\ Kept

(* Descriptors of the transmit ring the card has to send.                  *)
Unsent == {i \in Slot : tx[i].own = "card"}

TxRun == IsRun(Ring, Unsent, txCard, tx_offset)

(* The run holds the answers that have not been sent, in order.            *)
TxCount == Len(answers) = Len(wire) + RunLength(Ring, Unsent, txCard, tx_offset)

TxContents ==
    \A i \in Unsent : tx[i].frame = answers[Len(wire) + 1 + Pos(Ring, txCard, i)]

TxBuilding ==
    pc = "building" => tx_offset \notin Unsent /\ tx[tx_offset].frame = last

TxInv == TxRun /\ TxCount /\ TxContents /\ TxBuilding /\ WireIsAnswers

-----------------------------------------------------------------------------
(* Going round the ring: the facts of RingRuns for this ring.              *)

LEMMA ThisRing ==
    /\ Ring \in Nat \ {0}
    /\ Slot = Slots(Ring)
    /\ \A i \in Slot : Advance(i) = After(Ring, i)
BY RingConstants DEF Slot, Slots, Advance, After

LEMMA AdvanceType == \A i \in Slot : Advance(i) \in Slot
BY ThisRing, AfterType

LEMMA SlotPos ==
    ASSUME NEW lo \in Slot, NEW i \in Slot
    PROVE  /\ Pos(Ring, lo, i) \in 0..Ring - 1
           /\ Pos(Ring, lo, i) = 0 <=> i = lo
           /\ i # lo => Pos(Ring, Advance(lo), i) = Pos(Ring, lo, i) - 1
           /\ Pos(Ring, Advance(lo), lo) = Ring - 1
           /\ Advance(i) # lo => Pos(Ring, lo, Advance(i)) = Pos(Ring, lo, i) + 1
           /\ Advance(i) = lo <=> Pos(Ring, lo, i) = Ring - 1
           /\ \A j \in Slot : Pos(Ring, lo, i) = Pos(Ring, lo, j) => i = j
BY ThisRing, PosFacts

LEMMA RunTakes ==
    ASSUME NEW lo \in Slot, NEW hi \in Slot, NEW S \in SUBSET Slot,
           IsRun(Ring, S, lo, hi), lo \in S
    PROVE  /\ IsRun(Ring, S \ {lo}, Advance(lo), hi)
           /\ RunLength(Ring, S \ {lo}, Advance(lo), hi) = RunLength(Ring, S, lo, hi) - 1
BY ThisRing, RunShrinks

LEMMA RunAdds ==
    ASSUME NEW lo \in Slot, NEW hi \in Slot, NEW S \in SUBSET Slot,
           IsRun(Ring, S, lo, hi), hi \notin S
    PROVE  /\ IsRun(Ring, S \cup {hi}, lo, Advance(hi))
           /\ RunLength(Ring, S \cup {hi}, lo, Advance(hi)) = RunLength(Ring, S, lo, hi) + 1
           /\ RunLength(Ring, S, lo, hi) = Pos(Ring, lo, hi)
           /\ \A i \in S : Pos(Ring, lo, i) < Pos(Ring, lo, hi)
BY ThisRing, RunGrows

-----------------------------------------------------------------------------
(* Types.                                                                  *)

LEMMA ZeroSlot == 0 \in Slot
BY RingConstants DEF Slot

(* What giving back a descriptor changes.                                  *)
LEMMA GiveBackFacts ==
    ASSUME TypeOK, GiveBack
    PROVE  /\ rx' \in [Slot -> RxDescriptor]
           /\ rx_offset' = Advance(rx_offset)
           /\ rx_offset' \in Slot
           /\ rx'[rx_offset].own = "card"
           /\ \A i \in Slot : /\ rx'[i].frame = rx[i].frame
                              /\ rx'[i].kind = rx[i].kind
                              /\ i # rx_offset => rx'[i] = rx[i]
<1>1. rx_offset \in Slot /\ rx \in [Slot -> RxDescriptor]
  BY DEF TypeOK
<1>2. rx' = [rx EXCEPT ![rx_offset].own = "card"]
  BY DEF GiveBack
<1>3. rx' \in [Slot -> RxDescriptor]
  BY <1>1, <1>2 DEF RxDescriptor
<1>4. rx'[rx_offset].own = "card"
  BY <1>1, <1>2 DEF RxDescriptor
<1>5. ASSUME NEW i \in Slot
      PROVE  /\ rx'[i].frame = rx[i].frame
             /\ rx'[i].kind = rx[i].kind
             /\ i # rx_offset => rx'[i] = rx[i]
  BY <1>1, <1>2 DEF RxDescriptor
<1>6. rx_offset' = Advance(rx_offset) /\ rx_offset' \in Slot
  BY <1>1, AdvanceType DEF GiveBack
<1> QED
  BY <1>3, <1>4, <1>5, <1>6

(* What receiving a frame changes.                                         *)
LEMMA ReceiveFacts ==
    ASSUME TypeOK, NEW k \in ArrivingKinds, CardReceive(k)
    PROVE  /\ rx' \in [Slot -> RxDescriptor]
           /\ rxCard' = Advance(rxCard)
           /\ rxCard' \in Slot
           /\ rxCard \notin Waiting
           /\ rx'[rxCard].own = "driver"
           /\ rx'[rxCard].kind = k
           /\ rx'[rxCard].frame = arrived + 1
           /\ \A i \in Slot : i # rxCard => rx'[i] = rx[i]
<1>1. rxCard \in Slot /\ rx \in [Slot -> RxDescriptor] /\ arrived \in Nat
  BY DEF TypeOK
<1>2. k \in WholeKinds \cup PieceKinds
  BY RingConstants DEF ArrivingKinds, WholeKinds, PieceKinds
<1> DEFINE d == [own |-> "driver", kind |-> k, frame |-> arrived + 1]
<1>3. /\ d \in RxDescriptor
      /\ d.own = "driver" /\ d.kind = k /\ d.frame = arrived + 1
  BY <1>1, <1>2 DEF RxDescriptor
<1>4. rx' = [rx EXCEPT ![rxCard] = d]
  BY DEF CardReceive
<1> HIDE DEF d
<1>5. rx' \in [Slot -> RxDescriptor] /\ rx'[rxCard] = d
  BY <1>1, <1>3, <1>4
<1>6. \A i \in Slot : i # rxCard => rx'[i] = rx[i]
  BY <1>1, <1>4
<1>7. rxCard' = Advance(rxCard) /\ rxCard' \in Slot /\ rxCard \notin Waiting
  BY <1>1, AdvanceType DEF CardReceive, Waiting
<1> QED
  BY <1>3, <1>5, <1>6, <1>7

(* What filling a transmit buffer and changing its owner change.           *)
LEMMA FillFacts ==
    ASSUME TypeOK, Fill
    PROVE  /\ tx' \in [Slot -> TxDescriptor]
           /\ tx'[tx_offset].frame = rx[rx_offset].frame
           /\ \A i \in Slot : /\ tx'[i].own = tx[i].own
                              /\ i # tx_offset => tx'[i] = tx[i]
<1>1. tx_offset \in Slot /\ tx \in [Slot -> TxDescriptor]
  BY DEF TypeOK
<1>2. rx[rx_offset].frame \in Nat
  BY DEF TypeOK, RxDescriptor
<1>3. tx' = [tx EXCEPT ![tx_offset].frame = rx[rx_offset].frame]
  BY DEF Fill
<1> QED
  BY <1>1, <1>2, <1>3 DEF TxDescriptor

LEMMA OwnFacts ==
    ASSUME TypeOK, NEW n \in Slot, NEW o \in {"card", "driver"},
           tx' = [tx EXCEPT ![n].own = o]
    PROVE  /\ tx' \in [Slot -> TxDescriptor]
           /\ tx'[n].own = o
           /\ \A i \in Slot : /\ tx'[i].frame = tx[i].frame
                              /\ i # n => tx'[i] = tx[i]
<1>1. tx \in [Slot -> TxDescriptor]
  BY DEF TypeOK
<1> QED
  BY <1>1 DEF TxDescriptor

LEMMA LastHandled ==
    ASSUME TypeOK, handled # <<>>
    PROVE  handled[Len(handled)] \in Nat /\ Len(handled) \in Nat \ {0}
BY DEF TypeOK

LEMMA AppendFacts ==
    ASSUME NEW s \in Seq(Nat), NEW x \in Nat
    PROVE  /\ Append(s, x) \in Seq(Nat)
           /\ Append(s, x) # <<>>
           /\ Len(Append(s, x)) = Len(s) + 1
           /\ Append(s, x)[Len(s) + 1] = x
           /\ \A i \in 1..Len(s) : Append(s, x)[i] = s[i]
<1>1. Len(Append(s, x)) = Len(s) + 1 /\ Len(s) \in Nat
  OBVIOUS
<1>2. Append(s, x) # <<>>
  BY <1>1
<1> QED
  BY <1>1, <1>2

LEMMA TypeStep ==
    ASSUME TypeOK, HeldSome, [Next]_vars
    PROVE  TypeOK' /\ HeldSome'
<1> USE DEF HeldSome
<1>1. CASE pcnet32_get_packet
  <2>1. rx[rx_offset].frame \in Nat
    BY DEF TypeOK, RxDescriptor
  <2>2. rx' \in [Slot -> RxDescriptor] /\ rx_offset' \in Slot
    BY <1>1, GiveBackFacts DEF TypeOK, pcnet32_get_packet
  <2>3. /\ handled' \in Seq(Nat)
        /\ pc' \in {"idle", "handling", "building", "handled"}
        /\ HeldSome'
    <3>1. CASE UNCHANGED <<handled, pc>>
      BY <3>1 DEF TypeOK
    <3>2. CASE handled' = Append(handled, rx[rx_offset].frame) /\ pc' = "handling"
      BY <3>2, <2>1, AppendFacts DEF TypeOK
    <3> QED
      BY <1>1, <3>1, <3>2 DEF pcnet32_get_packet
  <2> QED
    BY <1>1, <2>2, <2>3 DEF TypeOK, pcnet32_get_packet, cardVars, txVars
<1>2. ASSUME NEW sz \in Sizes, pcnet32_prepare_send_packet(sz)
      PROVE  TypeOK' /\ HeldSome'
  <2>1. tx' \in [Slot -> TxDescriptor]
    BY <1>2, FillFacts DEF TypeOK, pcnet32_prepare_send_packet
  <2> QED
    BY <1>2, <2>1 DEF TypeOK, pcnet32_prepare_send_packet, rxVars, cardVars
<1>3. CASE pcnet32_send_packet
  <2>1. tx' \in [Slot -> TxDescriptor] /\ tx_offset' \in Slot
    BY <1>3, AdvanceType, OwnFacts DEF TypeOK, pcnet32_send_packet
  <2>2. answers' \in Seq(Nat)
    BY <1>3, LastHandled DEF TypeOK, pcnet32_send_packet
  <2> QED
    BY <1>3, <2>1, <2>2 DEF TypeOK, pcnet32_send_packet, rxVars, cardVars
<1>4. CASE pcnet32_put_packet
  <2>1. rx' \in [Slot -> RxDescriptor] /\ rx_offset' \in Slot
    BY <1>4, GiveBackFacts DEF pcnet32_put_packet
  <2> QED
    BY <1>4, <2>1 DEF TypeOK, pcnet32_put_packet, cardVars, txVars
<1>5. ASSUME NEW k \in ArrivingKinds, CardReceive(k)
      PROVE  TypeOK' /\ HeldSome'
  <2>1. rx' \in [Slot -> RxDescriptor] /\ rxCard' \in Slot
    BY <1>5, ReceiveFacts
  <2>2. arrived' \in Nat /\ stored' \subseteq Nat
    BY <1>5 DEF TypeOK, CardReceive
  <2> QED
    BY <1>5, <2>1, <2>2 DEF TypeOK, CardReceive, txVars
<1>6. CASE CardMiss
  <2>1. arrived' \in Nat /\ missed' \subseteq Nat
    BY <1>6 DEF TypeOK, CardMiss
  <2> QED
    BY <1>6, <2>1 DEF TypeOK, CardMiss, txVars
<1>7. CASE CardTransmit
  <2>1. tx' \in [Slot -> TxDescriptor] /\ txCard' \in Slot
    BY <1>7, AdvanceType, OwnFacts DEF TypeOK, CardTransmit
  <2>2. wire' \in Seq(Nat)
    BY <1>7 DEF TypeOK, CardTransmit, TxDescriptor
  <2> QED
    BY <1>7, <2>1, <2>2 DEF TypeOK, CardTransmit, rxVars, cardVars
<1>8. CASE UNCHANGED vars
  BY <1>8 DEF TypeOK, vars, rxVars, cardVars, txVars
<1> QED
  BY <1>1, <1>2, <1>3, <1>4, <1>5, <1>6, <1>7, <1>8 DEF Next, Driver, Card

LEMMA InitType == Init => TypeOK /\ HeldSome
<1> SUFFICES ASSUME Init PROVE TypeOK /\ HeldSome
  OBVIOUS
<1>1. rx \in [Slot -> RxDescriptor]
  BY DEF Init, pcnet32_init, RxDescriptor, WholeKinds
<1>2. tx \in [Slot -> TxDescriptor]
  BY DEF Init, pcnet32_init, TxDescriptor
<1> QED
  BY <1>1, <1>2, ZeroSlot DEF Init, pcnet32_init, TypeOK, HeldSome

(* Every variable keeps its type, whatever the card receives.              *)
THEOREM RingTypeCorrect == Spec => []TypeOK
<1>1. TypeOK /\ HeldSome /\ [Next]_vars => (TypeOK /\ HeldSome)'
  BY TypeStep
<1> QED
  BY InitType, <1>1, PTL DEF Spec

-----------------------------------------------------------------------------
(* The receive ring: the four things a step can do to it.                  *)

LEMMA RxGiveBack ==
    ASSUME RxInv, TypeOK', GiveBack, rx_offset \in Waiting,
           UNCHANGED <<cardVars, handled>>, pc' = "idle",
           pc # "idle" \/ rx[rx_offset].kind # "whole"
    PROVE  RxInv'
<1> USE DEF RxInv
<1>t. /\ rx_offset \in Slot /\ rxCard \in Slot /\ Waiting \subseteq Slot
      /\ UNCHANGED <<rxCard, arrived, stored, handled>>
      /\ rx_offset' = Advance(rx_offset)
      /\ \A i \in Slot : rx'[i].frame = rx[i].frame /\ rx'[i].kind = rx[i].kind
  BY GiveBackFacts DEF TypeOK, Waiting, cardVars
<1>w. Waiting' = Waiting \ {rx_offset}
  BY GiveBackFacts DEF Waiting, TypeOK
<1>1. RxRun'
  BY RunTakes, <1>t, <1>w DEF RxRun
<1>2. RxOrder'
  <2>1. \A i \in Waiting' : /\ i \in Waiting /\ i \in Slot
                            /\ Pos(Ring, rx_offset', i) = Pos(Ring, rx_offset, i) - 1
                            /\ Pos(Ring, rx_offset, i) \in Int
                            /\ rx'[i].frame = rx[i].frame
    BY <1>t, <1>w, SlotPos
  <2> QED
    BY <2>1, <1>t DEF RxOrder
<1>3. RxLater'
  BY <1>t, <1>w DEF RxLater, last
<1>4. HeldIntact' /\ HeldSome' /\ HandledInOrder'
  BY <1>t DEF HeldIntact, HeldSome, HandledInOrder
<1>5. Kept'
  <2> SUFFICES ASSUME NEW f \in stored, f \notin Handled
               PROVE  \E i \in Waiting' : rx'[i].frame = f /\ rx'[i].kind = "whole"
    BY <1>t DEF Kept, Handled
  <2>1. PICK i \in Waiting : rx[i].frame = f /\ rx[i].kind = "whole"
    BY DEF Kept
  <2>2. i # rx_offset
    <3>1. CASE pc # "idle"
      <4>1. rx[rx_offset].frame = handled[Len(handled)] /\ handled # <<>>
        BY <3>1 DEF HeldIntact, HeldSome
      <4>2. rx[rx_offset].frame \in Handled
        BY <4>1, LastHandled DEF Handled
      <4> QED
        BY <4>2, <2>1
    <3>2. CASE rx[rx_offset].kind # "whole"
      BY <2>1, <3>2
    <3> QED
      BY <3>1, <3>2
  <2> QED
    BY <2>1, <2>2, <1>t, <1>w
<1> QED
  BY <1>1, <1>2, <1>3, <1>4, <1>5

LEMMA RxReceive ==
    ASSUME RxInv, TypeOK', NEW k \in ArrivingKinds, CardReceive(k)
    PROVE  RxInv'
<1> USE DEF RxInv
<1>t. /\ rx_offset \in Slot /\ rxCard \in Slot /\ Waiting \subseteq Slot
      /\ arrived \in Nat /\ arrived' = arrived + 1
      /\ UNCHANGED <<rx_offset, handled, pc>>
      /\ rxCard' = Advance(rxCard)
  BY DEF TypeOK, Waiting, CardReceive
<1>n. /\ rxCard \notin Waiting
      /\ rx'[rxCard].frame = arrived + 1 /\ rx'[rxCard].kind = k
      /\ \A i \in Slot : i # rxCard => rx'[i] = rx[i]
  BY ReceiveFacts
<1>w. Waiting' = Waiting \cup {rxCard}
  BY ReceiveFacts DEF Waiting, TypeOK
<1>s. \A i \in Waiting : i # rxCard /\ rx'[i] = rx[i] /\ rx[i].frame \in Nat
  BY <1>n, <1>t DEF TypeOK, RxDescriptor
<1>p. \A i \in Waiting : Pos(Ring, rx_offset, i) < Pos(Ring, rx_offset, rxCard)
  BY RunAdds, <1>t, <1>n DEF RxRun
<1>1. RxRun'
  BY RunAdds, <1>t, <1>n, <1>w DEF RxRun
<1>2. RxOrder'
  <2>1. \A i \in Waiting : rx[i].frame \in 1..arrived
    BY DEF RxOrder
  <2>2. \A i \in Waiting' : rx'[i].frame \in 1..arrived'
    BY <2>1, <1>s, <1>n, <1>t, <1>w
  <2>3. ASSUME NEW i \in Waiting', NEW j \in Waiting',
               Pos(Ring, rx_offset, i) < Pos(Ring, rx_offset, j)
        PROVE  rx'[i].frame < rx'[j].frame
    <3>p. /\ \A m \in Waiting' : Pos(Ring, rx_offset, m) \in Int
          /\ Pos(Ring, rx_offset, rxCard) \in Int
      BY <1>t, <1>w, SlotPos
    <3>1. i \in Waiting
      BY <2>3, <1>p, <1>w, <3>p
    <3>2. CASE j = rxCard
      BY <3>1, <3>2, <2>1, <1>s, <1>n, <1>t
    <3>3. CASE j # rxCard
      BY <3>1, <3>3, <2>3, <1>s, <1>w DEF RxOrder
    <3> QED
      BY <3>2, <3>3
  <2> QED
    BY <2>2, <2>3, <1>t DEF RxOrder
<1>3. RxLater'
  <2> SUFFICES ASSUME handled # <<>>
               PROVE  /\ last <= arrived + 1
                      /\ \A i \in Waiting' :
                           ~(pc # "idle" /\ i = rx_offset) => last < rx'[i].frame
    BY <1>t DEF RxLater, last
  <2>1. last \in Nat /\ last <= arrived
    BY LastHandled DEF RxLater, last
  <2>2. ASSUME NEW i \in Waiting', ~(pc # "idle" /\ i = rx_offset)
        PROVE  last < rx'[i].frame
    <3>1. CASE i = rxCard
      BY <3>1, <2>1, <1>n, <1>t
    <3>2. CASE i # rxCard
      BY <3>2, <2>2, <1>s, <1>w DEF RxLater
    <3> QED
      BY <3>1, <3>2
  <2> QED
    BY <2>1, <2>2, <1>t
<1>4. HeldIntact'
  <2>1. pc # "idle" => rx_offset \in Waiting
    BY <1>t DEF HeldIntact, Waiting
  <2> QED
    BY <2>1, <1>s, <1>t DEF HeldIntact
<1>5. HeldSome' /\ HandledInOrder'
  BY <1>t DEF HeldSome, HandledInOrder
<1>6. Kept'
  <2> SUFFICES ASSUME NEW f \in stored', f \notin Handled
               PROVE  \E i \in Waiting' : rx'[i].frame = f /\ rx'[i].kind = "whole"
    BY <1>t DEF Kept, Handled
  <2>1. CASE f \in stored
    BY <2>1, <1>s, <1>w DEF Kept
  <2>2. CASE f \notin stored
    <3>1. k = "whole" /\ f = arrived + 1
      BY <2>2 DEF CardReceive
    <3> QED
      BY <3>1, <1>n, <1>w
  <2> QED
    BY <2>1, <2>2
<1> QED
  BY <1>1, <1>2, <1>3, <1>4, <1>5, <1>6

LEMMA RxDeliver ==
    ASSUME RxInv, TypeOK', pc = "idle", rx_offset \in Waiting,
           handled' = Append(handled, rx[rx_offset].frame),
           pc' = "handling", UNCHANGED <<rx, rx_offset, cardVars>>
    PROVE  RxInv'
<1> USE DEF RxInv
<1> DEFINE f == rx[rx_offset].frame
<1>t. /\ rx_offset \in Slot /\ Waiting \subseteq Slot /\ f \in Nat
      /\ handled \in Seq(Nat) /\ Len(handled) \in Nat
      /\ UNCHANGED <<rx, rx_offset, rxCard, arrived, stored>>
      /\ \A i \in Waiting : rx[i].frame \in Nat
  BY DEF TypeOK, Waiting, RxDescriptor, cardVars
<1>h. /\ Len(handled') = Len(handled) + 1 /\ handled' # <<>>
      /\ handled'[Len(handled) + 1] = f
      /\ \A i \in 1..Len(handled) : handled'[i] = handled[i]
  BY AppendFacts, <1>t
<1>w. Waiting' = Waiting
  BY <1>t DEF Waiting
<1>1. RxRun' /\ RxOrder'
  BY <1>t, <1>w DEF RxRun, RxOrder
<1>2. RxLater'
  <2>1. f <= arrived
    BY DEF RxOrder
  <2>2. ASSUME NEW i \in Waiting, i # rx_offset
        PROVE  f < rx[i].frame
    <3>1. /\ Pos(Ring, rx_offset, i) \in Nat /\ Pos(Ring, rx_offset, rx_offset) = 0
          /\ Pos(Ring, rx_offset, i) # 0
      BY <2>2, <1>t, SlotPos
    <3> QED
      BY <3>1 DEF RxOrder
  <2>3. last' = f
    BY <1>h DEF last
  <2> QED
    BY <2>1, <2>2, <2>3, <1>t, <1>w DEF RxLater
<1>3. HeldIntact' /\ HeldSome'
  BY <1>h, <1>t DEF HeldIntact, HeldSome, Waiting
<1>4. HandledInOrder'
  <2> SUFFICES ASSUME NEW i \in 1..Len(handled)
               PROVE  handled'[i] < handled'[i + 1]
    BY <1>h, <1>t DEF HandledInOrder
  <2>1. CASE i = Len(handled)
    <3>1. handled # <<>>
      BY <2>1, <1>t
    <3>2. last < f
      BY <3>1 DEF RxLater
    <3> QED
      BY <2>1, <3>2, <1>h DEF last
  <2>2. CASE i # Len(handled)
    <3>1. i \in 1..Len(handled) - 1 /\ i + 1 \in 1..Len(handled)
      BY <2>2, <1>t
    <3> QED
      BY <3>1, <1>h DEF HandledInOrder
  <2> QED
    BY <2>1, <2>2
<1>5. Kept'
  <2>1. Handled \subseteq Handled'
    BY <1>h, <1>t DEF Handled
  <2> QED
    BY <2>1, <1>t, <1>w DEF Kept
<1> QED
  BY <1>1, <1>2, <1>3, <1>4, <1>5

LEMMA RxSame ==
    ASSUME RxInv, TypeOK', HeldSome', UNCHANGED <<rx, rx_offset, rxCard, stored, handled>>,
           arrived' >= arrived, pc' = "idle" <=> pc = "idle"
    PROVE  RxInv'
<1> USE DEF RxInv
<1>w. Waiting' = Waiting
  BY DEF Waiting
<1>1. RxRun'
  BY <1>w DEF RxRun
<1>2. RxOrder'
  <2>1. \A i \in Waiting : rx[i].frame \in Nat /\ arrived \in Nat /\ arrived' \in Nat
    BY DEF TypeOK, RxDescriptor, Waiting
  <2> QED
    BY <1>w, <2>1 DEF RxOrder
<1>3. RxLater'
  <2>1. handled # <<>> => last \in Nat /\ arrived \in Nat /\ arrived' \in Nat
    BY LastHandled DEF TypeOK, last
  <2> QED
    BY <1>w, <2>1 DEF RxLater, last
<1>4. HeldIntact' /\ HandledInOrder'
  BY DEF HeldIntact, HandledInOrder
<1>5. Kept'
  BY <1>w DEF Kept, Handled
<1> QED
  BY <1>1, <1>2, <1>3, <1>4, <1>5

LEMMA RxStep ==
    ASSUME RxInv, [Next]_vars
    PROVE  RxInv'
<1>t. TypeOK' /\ HeldSome'
  BY TypeStep DEF RxInv
<1>a. arrived \in Nat /\ rx_offset \in Slot
  BY DEF RxInv, TypeOK
<1>h. pc # "idle" => rx_offset \in Waiting
  BY <1>a DEF RxInv, HeldIntact, Waiting
<1>1. CASE pcnet32_get_packet
  <2>w. rx_offset \in Waiting /\ pc = "idle" /\ UNCHANGED cardVars
    BY <1>1, <1>a DEF pcnet32_get_packet, Waiting
  <2>1. CASE rx[rx_offset].kind \in {"error"} \cup PieceKinds
    BY <1>1, <2>1, <2>w, <1>t, RxGiveBack DEF pcnet32_get_packet, PieceKinds
  <2>2. CASE rx[rx_offset].kind = "whole"
    BY <1>1, <2>2, <2>w, <1>t, RxDeliver DEF pcnet32_get_packet, PieceKinds
  <2>3. CASE rx[rx_offset].kind = "runt"
    <3>1. UNCHANGED <<rx, rx_offset, rxCard, stored, handled, arrived, pc>>
      BY <1>1, <2>3 DEF pcnet32_get_packet, PieceKinds, cardVars
    <3> QED
      BY <3>1, <1>t, <1>a, RxSame
  <2> QED
    BY <1>1, <2>1, <2>2, <2>3 DEF pcnet32_get_packet
<1>2. ASSUME NEW sz \in Sizes, pcnet32_prepare_send_packet(sz)
      PROVE  RxInv'
  BY <1>2, <1>t, <1>a, RxSame DEF pcnet32_prepare_send_packet, rxVars, cardVars
<1>3. CASE pcnet32_send_packet
  BY <1>3, <1>t, <1>a, RxSame DEF pcnet32_send_packet, rxVars, cardVars
<1>4. CASE pcnet32_put_packet
  BY <1>4, <1>t, <1>h, RxGiveBack DEF pcnet32_put_packet
<1>5. ASSUME NEW k \in ArrivingKinds, CardReceive(k)
      PROVE  RxInv'
  BY <1>5, <1>t, RxReceive
<1>6. CASE CardMiss
  BY <1>6, <1>t, <1>a, RxSame DEF CardMiss
<1>7. CASE CardTransmit
  BY <1>7, <1>t, <1>a, RxSame DEF CardTransmit, rxVars, cardVars
<1>8. CASE UNCHANGED vars
  BY <1>8, <1>t, <1>a, RxSame DEF vars, rxVars, cardVars
<1> QED
  BY <1>1, <1>2, <1>3, <1>4, <1>5, <1>6, <1>7, <1>8 DEF Next, Driver, Card

LEMMA RxInit == Init => RxInv
<1> SUFFICES ASSUME Init PROVE RxInv
  OBVIOUS
<1>1. Waiting = {} /\ rx_offset = rxCard
  BY DEF Init, pcnet32_init, Waiting
<1>2. handled = <<>> /\ stored = {} /\ pc = "idle" /\ Len(handled) = 0
  BY DEF Init
<1> QED
  BY <1>1, <1>2, InitType DEF RxInv, RxRun, IsRun, RxOrder, RxLater, HeldIntact,
     HandledInOrder, Kept

LEMMA RxInvariant == Spec => []RxInv
<1>1. RxInv /\ [Next]_vars => RxInv'
  BY RxStep
<1> QED
  BY RxInit, <1>1, PTL DEF Spec

(* The buffer net_idle works on is never the card's.                       *)
THEOREM HeldBuffer == Spec => []HeldIntact
<1>1. RxInv => HeldIntact
  BY DEF RxInv
<1> QED
  BY RxInvariant, <1>1, PTL

(* Frames come out of the receive ring in the order they went in.          *)
THEOREM ReceiveOrder == Spec => []HandledInOrder
<1>1. RxInv => HandledInOrder
  BY DEF RxInv
<1> QED
  BY RxInvariant, <1>1, PTL

(* No whole frame the card stored is ever lost.                            *)
THEOREM ReceiveKeeps == Spec => []NoneLost
<1>1. RxInv => NoneLost
  BY DEF RxInv, Kept, NoneLost
<1> QED
  BY RxInvariant, <1>1, PTL

(* The card runs out of descriptors only when the driver owes it all.      *)
THEOREM MissMeansFull == Spec => MissOnlyWhenFull
<1>1. RxInv /\ [Next]_vars => [missed' # missed => Waiting = Slot]_vars
  <2> SUFFICES ASSUME RxInv, [Next]_vars, missed' # missed
               PROVE  Waiting = Slot
    OBVIOUS
  <2>t. /\ rx_offset \in Slot /\ rxCard \in Slot /\ Waiting \subseteq Slot
        /\ Ring \in Nat \ {0}
    BY RingConstants DEF RxInv, TypeOK, Waiting
  <2>1. rxCard \in Waiting
    <3>1. CardMiss
      BY DEF Next, Driver, Card, vars, rxVars, cardVars, pcnet32_get_packet,
         pcnet32_prepare_send_packet, pcnet32_send_packet, pcnet32_put_packet,
         CardReceive, CardTransmit
    <3> QED
      BY <3>1, <2>t DEF CardMiss, Waiting
  <2>2. rx_offset = rxCard
    <3> SUFFICES ASSUME rx_offset # rxCard PROVE FALSE
      OBVIOUS
    <3>1. Pos(Ring, rx_offset, rxCard) < Pos(Ring, rx_offset, rxCard)
      BY <2>1 DEF RxInv, RxRun, IsRun
    <3>2. Pos(Ring, rx_offset, rxCard) \in Int
      BY <2>t, SlotPos
    <3> QED
      BY <3>1, <3>2
  <2> QED
    BY <2>1, <2>2, ThisRing DEF RxInv, RxRun, IsRun
<1> QED
  BY RxInvariant, <1>1, PTL DEF Spec, MissOnlyWhenFull

-----------------------------------------------------------------------------
(* The receive ring is a queue of frames.                                  *)

Held == IF pc = "idle" THEN {} ELSE {rx_offset}
Queued == {rx[i].frame : i \in {j \in Waiting \ Held : rx[j].kind = "whole"}}
held == IF pc = "idle" THEN 0 ELSE rx[rx_offset].frame

Queue == INSTANCE FrameQueue WITH came <- arrived, queue <- Queued, held <- held

(* What net_idle relies on: the receive ring is a queue of whole frames.   *)
ImplementsQueue == Queue!Spec

LEMMA QueueSame ==
    ASSUME UNCHANGED <<rx, rx_offset, arrived>>, pc' = "idle" <=> pc = "idle"
    PROVE  UNCHANGED Queue!vars
<1>1. Waiting' = Waiting /\ Held' = Held
  BY DEF Waiting, Held
<1>2. Queued' = Queued /\ held' = held
  BY <1>1 DEF Queued, held
<1> QED
  BY <1>2 DEF Queue!vars

(* Giving back the descriptor at the offset takes no frame out of the      *)
(* queue if it is the one that is held, or not a whole one.                *)
LEMMA QueueGiveBack ==
    ASSUME TypeOK, GiveBack, pc' = "idle",
           pc # "idle" \/ rx[rx_offset].kind # "whole"
    PROVE  Queued' = Queued
<1> DEFINE P == {j \in Waiting \ Held : rx[j].kind = "whole"}
           Q == {j \in Waiting' : rx'[j].kind = "whole"}
<1>1. /\ Waiting' = Waiting \ {rx_offset} /\ Waiting \in SUBSET Slot
      /\ \A i \in Slot : i # rx_offset => rx'[i] = rx[i]
  BY GiveBackFacts DEF Waiting, TypeOK
<1>2. P = Q
  BY <1>1 DEF Held
<1>3. \A i \in P : rx'[i] = rx[i]
  BY <1>1, <1>2
<1>4. Queued = {rx[i].frame : i \in P} /\ Queued' = {rx'[i].frame : i \in Q}
  <2>1. Held' = {}
    BY DEF Held
  <2> QED
    BY <2>1 DEF Queued
<1> HIDE DEF P, Q
<1> QED
  BY <1>2, <1>3, <1>4

(* get_packet returns the first frame of the queue.                        *)
LEMMA QueueTake ==
    ASSUME RxInv, rx_offset \in Waiting, rx[rx_offset].kind = "whole",
           pc = "idle", pc' = "handling", UNCHANGED <<rx, rx_offset, arrived>>
    PROVE  Queue!get_packet
<1> DEFINE f == rx[rx_offset].frame
           P == {j \in Waiting : rx[j].kind = "whole"}
<1>t. /\ rx_offset \in Slot /\ Waiting \in SUBSET Slot
      /\ \A i \in Waiting : rx[i].frame \in Nat
  BY DEF RxInv, TypeOK, Waiting, RxDescriptor
<1>1. Queued = {rx[i].frame : i \in P}
  BY DEF Queued, Held
<1>2. Queued' = {rx[i].frame : i \in P \ {rx_offset}}
  <2>1. Waiting' = Waiting /\ Held' = {rx_offset}
    BY DEF Waiting, Held
  <2>2. {j \in Waiting' \ Held' : rx'[j].kind = "whole"} = P \ {rx_offset}
    BY <2>1
  <2> QED
    BY <2>2 DEF Queued
<1>3. ASSUME NEW i \in P, i # rx_offset
      PROVE  f < rx[i].frame
  <2>1. Pos(Ring, rx_offset, rx_offset) < Pos(Ring, rx_offset, i)
    BY <1>3, <1>t, SlotPos
  <2> QED
    BY <2>1, <1>3 DEF RxInv, RxOrder
<1>4. rx_offset \in P /\ f \in Nat /\ \A i \in P : rx[i].frame \in Nat
  BY <1>t
<1> HIDE DEF P
<1>5. f \in Queued /\ \A g \in Queued : f <= g
  BY <1>1, <1>3, <1>4
<1>6. Queued' = Queued \ {f}
  BY <1>1, <1>2, <1>3, <1>4
<1>7. held = 0 /\ held' = f
  BY DEF held
<1> HIDE DEF f
<1> QED
  BY <1>5, <1>6, <1>7 DEF Queue!get_packet

LEMMA QueueReceive ==
    ASSUME RxInv, NEW k \in ArrivingKinds, CardReceive(k)
    PROVE  Queue!Arrive
<1> DEFINE P == {j \in Waiting \ Held : rx[j].kind = "whole"}
           Q == {j \in Waiting' \ Held' : rx'[j].kind = "whole"}
<1>t. rx_offset \in Slot /\ rxCard \in Slot /\ Waiting \in SUBSET Slot
  BY DEF RxInv, TypeOK, Waiting
<1>g. /\ rxCard \notin Waiting /\ rx'[rxCard].own = "driver"
      /\ rx'[rxCard].frame = arrived + 1 /\ rx'[rxCard].kind = k
      /\ \A i \in Slot : i # rxCard => rx'[i] = rx[i]
  BY ReceiveFacts DEF RxInv
<1>w. Waiting' = Waiting \cup {rxCard}
  BY <1>t, <1>g DEF Waiting
<1>u. UNCHANGED <<rx_offset, pc>> /\ arrived' = arrived + 1
  BY DEF CardReceive
<1>h. Held' = Held /\ rxCard \notin Held
  BY <1>g, <1>u, <1>t DEF Held, RxInv, HeldIntact, Waiting
<1>1. Queued = {rx[i].frame : i \in P} /\ Queued' = {rx'[i].frame : i \in Q}
  BY DEF Queued
<1>2. \A i \in P : i # rxCard /\ rx'[i] = rx[i]
  BY <1>t, <1>g
<1>3. Q = IF k = "whole" THEN P \cup {rxCard} ELSE P
  BY <1>t, <1>g, <1>w, <1>h
<1> HIDE DEF P, Q
<1>4. Queued' = Queued \/ Queued' = Queued \cup {arrived + 1}
  <2>1. CASE k = "whole"
    BY <2>1, <1>1, <1>2, <1>3, <1>g
  <2>2. CASE k # "whole"
    BY <2>2, <1>1, <1>2, <1>3
  <2> QED
    BY <2>1, <2>2
<1>5. held' = held
  <2>1. CASE pc = "idle"
    BY <2>1, <1>u DEF held
  <2>2. CASE pc # "idle"
    <3>1. rx_offset # rxCard
      BY <2>2, <1>h DEF Held
    <3> QED
      BY <2>2, <3>1, <1>t, <1>g, <1>u DEF held
  <2> QED
    BY <2>1, <2>2
<1> QED
  BY <1>4, <1>5, <1>u DEF Queue!Arrive

LEMMA QueueStep ==
    ASSUME RxInv, [Next]_vars
    PROVE  [Queue!Next]_(Queue!vars)
<1>k. TypeOK /\ rx_offset \in Slot
  BY DEF RxInv, TypeOK
<1>h. pc # "idle" => rx[rx_offset].frame # 0
  BY <1>k DEF RxInv, HeldIntact, RxOrder, Waiting
<1> USE DEF Queue!Next
<1>1. CASE pcnet32_get_packet
  <2>u. pc = "idle" /\ rx_offset \in Waiting /\ UNCHANGED arrived
    BY <1>1, <1>k DEF pcnet32_get_packet, Waiting, cardVars
  <2>1. CASE rx[rx_offset].kind \in {"error"} \cup PieceKinds /\ GiveBack /\ UNCHANGED pc
    <3>1. Queued' = Queued /\ held' = held
      BY <2>1, <2>u, <1>k, QueueGiveBack DEF PieceKinds, held
    <3> QED
      BY <2>u, <3>1 DEF Queue!vars
  <2>2. CASE rx[rx_offset].kind = "whole" /\ pc' = "handling" /\ UNCHANGED <<rx, rx_offset>>
    BY <2>2, <2>u, QueueTake
  <2>3. CASE UNCHANGED <<rx, rx_offset, pc>>
    BY <2>3, <2>u, QueueSame
  <2> QED
    BY <1>1, <2>1, <2>2, <2>3 DEF pcnet32_get_packet
<1>2. ASSUME NEW sz \in Sizes, pcnet32_prepare_send_packet(sz)
      PROVE  [Queue!Next]_(Queue!vars)
  BY <1>2, QueueSame DEF pcnet32_prepare_send_packet, rxVars, cardVars
<1>3. CASE pcnet32_send_packet
  BY <1>3, QueueSame DEF pcnet32_send_packet, rxVars, cardVars
<1>4. CASE pcnet32_put_packet
  <2>1. pc # "idle" /\ pc' = "idle" /\ GiveBack /\ UNCHANGED arrived
    BY <1>4 DEF pcnet32_put_packet, cardVars
  <2>2. Queued' = Queued /\ held # 0 /\ held' = 0
    BY <2>1, <1>k, <1>h, QueueGiveBack DEF held
  <2> QED
    BY <2>1, <2>2 DEF Queue!put_packet
<1>5. ASSUME NEW k \in ArrivingKinds, CardReceive(k)
      PROVE  [Queue!Next]_(Queue!vars)
  BY <1>5, QueueReceive
<1>6. CASE CardMiss
  <2>1. arrived' = arrived + 1 /\ UNCHANGED <<rx, rx_offset, pc>>
    BY <1>6 DEF CardMiss
  <2>2. Queued' = Queued /\ held' = held
    BY <2>1 DEF Queued, Waiting, Held, held
  <2> QED
    BY <2>1, <2>2 DEF Queue!Arrive
<1>7. CASE CardTransmit
  BY <1>7, QueueSame DEF CardTransmit, rxVars, cardVars
<1>8. CASE UNCHANGED vars
  BY <1>8, QueueSame DEF vars, rxVars, cardVars
<1> QED
  BY <1>1, <1>2, <1>3, <1>4, <1>5, <1>6, <1>7, <1>8 DEF Next, Driver, Card

(* For rings of every size the receive ring, with its discarded errors,    *)
(* pieces and misses, is a queue of numbered frames: get_packet returns    *)
(* the oldest stored frame, once, and it stays as it is until put_packet.  *)
THEOREM RingIsQueue == Spec => ImplementsQueue
<1>1. Init => Queue!Init
  <2> SUFFICES ASSUME Init PROVE Queue!Init
    OBVIOUS
  <2>1. Waiting = {} /\ arrived = 0 /\ pc = "idle"
    BY DEF Init, pcnet32_init, Waiting
  <2> QED
    BY <2>1 DEF Queue!Init, Queued, held
<1>2. RxInv /\ [Next]_vars => [Queue!Next]_(Queue!vars)
  BY QueueStep
<1> QED
  BY RxInvariant, <1>1, <1>2, PTL DEF Spec, ImplementsQueue, Queue!Spec

-----------------------------------------------------------------------------
(* The transmit ring.                                                      *)

LEMMA TxTypes ==
    ASSUME TypeOK
    PROVE  /\ txCard \in Slot /\ tx_offset \in Slot /\ Unsent \in SUBSET Slot
           /\ answers \in Seq(Nat) /\ wire \in Seq(Nat)
           /\ Len(answers) \in Nat /\ Len(wire) \in Nat
           /\ \A i \in Slot : tx[i].frame \in Nat
BY DEF TypeOK, Unsent, TxDescriptor

LEMMA TxFill ==
    ASSUME RxInv, TxInv, Fill, tx_offset \notin Unsent, pc # "idle",
           UNCHANGED <<tx_offset, txCard, wire, answers, handled>>
    PROVE  TxInv'
<1> USE DEF TxInv
<1>t. TypeOK
  BY DEF RxInv
<1>w. Unsent' = Unsent
  BY <1>t, FillFacts DEF Unsent
<1>f. /\ \A i \in Unsent : tx'[i] = tx[i]
      /\ tx'[tx_offset].frame = last
  BY <1>t, FillFacts DEF Unsent, RxInv, HeldIntact, last
<1>1. TxRun' /\ TxCount'
  BY <1>w DEF TxRun, TxCount
<1>2. TxContents'
  BY <1>w, <1>f DEF TxContents
<1>3. TxBuilding' /\ WireIsAnswers'
  BY <1>w, <1>f DEF TxBuilding, WireIsAnswers, last
<1> QED
  BY <1>1, <1>2, <1>3

LEMMA TxSend ==
    ASSUME RxInv, TxInv, pcnet32_send_packet
    PROVE  TxInv'
<1> USE DEF TxInv
<1>t. TypeOK
  BY DEF RxInv
<1>k. /\ txCard \in Slot /\ tx_offset \in Slot /\ Unsent \in SUBSET Slot
      /\ answers \in Seq(Nat) /\ wire \in Seq(Nat)
      /\ Len(answers) \in Nat /\ Len(wire) \in Nat
  BY <1>t, TxTypes
<1>u. /\ pc = "building" /\ UNCHANGED <<txCard, wire, handled>>
      /\ tx' = [tx EXCEPT ![tx_offset].own = "card"]
      /\ tx_offset' = Advance(tx_offset)
      /\ answers' = Append(answers, last)
      /\ pc' = "handled"
  BY DEF pcnet32_send_packet, last
<1>b. tx_offset \notin Unsent /\ tx[tx_offset].frame = last
  BY <1>u DEF TxBuilding
<1>f. /\ tx'[tx_offset].own = "card"
      /\ \A i \in Slot : /\ tx'[i].frame = tx[i].frame
                         /\ i # tx_offset => tx'[i] = tx[i]
  BY <1>t, <1>k, <1>u, OwnFacts
<1>w. Unsent' = Unsent \cup {tx_offset}
  BY <1>f, <1>k DEF Unsent
<1>l. last \in Nat
  BY <1>t, <1>u, LastHandled DEF RxInv, HeldSome, last
<1>a. /\ Len(answers') = Len(answers) + 1
      /\ answers'[Len(answers) + 1] = last
      /\ \A i \in 1..Len(answers) : answers'[i] = answers[i]
  BY <1>k, <1>u, <1>l, AppendFacts
<1>r. /\ IsRun(Ring, Unsent', txCard, tx_offset')
      /\ RunLength(Ring, Unsent', txCard, tx_offset')
            = RunLength(Ring, Unsent, txCard, tx_offset) + 1
      /\ RunLength(Ring, Unsent, txCard, tx_offset) = Pos(Ring, txCard, tx_offset)
      /\ \A i \in Unsent : Pos(Ring, txCard, i) < Pos(Ring, txCard, tx_offset)
  BY <1>k, <1>b, <1>u, <1>w, RunAdds DEF TxRun
<1>p. \A i \in Slot : Pos(Ring, txCard, i) \in Nat
  BY <1>k, SlotPos
<1>1. TxRun'
  BY <1>r, <1>u DEF TxRun
<1>2. TxCount'
  BY <1>r, <1>u, <1>a, <1>p, <1>k DEF TxCount
<1>3. TxContents'
  <2> SUFFICES ASSUME NEW i \in Unsent'
               PROVE  tx'[i].frame = answers'[Len(wire) + 1 + Pos(Ring, txCard, i)]
    BY <1>u DEF TxContents
  <2>1. Len(answers) = Len(wire) + Pos(Ring, txCard, tx_offset)
    BY <1>r DEF TxCount
  <2>2. CASE i = tx_offset
    <3>1. Len(wire) + 1 + Pos(Ring, txCard, i) = Len(answers) + 1
      BY <2>1, <2>2, <1>k, <1>p
    <3> QED
      BY <3>1, <2>2, <1>a, <1>b, <1>f, <1>k
  <2>3. CASE i # tx_offset
    <3>1. i \in Unsent /\ i \in Slot
      BY <2>3, <1>w, <1>k
    <3>2. Len(wire) + 1 + Pos(Ring, txCard, i) \in 1..Len(answers)
      BY <2>1, <3>1, <1>r, <1>k, <1>p
    <3> QED
      BY <3>1, <3>2, <1>a, <1>f DEF TxContents
  <2> QED
    BY <2>2, <2>3
<1>4. TxBuilding' /\ WireIsAnswers'
  BY <1>u, <1>a, <1>k DEF TxBuilding, WireIsAnswers
<1> QED
  BY <1>1, <1>2, <1>3, <1>4

LEMMA TxTransmit ==
    ASSUME RxInv, TxInv, CardTransmit
    PROVE  TxInv'
<1> USE DEF TxInv
<1>t. TypeOK
  BY DEF RxInv
<1>k. /\ txCard \in Slot /\ tx_offset \in Slot /\ Unsent \in SUBSET Slot
      /\ answers \in Seq(Nat) /\ wire \in Seq(Nat)
      /\ Len(answers) \in Nat /\ Len(wire) \in Nat
      /\ tx[txCard].frame \in Nat
  BY <1>t, TxTypes
<1>u. /\ tx[txCard].own = "card" /\ UNCHANGED <<tx_offset, answers, handled, pc>>
      /\ tx' = [tx EXCEPT ![txCard].own = "driver"]
      /\ txCard' = Advance(txCard)
      /\ wire' = Append(wire, tx[txCard].frame)
  BY DEF CardTransmit
<1>b. txCard \in Unsent
  BY <1>k, <1>u DEF Unsent
<1>f. /\ tx'[txCard].own = "driver"
      /\ \A i \in Slot : /\ tx'[i].frame = tx[i].frame
                         /\ i # txCard => tx'[i] = tx[i]
  BY <1>t, <1>k, <1>u, OwnFacts
<1>w. Unsent' = Unsent \ {txCard}
  BY <1>f, <1>k DEF Unsent
<1>a. /\ Len(wire') = Len(wire) + 1
      /\ wire'[Len(wire) + 1] = tx[txCard].frame
      /\ \A i \in 1..Len(wire) : wire'[i] = wire[i]
  BY <1>k, <1>u, AppendFacts
<1>r. /\ IsRun(Ring, Unsent', txCard', tx_offset)
      /\ RunLength(Ring, Unsent', txCard', tx_offset)
            = RunLength(Ring, Unsent, txCard, tx_offset) - 1
  BY <1>k, <1>b, <1>u, <1>w, RunTakes DEF TxRun
<1>p. /\ \A i \in Slot : Pos(Ring, txCard, i) \in Nat
      /\ Pos(Ring, txCard, txCard) = 0
      /\ \A i \in Slot : i # txCard => Pos(Ring, txCard', i) = Pos(Ring, txCard, i) - 1
      /\ txCard # tx_offset => Pos(Ring, txCard, tx_offset) # 0
  BY <1>k, <1>u, SlotPos
<1>n. /\ RunLength(Ring, Unsent, txCard, tx_offset) \in Nat \ {0}
  BY <1>k, <1>b, <1>p, RingConstants DEF RunLength
<1>1. TxRun'
  BY <1>r, <1>u DEF TxRun
<1>2. TxCount'
  BY <1>r, <1>u, <1>a, <1>n, <1>k DEF TxCount
<1>3. TxContents'
  <2> SUFFICES ASSUME NEW i \in Unsent'
               PROVE  tx'[i].frame = answers[Len(wire') + 1 + Pos(Ring, txCard', i)]
    BY <1>u DEF TxContents
  <2>1. i \in Unsent /\ i \in Slot /\ i # txCard
    BY <1>w, <1>k
  <2>2. Len(wire') + 1 + Pos(Ring, txCard', i) = Len(wire) + 1 + Pos(Ring, txCard, i)
    BY <2>1, <1>a, <1>p, <1>k
  <2> QED
    BY <2>1, <2>2, <1>f DEF TxContents
<1>4. TxBuilding'
  BY <1>u, <1>w, <1>f, <1>k DEF TxBuilding, last
<1>5. WireIsAnswers'
  <2>1. Len(wire') <= Len(answers)
    BY <1>a, <1>n, <1>k DEF TxCount
  <2>2. wire'[Len(wire) + 1] = answers[Len(wire) + 1]
    <3>1. tx[txCard].frame = answers[Len(wire) + 1 + 0]
      BY <1>b, <1>p DEF TxContents
    <3> QED
      BY <3>1, <1>a, <1>k
  <2>3. ASSUME NEW i \in 1..Len(wire')
        PROVE  wire'[i] = answers[i]
    <3>1. i = Len(wire) + 1 \/ i \in 1..Len(wire)
      BY <1>a, <1>k
    <3> QED
      BY <3>1, <2>2, <1>a DEF WireIsAnswers
  <2> QED
    BY <2>1, <2>3, <1>u DEF WireIsAnswers
<1> QED
  BY <1>1, <1>2, <1>3, <1>4, <1>5

LEMMA TxSame ==
    ASSUME TxInv, UNCHANGED <<tx, tx_offset, txCard, wire, answers>>,
           pc' = "building" => pc = "building" /\ UNCHANGED handled
    PROVE  TxInv'
<1>1. Unsent' = Unsent
  BY DEF Unsent
<1> QED
  BY <1>1 DEF TxInv, TxRun, TxCount, TxContents, TxBuilding, WireIsAnswers, last

LEMMA TxStep ==
    ASSUME RxInv, TxInv, [Next]_vars
    PROVE  TxInv'
<1>1. CASE pcnet32_get_packet
  BY <1>1, TxSame DEF pcnet32_get_packet, txVars
<1>2. ASSUME NEW sz \in Sizes, pcnet32_prepare_send_packet(sz)
      PROVE  TxInv'
  <2>1. CASE sz > MaxPayload /\ pc' = "handled" /\ UNCHANGED tx
    BY <1>2, <2>1, TxSame DEF pcnet32_prepare_send_packet
  <2>2. CASE tx[tx_offset].own = "driver" /\ Fill
    BY <1>2, <2>2, TxFill DEF pcnet32_prepare_send_packet, Unsent
  <2> QED
    BY <1>2, <2>1, <2>2 DEF pcnet32_prepare_send_packet
<1>3. CASE pcnet32_send_packet
  BY <1>3, TxSend
<1>4. CASE pcnet32_put_packet
  BY <1>4, TxSame DEF pcnet32_put_packet, txVars
<1>5. ASSUME NEW k \in ArrivingKinds, CardReceive(k)
      PROVE  TxInv'
  BY <1>5, TxSame DEF CardReceive, txVars
<1>6. CASE CardMiss
  BY <1>6, TxSame DEF CardMiss, txVars
<1>7. CASE CardTransmit
  BY <1>7, TxTransmit
<1>8. CASE UNCHANGED vars
  BY <1>8, TxSame DEF vars, txVars
<1> QED
  BY <1>1, <1>2, <1>3, <1>4, <1>5, <1>6, <1>7, <1>8 DEF Next, Driver, Card

LEMMA TxInit == Init => TxInv
<1> SUFFICES ASSUME Init PROVE TxInv
  OBVIOUS
<1>1. Unsent = {} /\ txCard = tx_offset
  BY DEF Init, pcnet32_init, Unsent
<1>2. answers = <<>> /\ wire = <<>> /\ pc = "idle" /\ Len(answers) = 0 /\ Len(wire) = 0
  BY DEF Init
<1> QED
  BY <1>1, <1>2 DEF TxInv, TxRun, IsRun, TxCount, RunLength, TxContents,
     TxBuilding, WireIsAnswers

(* The card sends the answers that were built, in order and unchanged.     *)
THEOREM SendOrder == Spec => []WireIsAnswers
<1>1. RxInv /\ TxInv /\ [Next]_vars => TxInv'
  BY TxStep
<1>2. TxInv => WireIsAnswers
  BY DEF TxInv
<1> QED
  BY TxInit, RxInvariant, <1>1, <1>2, PTL DEF Spec
=============================================================================
