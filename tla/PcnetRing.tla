----------------------------- MODULE PcnetRing -----------------------------
(***************************************************************************)
(* The PCnet driver (eth/net-pcnet32.c) and the card it shares its two     *)
(* rings of descriptors with.  The bit OWN of a descriptor's status says   *)
(* who may touch it.  The card fills receive descriptors and empties       *)
(* transmit descriptors while net_idle (eth/c-main.c) polls: it takes a    *)
(* frame, perhaps builds and sends one answer, and puts the frame back.    *)
(*                                                                         *)
(* A frame is the number of its arrival.  The answer to a frame carries    *)
(* the frame's number, copied out of the receive buffer.                   *)
(***************************************************************************)
EXTENDS Integers, Sequences

CONSTANTS
    Ring,           \* pcnet32_ring_size, 16 in the code
    RxKinds,        \* what the card stores besides pieces of long frames
    MaxPayload,     \* 1600 - 14: the largest answer a buffer holds
    Sizes,          \* the sizes of answers
    MaxFrames       \* bound: frames and pieces of frames that arrive

(* The status of a filled descriptor.  "error": a bit of 0x7C80.  "whole": *)
(* STP, ENP and a length of 14 or more.  "runt": STP, ENP and less.        *)
WholeKinds == {"whole", "error", "runt"}
(* Pieces of a frame longer than a buffer: STP only, neither, ENP only.    *)
PieceKinds == {"first", "middle", "last"}

ASSUME RingConstants ==
    /\ Ring \in Nat \ {0}
    /\ RxKinds \subseteq WholeKinds \cup {"first"}
    /\ MaxPayload \in Nat
    /\ Sizes \subseteq Nat
    /\ MaxFrames \in Nat

VARIABLES
    rx,             \* pcnet32_rx and pcnet32_rx_packets
    rx_offset,      \* pcnet32_rx_offset
    tx,             \* pcnet32_tx and pcnet32_tx_packets
    tx_offset,      \* pcnet32_tx_offset
    pc,             \* where net_idle is
    rxCard,         \* the descriptor the card receives into next
    txCard,         \* the descriptor the card sends from next
    expects,        \* the card expects a new "frame" or the "rest" of one
    arrived,        \* frames and pieces that have arrived
    missed,         \* those the card had no descriptor for
    stored,         \* history: the whole frames the card stored
    handled,        \* history: the frames get_packet returned, in order
    answers,        \* history: the frames answered, in order
    wire            \* the answers the card has sent, in order

cardVars == <<rxCard, expects, arrived, missed, stored>>
rxVars == <<rx, rx_offset, cardVars>>
txVars == <<tx, tx_offset, txCard, wire>>
vars == <<rxVars, txVars, pc, handled, answers>>

Slot == 0..Ring - 1

-----------------------------------------------------------------------------
(* The driver.                                                             *)

(* Mutant: the offset runs one past the ring before it wraps.              *)
AdvancePastEnd(i) == IF i + 1 > Ring THEN 0 ELSE i + 1

(* The pointer part of pcnet32_adv_packet and of pcnet32_send_packet.      *)
Advance(i) == IF i + 1 >= Ring THEN 0 ELSE i + 1

pcnet32_init ==
    /\ rx = [i \in Slot |-> [own |-> "card", kind |-> "whole", frame |-> 0]]
    /\ tx = [i \in Slot |-> [own |-> "driver", frame |-> 0]]
    /\ rx_offset = 0
    /\ tx_offset = 0

(* Mutant: the descriptor is given back and the offset stays behind.       *)
GiveBackNoAdvance ==
    /\ rx' = [rx EXCEPT ![rx_offset].own = "card"]
    /\ UNCHANGED rx_offset

(* pcnet32_rx_reinit and pcnet32_adv_packet.  The buffer is left alone.    *)
GiveBack ==
    /\ rx' = [rx EXCEPT ![rx_offset].own = "card"]
    /\ rx_offset' = Advance(rx_offset)

(* Mutants: a whole frame is given back before it is used, the descriptor  *)
(* is used without a look at OWN, and error frames are not discarded.      *)
get_packet_early_return ==
    /\ pc = "idle"
    /\ rx[rx_offset].own = "driver"
    /\ GiveBack
    /\ IF rx[rx_offset].kind = "whole"
       THEN /\ handled' = Append(handled, rx[rx_offset].frame)
            /\ pc' = "handling"
       ELSE UNCHANGED <<handled, pc>>
    /\ UNCHANGED <<cardVars, txVars, answers>>

get_packet_no_own ==
    /\ pc = "idle"
    /\ IF rx[rx_offset].kind = "whole"
       THEN /\ handled' = Append(handled, rx[rx_offset].frame)
            /\ pc' = "handling"
            /\ UNCHANGED <<rx, rx_offset>>
       ELSE /\ GiveBack
            /\ UNCHANGED <<handled, pc>>
    /\ UNCHANGED <<cardVars, txVars, answers>>

get_packet_error_stays ==
    /\ pc = "idle"
    /\ rx[rx_offset].own = "driver"
    /\ \/ /\ rx[rx_offset].kind \in PieceKinds
          /\ GiveBack
          /\ UNCHANGED <<handled, pc>>
       \/ /\ rx[rx_offset].kind = "whole"
          /\ handled' = Append(handled, rx[rx_offset].frame)
          /\ pc' = "handling"
          /\ UNCHANGED <<rx, rx_offset>>
    /\ UNCHANGED <<cardVars, txVars, answers>>

(* Frames with errors and pieces are discarded.  A whole frame stays where *)
(* it is while it is used.  A runt stays where it is, too.                 *)
pcnet32_get_packet ==
    /\ pc = "idle"
    /\ rx[rx_offset].own = "driver"
    /\ \/ /\ rx[rx_offset].kind \in {"error"} \cup PieceKinds
          /\ GiveBack
          /\ UNCHANGED <<handled, pc>>
       \/ /\ rx[rx_offset].kind = "whole"
          /\ handled' = Append(handled, rx[rx_offset].frame)
          /\ pc' = "handling"
          /\ UNCHANGED <<rx, rx_offset>>
       \/ /\ rx[rx_offset].kind = "runt"
          /\ UNCHANGED <<rx, rx_offset, handled, pc>>
    /\ UNCHANGED <<cardVars, txVars, answers>>

(* What the handler of a frame writes into the transmit buffer.            *)
Fill == tx' = [tx EXCEPT ![tx_offset].frame = rx[rx_offset].frame]

(* Mutant: the driver does not wait for the card.                          *)
prepare_no_wait(sz) ==
    /\ pc = "handling"
    /\ sz <= MaxPayload
    /\ Fill
    /\ pc' = "building"
    /\ UNCHANGED <<rxVars, tx_offset, txCard, wire, handled, answers>>

(* Too large an answer is refused, and the handler returns.  Otherwise the *)
(* driver waits until it owns the descriptor.                              *)
pcnet32_prepare_send_packet(sz) ==
    /\ pc = "handling"
    /\ \/ /\ sz > MaxPayload
          /\ pc' = "handled"
          /\ UNCHANGED tx
       \/ /\ sz <= MaxPayload
          /\ tx[tx_offset].own = "driver"
          /\ Fill
          /\ pc' = "building"
    /\ UNCHANGED <<rxVars, tx_offset, txCard, wire, handled, answers>>

(* Mutant: the offset is advanced twice.                                   *)
send_packet_skips ==
    /\ pc = "building"
    /\ tx' = [tx EXCEPT ![tx_offset].own = "card"]
    /\ tx_offset' = Advance(Advance(tx_offset))
    /\ answers' = Append(answers, handled[Len(handled)])
    /\ pc' = "handled"
    /\ UNCHANGED <<rxVars, txCard, wire, handled>>

pcnet32_send_packet ==
    /\ pc = "building"
    /\ tx' = [tx EXCEPT ![tx_offset].own = "card"]
    /\ tx_offset' = Advance(tx_offset)
    /\ answers' = Append(answers, handled[Len(handled)])
    /\ pc' = "handled"
    /\ UNCHANGED <<rxVars, txCard, wire, handled>>

(* Mutant: net_idle puts back a frame get_packet has not returned.         *)
put_packet_unasked ==
    /\ pc \in {"idle", "handling", "handled"}
    /\ rx[rx_offset].own = "driver"
    /\ GiveBack
    /\ pc' = "idle"
    /\ UNCHANGED <<cardVars, txVars, handled, answers>>

(* The frame needs no answer, or has got it.                               *)
pcnet32_put_packet ==
    /\ pc \in {"handling", "handled"}
    /\ GiveBack
    /\ pc' = "idle"
    /\ UNCHANGED <<cardVars, txVars, handled, answers>>

-----------------------------------------------------------------------------
(* The card.                                                               *)

(* What can arrive next: a piece of a long frame follows its first piece.  *)
ArrivingKinds == IF expects = "rest" THEN {"middle", "last"} ELSE RxKinds

CardReceive(k) ==
    /\ arrived < MaxFrames
    /\ rx[rxCard].own = "card"
    /\ arrived' = arrived + 1
    /\ expects' = IF k \in {"first", "middle"} THEN "rest" ELSE "frame"
    /\ rx' = [rx EXCEPT ![rxCard] =
                 [own |-> "driver", kind |-> k, frame |-> arrived + 1]]
    /\ rxCard' = Advance(rxCard)
    /\ stored' = IF k = "whole" THEN stored \cup {arrived + 1} ELSE stored
    /\ UNCHANGED <<rx_offset, missed, txVars, pc, handled, answers>>

CardMiss ==
    /\ arrived < MaxFrames
    /\ rx[rxCard].own = "driver"
    /\ arrived' = arrived + 1
    /\ missed' = missed \cup {arrived + 1}
    /\ expects' = "frame"
    /\ UNCHANGED <<rx, rx_offset, rxCard, stored, txVars, pc, handled, answers>>

CardTransmit ==
    /\ tx[txCard].own = "card"
    /\ wire' = Append(wire, tx[txCard].frame)
    /\ tx' = [tx EXCEPT ![txCard].own = "driver"]
    /\ txCard' = Advance(txCard)
    /\ UNCHANGED <<rxVars, tx_offset, pc, handled, answers>>

-----------------------------------------------------------------------------
Init ==
    /\ pcnet32_init
    /\ pc = "idle"
    /\ rxCard = 0
    /\ txCard = 0
    /\ expects = "frame"
    /\ arrived = 0
    /\ missed = {}
    /\ stored = {}
    /\ handled = <<>>
    /\ answers = <<>>
    /\ wire = <<>>

Driver ==
    \/ pcnet32_get_packet
    \/ \E sz \in Sizes : pcnet32_prepare_send_packet(sz)
    \/ pcnet32_send_packet
    \/ pcnet32_put_packet

Card ==
    \/ \E k \in ArrivingKinds : CardReceive(k)
    \/ CardMiss
    \/ CardTransmit

Next == Driver \/ Card

Spec == Init /\ [][Next]_vars

(* main_menu calls net_idle for ever, and the card sends what it is given. *)
FairSpec == Spec /\ WF_vars(Driver) /\ WF_vars(CardTransmit)

-----------------------------------------------------------------------------
RxDescriptor == [own : {"card", "driver"}, kind : WholeKinds \cup PieceKinds,
                 frame : Nat]
TxDescriptor == [own : {"card", "driver"}, frame : Nat]

(* What every variable is.                                                 *)
TypeOK ==
    /\ rx \in [Slot -> RxDescriptor]
    /\ rx_offset \in Slot
    /\ tx \in [Slot -> TxDescriptor]
    /\ tx_offset \in Slot
    /\ pc \in {"idle", "handling", "building", "handled"}
    /\ rxCard \in Slot
    /\ txCard \in Slot
    /\ expects \in {"frame", "rest"}
    /\ arrived \in Nat
    /\ missed \subseteq Nat
    /\ stored \subseteq Nat
    /\ handled \in Seq(Nat)
    /\ answers \in Seq(Nat)
    /\ wire \in Seq(Nat)

(* While net_idle works on a frame, from get_packet to put_packet, the     *)
(* buffer it points into holds that frame and is not the card's.           *)
HeldIntact ==
    pc # "idle" =>
        /\ rx[rx_offset].own = "driver"
        /\ rx[rx_offset].frame = handled[Len(handled)]

(* Frames are handled in the order of their arrival and none twice.        *)
HandledInOrder ==
    \A i \in 1..Len(handled) - 1 : handled[i] < handled[i + 1]

Waiting == {i \in Slot : rx[i].own = "driver"}
Handled == {handled[i] : i \in 1..Len(handled)}

(* No whole frame the card stored is lost: it has been returned by         *)
(* get_packet or waits in a descriptor the card may not touch.             *)
NoneLost ==
    \A f \in stored : f \in Handled \/ \E i \in Waiting : rx[i].frame = f

(* The card misses a frame only when every descriptor holds a frame the    *)
(* driver has not given back: no descriptor is ever stranded between the   *)
(* offsets of the two.                                                     *)
MissOnlyWhenFull ==
    [][missed' # missed => Waiting = Slot]_vars

(* What the card sends is what was answered, in that order, with the       *)
(* contents the handler built: no answer overtakes, repeats or overwrites  *)
(* another in the transmit ring.                                           *)
WireIsAnswers ==
    /\ Len(wire) <= Len(answers)
    /\ \A i \in 1..Len(wire) : wire[i] = answers[i]

(* Every descriptor the card fills is given back, so the card always gets  *)
(* another one, unless polling has come upon a runt and stays there.       *)
AtRunt == rx[rx_offset].own = "driver" /\ rx[rx_offset].kind = "runt"
RingDrains ==
    \A i \in Slot : rx[i].own = "driver" ~> (rx[i].own = "card" \/ AtRunt)

(* Every answer that is built is sent.                                     *)
AnswersGoOut == \A n \in 1..MaxFrames : Len(answers) >= n ~> Len(wire) >= n
=============================================================================
