---------------------------- MODULE Rtl8101Ring ----------------------------
(***************************************************************************)
(* The RTL8101 driver (eth/net-rtl8101.c) and its card.  It is built like  *)
(* the PCnet driver, with these differences: the card finds the end of a   *)
(* ring by the bit EOR of a descriptor, which it may clear when it writes  *)
(* the descriptor back; one transmit descriptor is used, and it is always  *)
(* marked as the end of its ring; both waits for it run out of patience    *)
(* and go on.                                                              *)
(*                                                                         *)
(* A frame is the number of its arrival, and its answer has that number.   *)
(***************************************************************************)
EXTENDS Integers, Sequences

CONSTANTS
    Ring,           \* rtl8101_ring_size, 4 in the code
    RxKinds,        \* what the card stores besides pieces of long frames
    MaxPayload,     \* 1600 - 14
    Sizes,          \* the sizes of answers
    Impatient,      \* the waits that can run out: "prepare", "send"
    MaxFrames       \* bound: frames and pieces of frames that arrive

(* "error": bit 21.  "whole", "runt": first and last, with 14 bytes or     *)
(* more, or fewer.  The others are pieces of a frame beyond a buffer.      *)
PieceKinds == {"first", "middle", "last"}
Kinds == {"error", "whole", "runt"} \cup PieceKinds

ASSUME RtlConstants ==
    /\ Ring \in Nat \ {0}
    /\ RxKinds \subseteq {"error", "whole", "runt", "first"}
    /\ MaxPayload \in Nat
    /\ Sizes \subseteq Nat
    /\ Impatient \subseteq {"prepare", "send"}
    /\ MaxFrames \in Nat

VARIABLES
    rx,             \* rtl8101_rx and rtl8101_rx_packets
    rx_offset,      \* rtl8101_rx_offset
    tx,             \* rtl8101_tx and rtl8101_tx_packets
    tx_offset,      \* rtl8101_tx_offset
    pc,             \* where net_idle is
    rxCard,         \* the descriptor the card receives into next
    txCard,         \* the descriptor the card sends from next
    reading,        \* what the card has begun to read from it, or 0
    expects,        \* the card expects a new "frame" or the "rest" of one
    arrived,        \* frames and pieces that have arrived
    answers,        \* history: the frames answered, in order
    overwrites,     \* history: waits of prepare_send_packet that ran out
    wire            \* what the card has sent, in order

rxVars == <<rx, rx_offset, rxCard, expects, arrived>>
txVars == <<tx, tx_offset, txCard, reading, answers, overwrites, wire>>
vars == <<rxVars, txVars, pc>>

Slot == 0..Ring - 1
Torn == MaxFrames + 1       \* a mixture of two answers

-----------------------------------------------------------------------------
(* The driver.                                                             *)

EndAtLast(i) == IF i = Ring - 1 THEN "end" ELSE "more"

(* The state of rings and offsets when the card is started.                *)
rtl8101_init ==
    /\ rx = [i \in Slot |-> [own |-> "card", eor |-> EndAtLast(i),
                             kind |-> "whole", frame |-> 0]]
    /\ tx = [i \in Slot |-> [own |-> "driver", eor |-> EndAtLast(i), frame |-> 0]]
    /\ rx_offset = 0
    /\ tx_offset = 0

(* Mutants: the mark is left as the card wrote it; the descriptor is given *)
(* back and the offset stays.                                              *)
GiveBackAsIs ==
    /\ rx' = [rx EXCEPT ![rx_offset].own = "card"]
    /\ rx_offset' = IF rx_offset + 1 >= Ring THEN 0 ELSE rx_offset + 1

GiveBackStays ==
    /\ rx' = [rx EXCEPT ![rx_offset].own = "card", ![rx_offset].eor = EndAtLast(rx_offset)]
    /\ UNCHANGED rx_offset

(* rtl8101_rx_reinit and rtl8101_adv_packet.                               *)
GiveBack ==
    /\ rx' = [rx EXCEPT ![rx_offset].own = "card", ![rx_offset].eor = EndAtLast(rx_offset)]
    /\ rx_offset' = IF rx_offset + 1 >= Ring THEN 0 ELSE rx_offset + 1

(* Errors and pieces are discarded, a whole frame stays while it is used,  *)
(* and a runt stays where it is.                                           *)
rtl8101_get_packet ==
    /\ pc = "idle"
    /\ rx[rx_offset].own = "driver"
    /\ \/ rx[rx_offset].kind \in {"error"} \cup PieceKinds /\ GiveBack /\ UNCHANGED pc
       \/ rx[rx_offset].kind = "whole" /\ pc' = "handling" /\ UNCHANGED <<rx, rx_offset>>
       \/ rx[rx_offset].kind = "runt" /\ UNCHANGED <<rx, rx_offset, pc>>
    /\ UNCHANGED <<rxCard, expects, arrived, txVars>>

(* Mutant: the driver does not wait for the card.                          *)
prepare_no_wait(sz) ==
    /\ pc = "handling"
    /\ sz <= MaxPayload
    /\ tx' = [tx EXCEPT ![tx_offset].frame = rx[rx_offset].frame]
    /\ pc' = "building"
    /\ UNCHANGED <<rxVars, tx_offset, txCard, reading, answers, overwrites, wire>>

(* Too large an answer is refused.  Otherwise the driver waits for the     *)
(* descriptor, and after its patience it overwrites the card's buffer.     *)
rtl8101_prepare_send_packet(sz) ==
    /\ pc = "handling"
    /\ \/ /\ sz > MaxPayload
          /\ pc' = "handled"
          /\ UNCHANGED <<tx, overwrites>>
       \/ /\ sz <= MaxPayload
          /\ \/ tx[tx_offset].own = "driver" /\ UNCHANGED overwrites
             \/ /\ tx[tx_offset].own = "card"
                /\ "prepare" \in Impatient
                /\ overwrites' = overwrites + 1
          /\ tx' = [tx EXCEPT ![tx_offset].frame = rx[rx_offset].frame]
          /\ pc' = "building"
    /\ UNCHANGED <<rxVars, tx_offset, txCard, reading, answers, wire>>

(* The descriptor is handed over, marked as the end of the ring.           *)
rtl8101_send_packet ==
    /\ pc = "building"
    /\ tx' = [tx EXCEPT ![tx_offset].own = "card", ![tx_offset].eor = "end"]
    /\ answers' = Append(answers, rx[rx_offset].frame)
    /\ pc' = "sending"
    /\ UNCHANGED <<rxVars, tx_offset, txCard, reading, overwrites, wire>>

(* Mutant: the offset moves to the next descriptor.                        *)
send_wait_advances ==
    /\ pc = "sending"
    /\ tx[tx_offset].own = "driver" \/ "send" \in Impatient
    /\ tx_offset' = IF tx_offset + 1 >= Ring THEN 0 ELSE tx_offset + 1
    /\ pc' = "handled"
    /\ UNCHANGED <<rxVars, tx, txCard, reading, answers, overwrites, wire>>

(* The rest of rtl8101_send_packet: the wait ends when the card is done,   *)
(* or runs out, and the offset is 0 again.                                 *)
rtl8101_send_wait ==
    /\ pc = "sending"
    /\ tx[tx_offset].own = "driver" \/ "send" \in Impatient
    /\ tx_offset' = 0
    /\ pc' = "handled"
    /\ UNCHANGED <<rxVars, tx, txCard, reading, answers, overwrites, wire>>

(* The frame needs no answer, or has got it.                               *)
rtl8101_put_packet ==
    /\ pc \in {"handling", "handled"}
    /\ GiveBack
    /\ pc' = "idle"
    /\ UNCHANGED <<rxCard, expects, arrived, txVars>>

-----------------------------------------------------------------------------
(* The card.                                                               *)

CardNext(ring, i) == IF ring[i].eor = "end" THEN 0 ELSE i + 1

ArrivingKinds == IF expects = "rest" THEN {"middle", "last"} ELSE RxKinds

(* The mark of the descriptor is written back or lost.                     *)
CardReceive(k, eor) ==
    /\ arrived < MaxFrames
    /\ rx[rxCard].own = "card"
    /\ eor \in {"more", rx[rxCard].eor}
    /\ arrived' = arrived + 1
    /\ expects' = IF k \in {"first", "middle"} THEN "rest" ELSE "frame"
    /\ rx' = [rx EXCEPT ![rxCard] = [own |-> "driver", eor |-> eor,
                                     kind |-> k, frame |-> arrived + 1]]
    /\ rxCard' = CardNext(rx, rxCard)
    /\ UNCHANGED <<rx_offset, txVars, pc>>

CardMiss ==
    /\ arrived < MaxFrames
    /\ rx[rxCard].own = "driver"
    /\ arrived' = arrived + 1
    /\ expects' = "frame"
    /\ UNCHANGED <<rx, rx_offset, rxCard, txVars, pc>>

CardFetch ==
    /\ tx[txCard].own = "card"
    /\ reading = 0
    /\ reading' = tx[txCard].frame
    /\ UNCHANGED <<rxVars, tx, tx_offset, txCard, answers, overwrites, wire, pc>>

(* If the buffer was overwritten meanwhile, the card has sent the old      *)
(* answer, the new one or some of both.                                    *)
CardSent ==
    /\ reading # 0
    /\ \E f \in {reading, tx[txCard].frame,
                 IF tx[txCard].frame = reading THEN reading ELSE Torn} :
          wire' = Append(wire, f)
    /\ tx' = [tx EXCEPT ![txCard].own = "driver"]
    /\ txCard' = CardNext(tx, txCard)
    /\ reading' = 0
    /\ UNCHANGED <<rxVars, tx_offset, answers, overwrites, pc>>

-----------------------------------------------------------------------------
Init ==
    /\ rtl8101_init
    /\ pc = "idle"
    /\ rxCard = 0
    /\ txCard = 0
    /\ reading = 0
    /\ expects = "frame"
    /\ arrived = 0
    /\ answers = <<>>
    /\ overwrites = 0
    /\ wire = <<>>

Driver ==
    \/ rtl8101_get_packet
    \/ \E sz \in Sizes : rtl8101_prepare_send_packet(sz)
    \/ rtl8101_send_packet
    \/ rtl8101_send_wait
    \/ rtl8101_put_packet

Card ==
    \/ \E k \in ArrivingKinds, eor \in {"more", "end"} : CardReceive(k, eor)
    \/ CardMiss
    \/ CardFetch
    \/ CardSent

Next == Driver \/ Card

Spec == Init /\ [][Next]_vars

(* main_menu calls net_idle for ever, and the card sends what it is given. *)
FairSpec == Spec /\ WF_vars(Driver) /\ WF_vars(CardFetch) /\ WF_vars(CardSent)

-----------------------------------------------------------------------------
RxDescriptor == [own : {"card", "driver"}, eor : {"more", "end"},
                 kind : Kinds, frame : 0..MaxFrames]
TxDescriptor == [own : {"card", "driver"}, eor : {"more", "end"},
                 frame : 0..MaxFrames]

(* What every variable is.  The card's two cursors stay in the rings, so   *)
(* the mark rtl8101_rx_reinit writes back is never missing where the card  *)
(* needs it.                                                               *)
TypeOK ==
    /\ rx \in [Slot -> RxDescriptor]
    /\ tx \in [Slot -> TxDescriptor]
    /\ rx_offset \in Slot
    /\ tx_offset \in Slot
    /\ pc \in {"idle", "handling", "building", "sending", "handled"}
    /\ rxCard \in Slot
    /\ txCard \in Slot
    /\ reading \in 0..MaxFrames
    /\ expects \in {"frame", "rest"}
    /\ arrived \in 0..MaxFrames
    /\ answers \in Seq(1..MaxFrames)
    /\ overwrites \in 0..MaxFrames
    /\ wire \in Seq(1..Torn)

(* The descriptors the driver has to give back, the one it holds, and the  *)
(* whole frames it has still to return.                                    *)
Waiting == {i \in Slot : rx[i].own = "driver"}
Held == IF pc = "idle" THEN {} ELSE {rx_offset}
Queued == {rx[i].frame : i \in {j \in Waiting \ Held : rx[j].kind = "whole"}}

Queue == INSTANCE FrameQueue
             WITH came <- arrived,
                  queue <- Queued,
                  held <- IF pc = "idle" THEN 0 ELSE rx[rx_offset].frame

(* The receive ring is a queue: whatever the card stores meanwhile, whole  *)
(* frames are returned in order, once each, none is lost, and the buffer   *)
(* net_idle works on keeps its frame from get_packet to put_packet.        *)
ImplementsQueue == Queue!Spec

(* Unless prepare_send_packet has run out of patience, what the card sends *)
(* is what was answered, in order and untorn: the wait of send_packet may  *)
(* run out without harm, because the next prepare_send_packet waits again. *)
WireIsAnswers ==
    overwrites = 0 =>
        /\ Len(wire) <= Len(answers)
        /\ \A i \in 1..Len(wire) : wire[i] = answers[i]

(* A descriptor handed to the card comes back: after both waits have run   *)
(* out the card and the driver still use the same descriptor.              *)
TransmitterReturns == \A i \in Slot : tx[i].own = "card" ~> tx[i].own = "driver"
=============================================================================
