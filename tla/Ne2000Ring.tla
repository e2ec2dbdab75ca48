----------------------------- MODULE Ne2000Ring -----------------------------
(***************************************************************************)
(* The NE2000 driver (eth/net-ne2000.c) and its card.  The card stores the *)
(* frames it receives in a ring of pages of its own memory, moves CURR     *)
(* behind the last one and sets PRX; the driver copies one frame out at    *)
(* the page behind the boundary and moves the boundary.                    *)
(*                                                                         *)
(* A frame is the number of its arrival and has one or more pages, the     *)
(* first of which begins with a header that names the page of the next     *)
(* frame.  Page numbers are bytes.                                         *)
(***************************************************************************)
EXTENDS Integers, Sequences

CONSTANTS
    Byte,           \* page numbers are 0..Byte - 1; 256 in the code
    Start, End,     \* RX_PAGE_START and RX_PAGE_END
    PageCounts,     \* how many pages frames have
    MaxSize,        \* 1520: answers are shorter
    Sizes,          \* the sizes of answers
    MaxFrames       \* bound: frames that arrive

ASSUME Ne2000Constants ==
    /\ Byte \in Nat /\ Start \in 1..Byte - 1 /\ End \in Start + 2..Byte - 1
    /\ PageCounts \subseteq 1..End - Start - 1
    /\ MaxSize \in Nat
    /\ Sizes \subseteq Nat
    /\ MaxFrames \in Nat

VARIABLES
    ram,            \* the card's memory, by page
    bnry,           \* the boundary register
    curr,           \* CURR, the page the card stores the next frame at
    prx,            \* the bit PRX of the interrupt status: "set" or "clear"
    pc,             \* where net_idle is
    got,            \* what get_packet has copied, and the next page
    xmit,           \* ne2000_xmit_packet, 0 if its size is 0
    txp,            \* the frame the transmitter is sending, or 0
    arrived,        \* frames that have arrived
    stored,         \* history: the frames the card stored, in order
    returned,       \* history: the frames get_packet returned, in order
    lost            \* history: how the driver lost the card's frames

cardVars == <<ram, curr, arrived, stored, lost>>
txVars == <<xmit, txp>>
vars == <<cardVars, bnry, prx, pc, got, returned, txVars>>

Garbage == MaxFrames + 1

(* The page after p in the ring, and the page n pages after p.             *)
Wrap(p) == IF p >= End THEN p - (End - Start) ELSE p
After(p, n) == Wrap(p + n)

-----------------------------------------------------------------------------
(* The driver.                                                             *)

ne2000_init ==
    /\ bnry = Start
    /\ curr = Start
    /\ prx = "clear"
    /\ xmit = 0
    /\ txp = 0

(* Where the driver reads.                                                 *)
cur_read == IF (bnry + 1) % Byte >= End THEN Start ELSE (bnry + 1) % Byte

(* What the header at a page says: only the first page of a frame has one, *)
(* anything else is taken for one.                                         *)
Headers(p) ==
    IF ram[p].part = "head"
    THEN {[frame |-> IF \A j \in 0..ram[p].pages - 1 : ram[After(p, j)].frame = ram[p].frame
                     THEN ram[p].frame ELSE Garbage,
           next |-> ram[p].next]}
    ELSE [frame : {0, Garbage}, next : 0..Byte - 1]

(* Mutant: the two pages are compared as if the ring never wrapped.        *)
get_packet_below ==
    /\ pc = "idle"
    /\ prx = "set"
    /\ cur_read < curr
    /\ got' \in Headers(cur_read)
    /\ pc' = "reading"
    /\ UNCHANGED <<cardVars, bnry, prx, returned, txVars>>

(* The first part of ne2000_get_packet: PRX, CURR, the boundary and the    *)
(* frame are read.  Nothing happens if CURR is where the driver reads.     *)
ne2000_get_packet ==
    /\ pc = "idle"
    /\ prx = "set"
    /\ cur_read # curr
    /\ got' \in Headers(cur_read)
    /\ pc' = "reading"
    /\ UNCHANGED <<cardVars, bnry, prx, returned, txVars>>

(* Mutants: the page before the next one is not kept to a byte; the        *)
(* boundary is moved to the page before CURR; the boundary is moved to the *)
(* next frame and not to the page before it.                               *)
acknowledge_wide ==
    /\ pc = "reading"
    /\ bnry' = got.next - 1
    /\ prx' = "clear"
    /\ IF got.frame = 0
       THEN pc' = "idle" /\ UNCHANGED returned
       ELSE pc' = "handling" /\ returned' = Append(returned, got.frame)
    /\ UNCHANGED <<cardVars, got, txVars>>

acknowledge_all ==
    /\ pc = "reading"
    /\ bnry' = (curr - 1) % Byte
    /\ prx' = "clear"
    /\ IF got.frame = 0
       THEN pc' = "idle" /\ UNCHANGED returned
       ELSE pc' = "handling" /\ returned' = Append(returned, got.frame)
    /\ UNCHANGED <<cardVars, got, txVars>>

acknowledge_next ==
    /\ pc = "reading"
    /\ bnry' = got.next
    /\ prx' = "clear"
    /\ IF got.frame = 0
       THEN pc' = "idle" /\ UNCHANGED returned
       ELSE pc' = "handling" /\ returned' = Append(returned, got.frame)
    /\ UNCHANGED <<cardVars, got, txVars>>

(* The rest of it: the boundary is moved to the page before the next       *)
(* frame, and PRX is cleared, whatever has been stored since it was read.  *)
ne2000_acknowledge ==
    /\ pc = "reading"
    /\ bnry' = (got.next - 1) % Byte
    /\ prx' = "clear"
    /\ IF got.frame = 0
       THEN pc' = "idle" /\ UNCHANGED returned
       ELSE pc' = "handling" /\ returned' = Append(returned, got.frame)
    /\ UNCHANGED <<cardVars, got, txVars>>

(* The driver waits for the transmitter, then refuses too large an answer. *)
ne2000_prepare_send_packet(sz) ==
    /\ pc = "handling"
    /\ txp = 0
    /\ \/ sz >= MaxSize /\ pc' = "handled" /\ UNCHANGED xmit
       \/ sz < MaxSize /\ pc' = "building" /\ xmit' = got.frame
    /\ UNCHANGED <<cardVars, bnry, prx, got, returned, txp>>

(* The answer is copied to the card, which starts to send it.              *)
ne2000_send_packet ==
    /\ pc = "building"
    /\ IF xmit # 0 THEN txp' = xmit ELSE UNCHANGED txp
    /\ pc' = "sending"
    /\ UNCHANGED <<cardVars, bnry, prx, got, returned, xmit>>

(* The rest of ne2000_send_packet: the wait for the transmitter.           *)
ne2000_send_wait ==
    /\ pc = "sending"
    /\ txp = 0
    /\ xmit' = 0
    /\ pc' = "handled"
    /\ UNCHANGED <<cardVars, bnry, prx, got, returned, txp>>

(* Nothing to give back: the frame is a copy.                              *)
ne2000_put_packet ==
    /\ pc \in {"handling", "handled"}
    /\ pc' = "idle"
    /\ UNCHANGED <<cardVars, bnry, prx, got, returned, txVars>>

-----------------------------------------------------------------------------
(* The card.                                                               *)

(* The frames the driver has still to come to.  It never comes to the      *)
(* first one: the boundary and CURR start at the same page.                *)
Unread == {stored[i] : i \in Len(returned) + 2..Len(stored)}

(* A frame of k pages is stored if CURR does not meet the boundary.        *)
Fits(k) == \A j \in 1..k : After(curr, j) # bnry

CardReceive(k) ==
    LET f == arrived + 1
        pages == {After(curr, j) : j \in 0..k - 1}
    IN  /\ arrived < MaxFrames
        /\ Fits(k)
        /\ arrived' = f
        /\ curr' = After(curr, k)
        /\ ram' = [p \in DOMAIN ram |->
              IF p \notin pages THEN ram[p]
              ELSE [part |-> IF p = curr THEN "head" ELSE "body", frame |-> f,
                    pages |-> k, next |-> After(curr, k)]]
        /\ prx' = "set"
        /\ stored' = Append(stored, f)
        /\ lost' = IF lost # "no" THEN lost
                   ELSE IF stored = <<>> /\ k > 1 THEN "first"
                   ELSE IF stored # <<>> /\ \E j \in 1..k : After(curr, j) = cur_read
                   THEN "lapped" ELSE "no"
        /\ UNCHANGED <<bnry, pc, got, returned, txVars>>

CardMiss(k) ==
    /\ arrived < MaxFrames
    /\ ~Fits(k)
    /\ arrived' = arrived + 1
    /\ UNCHANGED <<ram, curr, stored, lost, bnry, prx, pc, got, returned, txVars>>

CardTransmit ==
    /\ txp # 0
    /\ txp' = 0
    /\ UNCHANGED <<cardVars, bnry, prx, pc, got, returned, xmit>>

-----------------------------------------------------------------------------
Init ==
    /\ ne2000_init
    /\ ram = [p \in 0..Byte - 1 |-> [part |-> "other", frame |-> 0, pages |-> 1, next |-> 0]]
    /\ pc = "idle"
    /\ got = [frame |-> 0, next |-> 0]
    /\ arrived = 0
    /\ stored = <<>>
    /\ returned = <<>>
    /\ lost = "no"

Driver ==
    \/ ne2000_get_packet
    \/ ne2000_acknowledge
    \/ \E sz \in Sizes : ne2000_prepare_send_packet(sz)
    \/ ne2000_send_packet
    \/ ne2000_send_wait
    \/ ne2000_put_packet

Card ==
    \/ \E k \in PageCounts : CardReceive(k) \/ CardMiss(k)
    \/ CardTransmit

Next == Driver \/ Card

Spec == Init /\ [][Next]_vars

(* main_menu calls net_idle for ever, and the card sends what it is given. *)
FairSpec == Spec /\ WF_vars(Driver) /\ WF_vars(CardTransmit)

-----------------------------------------------------------------------------
(* What every variable is.                                                 *)
TypeOK ==
    /\ ram \in [0..Byte - 1 -> [part : {"head", "body", "other"}, frame : 0..MaxFrames,
                                pages : PageCounts \cup {1}, next : 0..Byte - 1]]
    /\ bnry \in 0..Byte - 1
    /\ curr \in Start..End - 1
    /\ prx \in {"set", "clear"}
    /\ pc \in {"idle", "reading", "handling", "building", "sending", "handled"}
    /\ got \in [frame : 0..Garbage, next : 0..Byte - 1]
    /\ xmit \in 0..Garbage /\ txp \in 0..Garbage
    /\ arrived \in 0..MaxFrames
    /\ stored \in Seq(1..MaxFrames) /\ returned \in Seq(1..Garbage)
    /\ lost \in {"no", "first", "lapped"}

(* Until the driver has lost the frames, it returns what the card stored,  *)
(* in order, once each and whole, except for the first frame, which it     *)
(* never returns; and what it has not returned is still in the ring.       *)
AllButTheFirst ==
    lost = "no" =>
        /\ \A i \in 1..Len(returned) : returned[i] = stored[i + 1]
        /\ \A f \in Unread : \E p \in Start..End - 1 :
               /\ ram[p].part = "head" /\ ram[p].frame = f
               /\ \A j \in 0..ram[p].pages - 1 : ram[After(p, j)].frame = f

(* The card overtakes the driver only if the boundary lies before the      *)
(* ring, where the driver puts it when the next frame is at the first      *)
(* page: there CURR never meets it.                                        *)
LappedOnlyBeforeRing ==
    [][lost' = "lapped" /\ lost # "lapped" => bnry = Start - 1]_vars

(* As long as PRX is set the driver takes frames out: it does not sleep on *)
(* a frame that was announced and not acknowledged.  (After PRX has been   *)
(* cleared the frames still in the ring wait for the next one to arrive.)  *)
AnnouncedIsTaken ==
    (prx = "set" /\ Unread # {}) ~> (prx = "clear" \/ lost # "no")
=============================================================================
