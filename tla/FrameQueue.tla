----------------------------- MODULE FrameQueue -----------------------------
(***************************************************************************)
(* What net_idle (eth/c-main.c) asks of the receiving half of a card's     *)
(* driver: get_packet returns the frames in the order they came, each one  *)
(* once, and the frame it returned does not change until put_packet.       *)
(*                                                                         *)
(* Frames are numbered as they come, so the queue is a set of numbers and  *)
(* its head is the least of them.                                          *)
(***************************************************************************)
EXTENDS Naturals

VARIABLES
    came,           \* how many frames have come
    queue,          \* frames that get_packet has not returned
    held            \* the frame it has returned, or 0

vars == <<came, queue, held>>

Init == came = 0 /\ queue = {} /\ held = 0

(* The next frame is queued, or it is lost or damaged on its way.          *)
Arrive ==
    /\ came' = came + 1
    /\ queue' = queue \/ queue' = queue \cup {came + 1}
    /\ UNCHANGED held

get_packet ==
    /\ held = 0
    /\ \E f \in queue : /\ \A g \in queue : f <= g
                        /\ held' = f
                        /\ queue' = queue \ {f}
    /\ UNCHANGED came

put_packet == held # 0 /\ held' = 0 /\ UNCHANGED <<came, queue>>

Next == Arrive \/ get_packet \/ put_packet

Spec == Init /\ [][Next]_vars
=============================================================================
