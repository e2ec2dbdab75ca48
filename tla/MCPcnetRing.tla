---------------------------- MODULE MCPcnetRing ----------------------------
(* PcnetRing with what TLC needs to know of the card.                      *)
EXTENDS PcnetRing

AllKinds == WholeKinds \cup {"first"}
=============================================================================
