--------------------------- MODULE MCRtl8101Ring ---------------------------
(* Rtl8101Ring with what TLC needs to know of the card.                    *)
EXTENDS Rtl8101Ring

AllKinds == {"error", "whole", "runt", "first"}
=============================================================================
