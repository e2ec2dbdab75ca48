---------------------------- MODULE MCEthSession ----------------------------
(* EthSession with the values TLC needs for its constants.                 *)
EXTENDS EthSession

NoTails == {NoTail}
SomeTails == {NoTail, 10}
=============================================================================
