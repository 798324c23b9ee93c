---------------------------- MODULE MCScpiClient ----------------------------
(* Three calls of any kind over at most two connections; two calls suffice *)
(* where a link that was reopened without closing it is looked at.         *)
EXTENDS ScpiClient
=============================================================================
