------------------------------ MODULE MCWsRelay ------------------------------
(* One connection, whose sessions do not meet those of others, and one     *)
(* request on it; a channel has room for one message.                      *)
EXTENDS WsRelay
=============================================================================
