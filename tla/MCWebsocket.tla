----------------------------- MODULE MCWebsocket -----------------------------
(* Instances of Websocket for TLC.                                         *)
EXTENDS Websocket

CONSTANTS t1, t2
=============================================================================
