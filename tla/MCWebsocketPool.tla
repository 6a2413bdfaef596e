--------------------------- MODULE MCWebsocketPool ---------------------------
(* Instances of WebsocketPool for TLC.                                     *)
EXTENDS WebsocketPool

CONSTANTS t1, t2, t3, t4, t5
=============================================================================
