--------------------------- MODULE MCWebSocketCall ---------------------------
(* TLC instance of WebSocketCall: every place of a frame at which a call can be cut. *)
EXTENDS WebSocketCall, Integers

MCNoIndex == -1
==============================================================================
