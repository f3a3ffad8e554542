------------------------- MODULE MCWebSocketClient -------------------------
(***************************************************************************)
(* Small instances of WebSocketClient for TLC: a server that sends three   *)
(* messages, and one that sends a close frame between two.                 *)
(***************************************************************************)
EXTENDS WebSocketClient

MCFrames == {<<"message", "message", "message">>, <<"message", "close", "message">>}
=============================================================================
