------------------------- MODULE MCWebSocketSession -------------------------
(* Instances of WebSocketSession for TLC, and a statement of the source's   *)
(* comments that the code does not keep.                                    *)
EXTENDS WebSocketSession, TLC

(***************************************************************************)
(* bot/client.go 589, "Stop gracefully stops the bot": the program does    *)
(* not crash.  (It does when the connection is closed while the loop is    *)
(* between two reads: c.ws is nil at the next one.)                        *)
(***************************************************************************)
GracefulStop == main # "crashed"
=============================================================================
