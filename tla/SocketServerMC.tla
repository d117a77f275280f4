--------------------------- MODULE SocketServerMC ---------------------------
(* Instances of the socket server for TLC.                                  *)
EXTENDS SocketServerInduction, TLC

AllCalls == {"listen", "start", "close", "send"}
MainCalls == {"listen", "start"}
=============================================================================
