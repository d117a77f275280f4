---------------------------- MODULE SendBufferMC ----------------------------
(* Instances of the write lists for TLC.                                    *)
EXTENDS SendBuffer

SevenMessages == <<3, 2, 1, 3, 2, 1, 2>>
TwoMessages == <<2, 3>>
=============================================================================
