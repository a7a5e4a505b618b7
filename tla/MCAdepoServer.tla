--------------------------- MODULE MCAdepoServer ---------------------------
(* Server alone, under any behaviour of its clients and of LWDAQ_Client.   *)
EXTENDS AdepoServer

CONSTANTS d1, d2, noFile

MCDetectors == {d1, d2}
MCNoScript == {noFile}
=============================================================================
