--------------------------- MODULE MCLwdaqClient ---------------------------
(* LWDAQ_Client alone, under a server that may answer anything.            *)
EXTENDS LwdaqClient

CONSTANTS
  MaxCommands, (* bound: commands under way                                *)
  MaxReplies   (* bound: lines under way, and lines received but not read  *)

MCNext ==
  /\ Next
  /\ Len(commands') <= MaxCommands
  /\ Len(replies') <= MaxReplies
  /\ Len(buffer') < MaxReplies

MCSpec == Init /\ [][MCNext]_vars
=============================================================================
