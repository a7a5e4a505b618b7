--------------------------- MODULE MCAcquisifier ---------------------------
(* The Acquisifier alone, under a client that may send anything.           *)
EXTENDS Acquisifier

CONSTANTS
  d1, noFile,
  MaxPending   (* bound: lines under way in each direction                 *)

(* With the empty script there are two scripts.                            *)
MCDetectors == {d1}
MCNoScript == {noFile}

Bounded == Len(commands') <= MaxPending /\ Len(replies') <= MaxPending

MCNext == Next /\ Bounded

(* Tcl keeps serving its events, and the client keeps reading.  A step is  *)
(* not kept waiting by the bound on the lines under way, hence SF.         *)
MCSpec ==
  /\ Init /\ [][MCNext]_vars
  /\ WF_vars(QueueStep)
  /\ SF_vars((\E ok \in BOOLEAN : StepEnd(ok)) /\ Bounded)
  /\ WF_vars(Answer /\ replies' # replies /\ Bounded)
=============================================================================
