------------------------------- MODULE DaqRun -------------------------------
(***************************************************************************)
(* What adepo-server promises about the results of its runs, whatever      *)
(* LWDAQ does: results are published at most once for a start, only if the *)
(* run was not stopped or cut off in between, and they are what was        *)
(* measured since that start, of detectors that are selected when they are *)
(* published, and what a calculation that was given up had read before.    *)
(***************************************************************************)
CONSTANTS
  Detectors,   (* what can be selected                                     *)
  Content      (* what a line of the result file can be of                 *)

VARIABLES
  wanted,      (* a run was started and its results are to be published    *)
  measured,    (* what was measured since the last start                   *)
  kept,        (* what calculations that were given up have read           *)
  selected,    (* the selected detectors                                   *)
  published    (* the results published last                               *)

vars == <<wanted, measured, kept, selected, published>>

Init ==
  /\ wanted = FALSE
  /\ measured \subseteq Content
  /\ kept = {}
  /\ selected \subseteq Detectors
  /\ published \subseteq Detectors

Start ==
  /\ wanted' = TRUE
  /\ measured' = {}
  /\ UNCHANGED <<kept, selected, published>>

(* The readings of the run before could not be removed.                    *)
StartOnTop ==
  /\ measured # {}
  /\ wanted' = TRUE
  /\ UNCHANGED <<measured, kept, selected, published>>

Measure ==
  /\ \E c \in Content : measured' = measured \cup {c}
  /\ UNCHANGED <<wanted, kept, selected, published>>

Select ==
  /\ selected' \subseteq Detectors
  /\ UNCHANGED <<wanted, measured, kept, published>>

(* A stop, or a lost connection.                                           *)
Cancel ==
  /\ wanted' = FALSE
  /\ UNCHANGED <<measured, kept, selected, published>>

(* A calculation that finds nothing or gives up.                           *)
GiveUp ==
  /\ wanted
  /\ wanted' = FALSE
  /\ kept \subseteq kept' /\ kept' \subseteq kept \cup (measured \cap selected)
  /\ UNCHANGED <<measured, selected, published>>

Publish ==
  /\ wanted
  /\ measured # {}
  /\ measured \cup kept \subseteq selected
  /\ wanted' = FALSE
  /\ published' = measured \cup kept
  /\ kept' = {}
  /\ UNCHANGED <<measured, selected>>

(* The process ends and is started again.                                  *)
Restart ==
  /\ wanted' = FALSE
  /\ kept' = {}
  /\ selected' \subseteq Detectors
  /\ UNCHANGED <<measured, published>>

Next ==
  \/ Start \/ StartOnTop \/ Measure \/ Select \/ Cancel \/ GiveUp
  \/ Publish \/ Restart

Spec == Init /\ [][Next]_vars
=============================================================================
