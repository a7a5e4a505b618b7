---------------------------- MODULE MCEvaluation ----------------------------
(***************************************************************************)
(* Two pairs of two detectors: the sources of the first flash one after    *)
(* the other, those of the second together.  The configuration may be      *)
(* replaced by one with DIP disabled that lacks the first and lists the    *)
(* second and its distances twice; the calibration by one that lacks the   *)
(* first.                                                                  *)
(***************************************************************************)
EXTENDS Evaluation

CONSTANTS a, b, d1, d2

MCPairs == {a, b}
MCDetectors == {d1, d2}
MCDetectorOf == [p \in {a, b} |-> IF p = a THEN d1 ELSE d2]
MCBcamOf == [p \in {a, b} |-> p]
MCSeparate == {a}
MCSelections == {<<d1>>, <<d1, d2>>}
MCNameOf == [p \in {a, b} |-> p]

Both == [pairs |-> <<a, b>>, distances |-> [p \in {a, b} |-> 1],
         dipEnabled |-> TRUE]
Twice == [pairs |-> <<b, b>>,
          distances |-> [p \in {a, b} |-> IF p = a THEN 0 ELSE 2],
          dipEnabled |-> FALSE]
MCConfigurations == {Both, Twice}
MCAccepted == {Both, Twice}
OneConfiguration == {Both}

All == [p \in {a, b} |-> 1]
Second == [p \in {a, b} |-> IF p = a THEN 0 ELSE 1]
MCCalibrations == {All, Second}
OneCalibration == {All}
=============================================================================
