----------------------------- MODULE AdepoServer -----------------------------
(***************************************************************************)
(* Server, the part of adepo-server that runs the measurements: it is      *)
(* started and stopped by its clients, follows the state of LWDAQ_Client,  *)
(* calculates the results when LWDAQ becomes idle, and in monitoring mode  *)
(* waits and starts the next run.                                          *)
(*                                                                         *)
(* Every action is one slot called by the Qt event loop.  lwdaqState is    *)
(* the state of LWDAQ_Client, an input: it may change in any way, and      *)
(* lwdaqStateChanged() runs in the same step as the change.                *)
(***************************************************************************)
EXTENDS Naturals

CONSTANTS
  Detectors,        (* detectors; each BCAM belongs to one                 *)
  NoScript,         (* "the script file does not exist"                    *)
  StepErrors,       (* an acquisition step may fail                        *)
  RemoveMayFail     (* removing the result file may fail                   *)

ASSUME DetectorsAssumption ==
  "error" \notin Detectors /\ NoScript \notin SUBSET Detectors
ASSUME FlagsAssumption == StepErrors \in BOOLEAN /\ RemoveMayFail \in BOOLEAN

VARIABLES
  lwdaqState,   (* lwdaq_client->getState()                                *)
  alive,        (* the process is running                                  *)
  adepoState,   (* adepoState                                              *)
  mode,         (* run.getMode()                                           *)
  detectors,    (* run.getDetectors(), from which setup is built           *)
  needToCalculateResults,
  waitingTimer, (* waitingTimer is active                                  *)
  data,         (* the detectors whose spots are in data                   *)
  output,       (* the detectors of the results published last             *)
  runFile,      (* the mode and detectors in run_file.json                 *)
  scriptFile,   (* the detectors of the script file, the parameter and the *)
                (* settings file                                           *)
  resultFile    (* the detectors with readings in the result file, "error" *)
                (* for failed steps; it exists iff this is not empty       *)

memoryVars == <<adepoState, mode, detectors, needToCalculateResults,
                waitingTimer, data>>
serverVars == <<alive, memoryVars, output, runFile, scriptFile>>
vars == <<lwdaqState, serverVars, resultFile>>

Mode == {"CLOSURE", "MONITORING"}
LwdaqState == {"CONNECTING", "IDLE", "RUN", "STOP"}
AdepoState == {"CONNECTING", "IDLE", "RUN", "STOP", "WAITING"}
Content == Detectors \cup {"error"}

TypeOK ==
  /\ lwdaqState \in LwdaqState
  /\ alive \in BOOLEAN
  /\ adepoState \in AdepoState
  /\ mode \in Mode
  /\ detectors \subseteq Detectors
  /\ needToCalculateResults \in BOOLEAN
  /\ waitingTimer \in BOOLEAN
  /\ data \subseteq Detectors
  /\ output \subseteq Detectors
  /\ runFile \in [mode : Mode, detectors : SUBSET Detectors]
  /\ scriptFile \in (SUBSET Detectors) \cup {NoScript}
  /\ resultFile \subseteq Content

(* The constructor; init(), which it calls last, emits stateChanged.       *)
Init ==
  /\ lwdaqState = "CONNECTING"
  /\ alive = TRUE
  /\ adepoState = "CONNECTING"
  /\ runFile \in [mode : Mode, detectors : SUBSET Detectors]
  /\ mode = runFile.mode
  /\ detectors = runFile.detectors
  /\ needToCalculateResults = FALSE
  /\ waitingTimer = FALSE
  /\ data = {}
  /\ output = {}
  /\ scriptFile \in (SUBSET Detectors) \cup {NoScript}
  /\ resultFile = {}

-----------------------------------------------------------------------------
(* runDAQ(), up to lwdaq_client->startRun(): startRun is called unless the *)
(* result file cannot be removed.                                          *)
RunDAQ ==
  /\ needToCalculateResults' = TRUE
  /\ resultFile' = {}

RunAborted ==
  /\ RemoveMayFail
  /\ resultFile # {}
  /\ needToCalculateResults' = TRUE
  /\ UNCHANGED resultFile

StartDAQ ==
  /\ scriptFile' = detectors
  /\ RunDAQ \/ RunAborted
  /\ UNCHANGED <<alive, adepoState, mode, detectors, waitingTimer, data,
                 output, runFile>>

(* Mutant of WaitingTimeout: the timer is not single shot.                 *)
WaitingTimeoutRepeats ==
  /\ waitingTimer
  /\ RunDAQ \/ RunAborted
  /\ UNCHANGED <<alive, adepoState, mode, detectors, waitingTimer, data,
                 output, runFile, scriptFile>>

(* waitingTimer is single shot and calls runDAQ().                         *)
WaitingTimeout ==
  /\ waitingTimer
  /\ waitingTimer' = FALSE
  /\ RunDAQ \/ RunAborted
  /\ UNCHANGED <<alive, adepoState, mode, detectors, data, output, runFile,
                 scriptFile>>

(* stopDAQ(), whose call of stopRun() does not change the server.          *)
StopDAQ ==
  /\ needToCalculateResults' = FALSE
  /\ waitingTimer' = (waitingTimer /\ mode # "MONITORING")
  /\ adepoState' = IF lwdaqState = "IDLE" THEN "IDLE" ELSE adepoState
  /\ mode' = "CLOSURE"
  /\ UNCHANGED <<alive, detectors, data, output, runFile, scriptFile,
                 resultFile>>

UpdateRun(m, ds) ==
  /\ mode' = m
  /\ detectors' = ds
  /\ runFile' = [mode |-> m, detectors |-> ds]
  /\ UNCHANGED <<alive, adepoState, needToCalculateResults, waitingTimer,
                 data, output, scriptFile, resultFile>>

(* updateAll(), which a client calls when it has connected; its other      *)
(* calls read files that are not part of the state here.                   *)
UpdateAll == UpdateRun(mode, detectors)

-----------------------------------------------------------------------------
(* Mutant of Rejected: the text of a failed step is taken for a reading.   *)
RejectedReadsErrors ==
  /\ resultFile = {} \/ "error" \in resultFile
  /\ data' = data \cup resultFile
  /\ UNCHANGED output

(***************************************************************************)
(* calculateCoordinates().  readLWDAQOutput() gives up at the first line   *)
(* that has not the length of a reading, keeping the spots it has read so  *)
(* far, and throws for a name that is not in the current selection: a BCAM *)
(* of another detector, or the first word of an error text that happens to *)
(* have the length of a reading.                                           *)
(***************************************************************************)
Rejected ==
  /\ resultFile = {} \/ "error" \in resultFile
  /\ \E read \in SUBSET (resultFile \cap detectors) : data' = data \cup read
  /\ UNCHANGED output

(* Mutant of Calculated: the acquisitions are not emptied.                 *)
CalculatedKeepsData ==
  /\ resultFile # {}
  /\ data \cup resultFile \subseteq detectors
  /\ output' = data \cup resultFile
  /\ data' = data \cup resultFile

(***************************************************************************)
(* Everything in data is looked up in the selection: what was just read,   *)
(* and what a calculation that gave up has left, of the selection it had.  *)
(***************************************************************************)
Calculated ==
  /\ resultFile # {}
  /\ data \cup resultFile \subseteq detectors
  /\ output' = data \cup resultFile
  /\ data' = {}

Throws ==
  \/ resultFile \ detectors # {}
  \/ resultFile # {} /\ data \ detectors # {}

CalculateCoordinates ==
  /\ Rejected \/ Calculated
  /\ needToCalculateResults' = FALSE

(* lwdaqStateChanged(), called when lwdaqState has its new value.          *)
LwdaqIdle ==
  /\ lwdaqState' = "IDLE"
  /\ IF needToCalculateResults
     THEN CalculateCoordinates
     ELSE UNCHANGED <<needToCalculateResults, data, output>>
  /\ adepoState' = IF mode = "MONITORING" THEN "WAITING" ELSE "IDLE"
  /\ waitingTimer' = (mode = "MONITORING")

LwdaqRun ==
  /\ lwdaqState' = "RUN"
  /\ adepoState' = "RUN"
  /\ UNCHANGED <<needToCalculateResults, waitingTimer, data, output>>

LwdaqStop ==
  /\ lwdaqState' = "STOP"
  /\ adepoState' = IF mode = "MONITORING" THEN "RUN" ELSE "STOP"
  /\ UNCHANGED <<needToCalculateResults, waitingTimer, data, output>>

(* Mutant of LwdaqConnecting: the clients are not told.                    *)
LwdaqConnectingUntold ==
  /\ lwdaqState' = "CONNECTING"
  /\ needToCalculateResults' = FALSE
  /\ UNCHANGED <<adepoState, waitingTimer, data, output>>

LwdaqConnecting ==
  /\ lwdaqState' = "CONNECTING"
  /\ adepoState' = "CONNECTING"
  /\ needToCalculateResults' = FALSE
  /\ UNCHANGED <<waitingTimer, data, output>>

LwdaqStateChanged ==
  /\ LwdaqIdle \/ LwdaqRun \/ LwdaqStop \/ LwdaqConnecting
  /\ UNCHANGED <<alive, mode, detectors, runFile, scriptFile, resultFile>>

(* The exception is not caught: the process ends.                          *)
CalculateThrows ==
  /\ lwdaqState # "IDLE"
  /\ needToCalculateResults
  /\ Throws
  /\ alive' = FALSE
  /\ UNCHANGED <<memoryVars, output, runFile, scriptFile, resultFile>>

(* Any other end of the process, adepo-server-stop included.               *)
Crash ==
  /\ alive' = FALSE
  /\ UNCHANGED <<memoryVars, output, runFile, scriptFile, resultFile>>

(* adepo-server-start: the memory is lost, the files are not.              *)
Restart ==
  /\ ~alive
  /\ alive' = TRUE
  /\ adepoState' = "CONNECTING"
  /\ mode' = runFile.mode
  /\ detectors' = runFile.detectors
  /\ needToCalculateResults' = FALSE
  /\ waitingTimer' = FALSE
  /\ data' = {}
  /\ UNCHANGED <<output, runFile, scriptFile, resultFile>>

-----------------------------------------------------------------------------
(* Calls of the clients; any of them may come at any time.                 *)
Call ==
  /\ \/ StartDAQ \/ StopDAQ \/ UpdateAll
     \/ \E m \in Mode, ds \in SUBSET Detectors : UpdateRun(m, ds)
  /\ UNCHANGED lwdaqState

(* LWDAQ appends a line to the result file.                                *)
Measure ==
  /\ \E c \in IF StepErrors THEN Content ELSE Detectors :
       resultFile' = resultFile \cup {c}
  /\ UNCHANGED <<lwdaqState, serverVars>>

Next ==
  \/ alive /\ Call
  \/ alive /\ WaitingTimeout /\ UNCHANGED lwdaqState
  \/ alive /\ LwdaqStateChanged /\ lwdaqState' # lwdaqState
  \/ alive /\ CalculateThrows /\ UNCHANGED lwdaqState
  \/ alive /\ Crash /\ UNCHANGED lwdaqState
  \/ Restart /\ lwdaqState' = "CONNECTING"
  \/ Measure

Spec == Init /\ [][Next]_vars

-----------------------------------------------------------------------------
(***************************************************************************)
(* The state shown to the clients agrees with the state of LWDAQ: in       *)
(* particular they are told Idle or Waiting, which is when they may start  *)
(* a run, only while LWDAQ is idle, and Connecting exactly while it is not *)
(* connected.                                                              *)
(***************************************************************************)
ShownState ==
  /\ lwdaqState = "CONNECTING" <=> adepoState = "CONNECTING"
  /\ lwdaqState = "IDLE" <=> adepoState \in {"IDLE", "WAITING"}
  /\ lwdaqState = "RUN" => adepoState = "RUN"

(***************************************************************************)
(* Results of an earlier run are never mixed into the next: no spots are   *)
(* kept in memory between two calculations.  server.cpp:240 says that the  *)
(* acquisitions are emptied at the end of calculateCoordinates().          *)
(***************************************************************************)
AcquisitionsEmptied == data = {}

(***************************************************************************)
(* The server implements its promise about results: nothing is published   *)
(* twice or for a cancelled run, readings of another selection never get   *)
(* into the results, and what a failed calculation leaves in data does so  *)
(* at most once.                                                           *)
(***************************************************************************)
Promise == INSTANCE DaqRun WITH
  wanted <- needToCalculateResults,
  measured <- resultFile,
  kept <- data,
  selected <- detectors,
  published <- output

ResultsPromise == Promise!Spec
=============================================================================
