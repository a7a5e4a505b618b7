------------------------------ MODULE DaqSystem ------------------------------
(***************************************************************************)
(* The measurement chain as a whole: a GUI client whose calls arrive at    *)
(* adepo-server over a websocket; adepo-server, that is Server and         *)
(* LWDAQ_Client in one Qt event loop; and LWDAQ.  The two processes share  *)
(* the connection on port 1090, the script file and the result file.       *)
(*                                                                         *)
(* Every action is one event: a slot of the event loop of adepo-server     *)
(* with everything it calls, a command or a half step of LWDAQ, a button   *)
(* of the GUI, or a failure.                                               *)
(***************************************************************************)
EXTENDS Naturals, Sequences

CONSTANTS
  Detectors, NoScript, NumSteps, Gui,      (* see Acquisifier              *)
  StepErrors, RemoveMayFail,               (* see AdepoServer              *)
  OtherErrors,                             (* see LwdaqClient              *)
  Fresh,   (* the GUI shows the current state when a button is pressed     *)
  Prompt   (* LWDAQ answers before the next timer expires, button is       *)
           (* pressed or step is finished                                  *)

ASSUME TimingAssumption == Fresh \in BOOLEAN /\ Prompt \in BOOLEAN
ASSUME FlagsAssumption ==
  {Gui, StepErrors, RemoveMayFail, OtherErrors} \subseteq BOOLEAN
ASSUME NumStepsAssumption == NumSteps \in Nat /\ NumSteps >= 2
ASSUME DetectorsAssumption ==
  "error" \notin Detectors /\ NoScript \notin SUBSET Detectors

VARIABLES
  calls,                                            (* sent by the GUI     *)
  alive, adepoState, mode, detectors,               (* Server              *)
  needToCalculateResults, waitingTimer, data, output, runFile,
  lwdaqState, script, patched, cmdNo, socket,       (* LWDAQ_Client        *)
  buffer, connectTimer, statusTimer, runTimer,
  commands, replies,                                (* the connection      *)
  tool, control, step, loaded, configured,          (* LWDAQ               *)
  upload, target, queue, executing,
  scriptFile, resultFile                            (* files               *)

Srv == INSTANCE AdepoServer
Cli == INSTANCE LwdaqClient
Lw  == INSTANCE Acquisifier

server == <<alive, adepoState, mode, detectors, needToCalculateResults,
            waitingTimer, data, output, runFile, scriptFile>>
client == <<lwdaqState, script, patched, cmdNo, socket, buffer,
            connectTimer, statusTimer, runTimer>>
connection == <<commands, replies>>
lwdaq == <<tool, control, step, loaded, configured, upload, target, queue,
           executing>>
vars == <<calls, server, client, connection, lwdaq, resultFile>>

Init ==
  /\ calls = <<>>
  /\ Srv!Init /\ Cli!Init /\ Lw!Init

-----------------------------------------------------------------------------
(* Nothing is under way between the GUI, adepo-server and LWDAQ.           *)
Quiet ==
  /\ calls = <<>> /\ commands = <<>> /\ replies = <<>>
  /\ socket # "connecting"

InTime == Prompt => Quiet

(***************************************************************************)
(* The GUI.  Its copy of the run is the one of the last changedRun(),      *)
(* which is the one that updateRun() writes to the run file.  Its buttons  *)
(* are enabled by the state it shows.  Select stands for every setting     *)
(* that ends in updateRun().                                               *)
(***************************************************************************)
Update(m, ds) == [op |-> "updateRun", mode |-> m, detectors |-> ds]
Simple(name) == [op |-> name]

enabled == adepoState \in {"CONNECTING", "IDLE"}

PressStart ==
  /\ Fresh => adepoState = "IDLE" /\ runFile.detectors # {}
  /\ \E m \in Srv!Mode :
       calls' = <<Update(m, runFile.detectors), Simple("start")>>

PressStop ==
  /\ Fresh => ~enabled /\ adepoState # "STOP"
  /\ calls' = <<Simple("stop"), Update(runFile.mode, runFile.detectors)>>

Select ==
  /\ Fresh => enabled
  /\ \E d \in Detectors :
       calls' = <<Update(runFile.mode,
                         IF d \in runFile.detectors
                         THEN runFile.detectors \ {d}
                         ELSE runFile.detectors \cup {d})>>

Connect == calls' = <<Simple("updateAll")>>

Press ==
  /\ alive /\ calls = <<>> /\ InTime
  /\ PressStart \/ PressStop \/ Select \/ Connect
  /\ UNCHANGED <<server, client, connection, lwdaq, resultFile>>

-----------------------------------------------------------------------------
(***************************************************************************)
(* adepo-server: the calls of the GUI.                                     *)
(***************************************************************************)
(* Mutant of StartRunIfRemoved: the test is the wrong way round.           *)
StartRunIfThere ==
  IF resultFile' # {} THEN Cli!StartRun ELSE UNCHANGED <<client, connection>>

(* runDAQ() calls startRun() when the result file is gone.                 *)
StartRunIfRemoved ==
  IF resultFile' = {} THEN Cli!StartRun ELSE UNCHANGED <<client, connection>>

Start ==
  /\ Srv!StartDAQ
  /\ StartRunIfRemoved

(* Mutant of Stop: the stop is sent whatever LWDAQ is doing.               *)
StopRegardless == Srv!StopDAQ /\ Cli!SendStop

Stop ==
  /\ Srv!StopDAQ
  /\ IF lwdaqState = "IDLE" THEN UNCHANGED <<client, connection>>
                           ELSE Cli!StopRun

CallHandled ==
  /\ alive /\ calls # <<>>
  /\ calls' = Tail(calls)
  /\ LET call == Head(calls)
     IN  \/ call.op = "start" /\ Start
         \/ call.op = "stop" /\ Stop
         \/ /\ call.op = "updateRun"
            /\ Srv!UpdateRun(call.mode, call.detectors)
            /\ UNCHANGED <<client, connection>>
         \/ /\ call.op = "updateAll"
            /\ Srv!UpdateAll
            /\ UNCHANGED <<client, connection>>
  /\ UNCHANGED <<lwdaqState, lwdaq>>

-----------------------------------------------------------------------------
(* Mutant of Signal: the change is not signalled.                          *)
NoSignal == UNCHANGED <<server, resultFile>>

(***************************************************************************)
(* adepo-server: the slots of the timers and of the socket.  A change of   *)
(* lwdaqState is signalled to Server within the slot.                      *)
(***************************************************************************)
Signal ==
  IF lwdaqState' = lwdaqState THEN UNCHANGED <<server, resultFile>>
                              ELSE Srv!LwdaqStateChanged

WaitingTimeout ==
  /\ alive /\ InTime
  /\ Srv!WaitingTimeout
  /\ StartRunIfRemoved
  /\ UNCHANGED <<calls, lwdaqState, lwdaq>>

RunTimeout ==
  /\ alive /\ InTime
  /\ Cli!RunTimeout
  /\ UNCHANGED <<calls, server, lwdaq, resultFile>>

StatusTimeout ==
  /\ alive /\ InTime
  /\ Cli!StatusTimeout
  /\ UNCHANGED <<calls, server, lwdaq, resultFile>>

ConnectTimeout ==
  /\ alive /\ InTime
  /\ Cli!ConnectTimeout /\ Signal
  /\ UNCHANGED <<calls, lwdaq>>

(* The Acquisifier may still hold an upload target, the name of the last   *)
(* socket, and Tcl gives the new one the same name if it can.              *)
GotConnected ==
  /\ alive
  /\ Cli!GotConnected
  /\ target' \in {FALSE, upload}
  /\ UNCHANGED <<calls, server, tool, control, step, loaded, configured,
                 upload, queue, executing, resultFile>>

ReadyRead ==
  /\ alive
  /\ Cli!Receive /\ Signal
  /\ UNCHANGED <<calls, lwdaq>>

(* The line read makes LWDAQ idle, and the calculation throws.             *)
ReadyReadThrows ==
  /\ alive
  /\ socket = "up" /\ replies # <<>>
  /\ Head(buffer \o replies) = "Idle"
  /\ Srv!CalculateThrows
  /\ calls' = <<>>
  /\ UNCHANGED <<client, connection, lwdaq>>

-----------------------------------------------------------------------------
(* LWDAQ.                                                                  *)
LwdaqCommand ==
  /\ socket = "up"
  /\ Lw!SystemServer
  /\ UNCHANGED <<calls, server, client>>

LwdaqStep ==
  /\ \/ Lw!QueueStep
     \/ InTime /\ \E ok \in {TRUE, ~StepErrors} : Lw!StepEnd(ok)
  /\ UNCHANGED <<calls, server, client>>

-----------------------------------------------------------------------------
(* Failures.                                                               *)
ConnectFails ==
  /\ alive
  /\ Cli!ConnectionRefused \/ Cli!ConnectionFailed
  /\ UNCHANGED <<calls, server, lwdaq, resultFile>>

(* The connection breaks; LWDAQ goes on with what it is doing.             *)
ConnectionLost ==
  /\ alive
  /\ Cli!GotDisconnected /\ Signal
  /\ target' = FALSE
  /\ UNCHANGED <<calls, tool, control, step, loaded, configured, upload,
                 queue, executing>>

(* Mutant of LwdaqRestart: what was queued stays.                          *)
LwdaqRestartKeepsEvents ==
  /\ alive
  /\ Cli!GotDisconnected /\ Signal
  /\ tool' = FALSE /\ control' = "Idle" /\ target' = FALSE
  /\ UNCHANGED <<calls, step, loaded, configured, upload, queue, executing>>

(* LWDAQ ends and is started again, which the client sees as the end of    *)
(* its connection.                                                         *)
LwdaqRestart ==
  /\ alive
  /\ Cli!GotDisconnected /\ Signal
  /\ Lw!LwdaqRestart
  /\ UNCHANGED calls

ServerCrash ==
  /\ alive
  /\ Srv!Crash
  /\ calls' = <<>>
  /\ UNCHANGED <<client, connection, lwdaq>>

ServerRestart ==
  /\ Srv!Restart
  /\ Cli!Restart
  /\ target' = FALSE
  /\ UNCHANGED <<calls, tool, control, step, loaded, configured, upload,
                 queue, executing>>

Fault == ConnectFails \/ ConnectionLost \/ LwdaqRestart \/ ServerCrash

-----------------------------------------------------------------------------
Step ==
  \/ CallHandled
  \/ WaitingTimeout \/ RunTimeout \/ StatusTimeout \/ ConnectTimeout
  \/ GotConnected \/ ReadyRead \/ ReadyReadThrows
  \/ LwdaqCommand \/ LwdaqStep
  \/ ServerRestart

Next == Step \/ Press \/ Fault

Spec == Init /\ [][Next]_vars

-----------------------------------------------------------------------------
(***************************************************************************)
(* The reply that names the socket overwrites entries 1 and 2 of whatever  *)
(* script is current; it never meets the stop script, which has no entry   *)
(* 2: while it is under way the state is CONNECTING.                       *)
(***************************************************************************)
Outstanding(c, r) ==
  \/ \E i \in DOMAIN commands : commands[i] = c
  \/ \E i \in DOMAIN replies : replies[i] = r
  \/ \E i \in DOMAIN buffer : buffer[i] = r

SocketNameInRange ==
  Outstanding("server_info", "sockinfo") =>
    lwdaqState = "CONNECTING" /\ script # "stop"

(***************************************************************************)
(* The parts keep to their specifications: what holds of LWDAQ_Client, of  *)
(* Server and of LWDAQ in any environment holds of them here.              *)
(***************************************************************************)
ClientConforms == Cli!Spec
ServerConforms == Srv!Spec
LwdaqConforms  == Lw!Spec

(***************************************************************************)
(* A client that has seen Stop keeps polling until it sees something else: *)
(* the status timer runs, or a status is on its way.                       *)
(***************************************************************************)
StopIsPolled ==
  alive /\ lwdaqState = "STOP" =>
    statusTimer \/ \E r \in Lw!Control \cup {"error"} : Outstanding("status", r)

(***************************************************************************)
(* What must not happen: results are calculated while the Acquisifier is   *)
(* not at rest, so that the result file may be incomplete and still grow;  *)
(* and the result file of a run that is being measured is removed.         *)
(***************************************************************************)
AtRest == control = "Idle" /\ queue = 0 /\ ~executing

CalculatesTooEarly ==
  /\ needToCalculateResults /\ lwdaqState # "IDLE"
  /\ lwdaqState' = "IDLE"
  /\ ~AtRest

RemovesUnderRun == resultFile # {} /\ resultFile' = {} /\ ~AtRest

(* Whatever happens, the server comes back to a state in which the next    *)
(* run can start.                                                          *)
NeverStuck == []<>(alive /\ adepoState \in {"IDLE", "WAITING"})

(***************************************************************************)
(* Monitoring goes on: a waiting period is ended by a run, unless it is    *)
(* stopped or LWDAQ goes away.  It takes a script file, which only start() *)
(* writes and not the timer that ends the waiting period.                  *)
(***************************************************************************)
WaitingIsFollowedByRun ==
  adepoState = "WAITING" /\ scriptFile # NoScript ~>
    adepoState \in {"RUN", "IDLE", "CONNECTING"}

(* A run that was started is evaluated or cancelled.                       *)
RunIsSettled ==
  needToCalculateResults /\ scriptFile # NoScript ~> ~needToCalculateResults
=============================================================================
