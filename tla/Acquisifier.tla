----------------------------- MODULE Acquisifier -----------------------------
(***************************************************************************)
(* The LWDAQ process as adepo-server uses it: the System Server, which     *)
(* interprets one command line at a time and writes one reply line, and    *)
(* the Acquisifier tool, whose steps run from the LWDAQ event queue and    *)
(* append one line per acquisition to the result file.                     *)
(*                                                                         *)
(* LWDAQ is one Tcl event loop.  An acquisition calls LWDAQ_update, so a   *)
(* command may be interpreted in the middle of a step: a step is therefore *)
(* two actions, QueueStep (take the event, decide what to run) and StepEnd *)
(* (write the result, decide whether to post another event).               *)
(***************************************************************************)
EXTENDS Naturals, Sequences

CONSTANTS
  Detectors,   (* the detectors of ATLAS; a script reads the BCAMs of some *)
  NoScript,    (* "the script file does not exist" / "no script is loaded" *)
  NumSteps,    (* steps of a script; step 1 stands for its header steps,   *)
               (* acquisifier: and default:, which append no reading       *)
  Gui          (* LWDAQ was started by bin/lwdaq-server-gui                *)

ASSUME DetectorsAssumption == NoScript \notin SUBSET Detectors
ASSUME NumStepsAssumption == NumSteps \in Nat /\ NumSteps >= 2
ASSUME GuiAssumption == Gui \in BOOLEAN

VARIABLES
  commands,    (* command lines sent by adepo-server, not interpreted yet  *)
  replies,     (* lines written to the socket, not received yet            *)
  tool,        (* Acquisifier.tcl has been run since LWDAQ started         *)
  control,     (* Acquisifier_info(control)                                *)
  step,        (* Acquisifier_info(step)                                   *)
  loaded,      (* the script in Acquisifier_info(steps)                    *)
  configured,  (* the settings file has been run: daq_script, run_results  *)
  upload,      (* Acquisifier_config(upload_step_result)                   *)
  target,      (* Acquisifier_config(upload_target) names this connection  *)
  queue,       (* Acquisifier_execute events in the LWDAQ event queue      *)
  executing,   (* Acquisifier_execute is inside a step                     *)
  scriptFile,  (* the script on disk, written by adepo-server              *)
  resultFile   (* what the result file holds: the detectors whose readings *)
               (* it contains, "error" for the text of a failed step; the  *)
               (* file exists iff this is not empty                        *)

toolVars == <<tool, control, step, loaded, configured, upload, target>>
lwdaqVars == <<toolVars, queue, executing>>
vars == <<commands, replies, lwdaqVars, scriptFile, resultFile>>

Command == {"server_info", "set_server_info", "set_upload_target",
            "set_upload_step_result", "run_tool", "run_params",
            "run_settings", "load_script", "repeat_run", "stop", "status"}

Control == {"Idle", "Repeat_Run", "Wait", "Stop"}

(***************************************************************************)
(* What a line of the System Server can be.  "sockinfo" is the answer to   *)
(* LWDAQ_server_info, "sock" a socket name, "params" and "settings" end in *)
(* the name of the file that was run, "step" and "step1" are uploaded step *)
(* results (the last digit of the second one is a 1).                      *)
(***************************************************************************)
Line == Control \cup {"sockinfo", "sock", "params", "settings", "0", "1",
                      "error", "step", "step1"}

Content == Detectors \cup {"error"}

TypeOK ==
  /\ commands \in Seq(Command)
  /\ replies \in Seq(Line)
  /\ tool \in BOOLEAN
  /\ control \in Control
  /\ step \in 0..NumSteps
  /\ loaded \in (SUBSET Detectors) \cup {NoScript}
  /\ configured \in BOOLEAN
  /\ upload \in BOOLEAN
  /\ target \in BOOLEAN
  /\ queue \in Nat
  /\ executing \in BOOLEAN
  /\ scriptFile \in (SUBSET Detectors) \cup {NoScript}
  /\ resultFile \subseteq Content

Init ==
  /\ commands = <<>>
  /\ replies = <<>>
  /\ tool = FALSE
  /\ control = "Idle"
  /\ step = 0
  /\ loaded = NoScript
  /\ configured = FALSE
  /\ upload = FALSE
  /\ target = FALSE
  /\ queue = 0
  /\ executing = FALSE
  /\ scriptFile \in (SUBSET Detectors) \cup {NoScript}
  /\ resultFile = {}

-----------------------------------------------------------------------------
(***************************************************************************)
(* The commands.  Interpret(c, r) is the part they share: the System       *)
(* Server takes the command and writes the reply.                          *)
(***************************************************************************)
Interpret(c, r) ==
  /\ commands # <<>>
  /\ Head(commands) = c
  /\ commands' = Tail(commands)
  /\ replies' = Append(replies, r)

ServerInfo ==
  /\ Interpret("server_info", "sockinfo")
  /\ UNCHANGED lwdaqVars

SetServerInfo ==
  /\ Interpret("set_server_info", "sock")
  /\ UNCHANGED lwdaqVars

SetUploadTarget ==
  /\ Interpret("set_upload_target", "sock")
  /\ target' = TRUE
  /\ UNCHANGED <<tool, control, step, loaded, configured, upload, queue,
                 executing>>

SetUploadStepResult ==
  /\ Interpret("set_upload_step_result", "1")
  /\ upload' = TRUE
  /\ UNCHANGED <<tool, control, step, loaded, configured, target, queue,
                 executing>>

(***************************************************************************)
(* Running Acquisifier.tcl ends in "return 1", which is also what          *)
(* LWDAQ_run_tool then returns.  With an open window the tool keeps its    *)
(* arrays; otherwise they are unset and filled with their defaults, while  *)
(* the events in the queue and a step in progress stay.                    *)
(***************************************************************************)
RunTool ==
  /\ Interpret("run_tool", "1")
  /\ tool' = TRUE
  /\ IF Gui /\ tool
     THEN UNCHANGED <<control, step, loaded, configured, upload, target>>
     ELSE /\ control' = "Idle"
          /\ step' = 0
          /\ loaded' = NoScript
          /\ configured' = FALSE
          /\ upload' = FALSE
          /\ target' = FALSE
  /\ UNCHANGED <<queue, executing>>

(* The parameter and the settings file are written together with the       *)
(* script; LWDAQ_run_tool of a file that is not there is an error.         *)
RunParams ==
  /\ Interpret("run_params", IF scriptFile = NoScript THEN "error"
                                                      ELSE "params")
  /\ UNCHANGED lwdaqVars

RunSettings ==
  /\ Interpret("run_settings", IF scriptFile = NoScript THEN "error"
                                                        ELSE "settings")
  /\ configured' = (configured \/ scriptFile # NoScript)
  /\ UNCHANGED <<tool, control, step, loaded, upload, target, queue,
                 executing>>

LoadScript ==
  \/ /\ ~tool
     /\ Interpret("load_script", "error")
     /\ UNCHANGED lwdaqVars
  \/ /\ tool /\ control # "Idle"
     /\ Interpret("load_script", "0")
     /\ UNCHANGED lwdaqVars
  \/ /\ tool /\ control = "Idle"
     /\ step' = 0
     /\ IF configured /\ scriptFile # NoScript
        THEN /\ Interpret("load_script", "1")
             /\ loaded' = scriptFile
        ELSE /\ Interpret("load_script", "0")
             /\ UNCHANGED loaded
     /\ UNCHANGED <<tool, control, configured, upload, target, queue,
                    executing>>

(* Mutant of CommandRepeatRun: an event is posted whatever is pending.     *)
RepeatRunAlwaysPosts ==
  /\ tool
  /\ Interpret("repeat_run", "1")
  /\ control' = "Repeat_Run"
  /\ queue' = queue + 1
  /\ UNCHANGED <<tool, step, loaded, configured, upload, target, executing>>

(* Acquisifier_command Repeat_Run: only from Idle is an event posted.      *)
CommandRepeatRun ==
  \/ /\ ~tool
     /\ Interpret("repeat_run", "error")
     /\ UNCHANGED lwdaqVars
  \/ /\ tool
     /\ Interpret("repeat_run", "1")
     /\ control' = "Repeat_Run"
     /\ queue' = IF control = "Idle" THEN queue + 1 ELSE queue
     /\ UNCHANGED <<tool, step, loaded, configured, upload, target,
                    executing>>

(* Mutant of ControlAfterStop: a pending event is not waited for.          *)
StopAtOnce == "Idle"

(* Acquisifier_command Stop: without a pending event it goes to Idle at    *)
(* once, otherwise the next event will.                                    *)
ControlAfterStop ==
  IF control \in {"Idle", "Stop"} THEN control
  ELSE IF queue > 0 \/ executing THEN "Stop" ELSE "Idle"

CommandStop ==
  \/ /\ ~tool
     /\ Interpret("stop", "error")
     /\ UNCHANGED lwdaqVars
  \/ /\ tool
     /\ Interpret("stop", "1")
     /\ control' = ControlAfterStop
     /\ UNCHANGED <<tool, step, loaded, configured, upload, target, queue,
                    executing>>

Status ==
  /\ Interpret("status", IF tool THEN control ELSE "error")
  /\ UNCHANGED lwdaqVars

SystemServer ==
  /\ \/ ServerInfo \/ SetServerInfo \/ SetUploadTarget
     \/ SetUploadStepResult \/ RunTool \/ RunParams \/ RunSettings
     \/ LoadScript \/ CommandRepeatRun \/ CommandStop \/ Status
  /\ UNCHANGED <<scriptFile, resultFile>>

-----------------------------------------------------------------------------
(***************************************************************************)
(* Acquisifier_execute up to the point where the step runs.                *)
(***************************************************************************)
(* Mutant of LastStep: one too many.                                       *)
LastStepOffByOne == NumSteps + 1

(* Acquisifier_info(num_steps): without a script there is the dummy one,   *)
(* and a script for no detector has only its header.                       *)
LastStep == IF loaded \in {NoScript, {}} THEN 1 ELSE NumSteps

BeginStep(s) ==
  /\ step' = s
  /\ queue' = queue - 1
  /\ executing' = TRUE

(* Mutant of EventStopped: the event is dropped and Stop stays.            *)
EventDropped ==
  /\ control = "Stop"
  /\ queue' = queue - 1
  /\ UNCHANGED <<control, step, executing>>

EventStopped ==
  /\ control = "Stop"
  /\ control' = "Idle"
  /\ queue' = queue - 1
  /\ UNCHANGED <<step, executing>>

QueueStep ==
  /\ queue > 0
  /\ ~executing
  /\ \/ EventStopped
     \/ /\ control = "Idle"
        /\ BeginStep(step)
        /\ UNCHANGED control
     \/ /\ control = "Repeat_Run"
        /\ IF step < LastStep
           THEN BeginStep(step + 1) /\ UNCHANGED control
           ELSE /\ step' = 0
                /\ control' = "Wait"
                /\ UNCHANGED <<queue, executing>>
     \/ /\ control = "Wait"
        /\ BeginStep(1)
        /\ control' = "Repeat_Run"
  /\ UNCHANGED <<commands, replies, tool, loaded, configured, upload,
                 target, scriptFile, resultFile>>

(* The post processing of an acquire step: steps 2, 3, ... of a script.    *)
(* A step reads a BCAM of one of the detectors of the script.              *)
AppendResult(ok) ==
  IF step > 1 /\ loaded \notin {NoScript, {}} /\ configured
  THEN \E d \in IF ok THEN loaded ELSE {"error"} :
         resultFile' = resultFile \cup {d}
  ELSE UNCHANGED resultFile

(* An uploaded step result is either an error or the step's values.        *)
Upload(ok) ==
  IF upload /\ target
  THEN \E r \in (IF ok THEN {"step", "step1"} ELSE {"error"}) :
         replies' = Append(replies, r)
  ELSE UNCHANGED replies

StepEnd(ok) ==
  /\ executing
  /\ executing' = FALSE
  /\ AppendResult(ok)
  /\ Upload(ok)
  /\ IF control = "Repeat_Run"
     THEN queue' = queue + 1 /\ UNCHANGED control
     ELSE control' = "Idle" /\ UNCHANGED queue
  /\ UNCHANGED <<commands, tool, step, loaded, configured, upload, target,
                 scriptFile>>

(* LWDAQ is killed and started again (bin/lwdaq-stop, bin/lwdaq-server):   *)
(* no tool, nothing queued.                                                *)
LwdaqRestart ==
  /\ tool' = FALSE
  /\ control' = "Idle"
  /\ step' = 0
  /\ loaded' = NoScript
  /\ configured' = FALSE
  /\ upload' = FALSE
  /\ target' = FALSE
  /\ queue' = 0
  /\ executing' = FALSE
  /\ UNCHANGED <<scriptFile, resultFile>>

-----------------------------------------------------------------------------
(***************************************************************************)
(* The environment of this component: a client that sends any command at   *)
(* any time, writes script files and removes the result file.              *)
(***************************************************************************)
MaySend ==
  \/ UNCHANGED commands
  \/ \E c \in Command : commands' = Append(commands, c)

(* It reads the first lines and may send a command.                        *)
Answer ==
  /\ \E n \in 0..Len(replies) : replies' = SubSeq(replies, n + 1, Len(replies))
  /\ MaySend
  /\ UNCHANGED <<lwdaqVars, scriptFile, resultFile>>

(* It starts a run, with a new script or without.                          *)
StartRun ==
  /\ scriptFile' \in {scriptFile} \cup (SUBSET Detectors)
  /\ resultFile' \in {resultFile, {}}
  /\ MaySend
  /\ UNCHANGED <<replies, lwdaqVars>>

(* A new connection.  The upload target may be the name of the new socket  *)
(* too, because Tcl numbers sockets by their file descriptor.              *)
Accept ==
  /\ MaySend
  /\ target' \in {FALSE, target, upload}
  /\ UNCHANGED <<replies, tool, control, step, loaded, configured, upload,
                 queue, executing, scriptFile, resultFile>>

(* The connection is lost, and what was under way with it.                 *)
Lose ==
  /\ commands' = <<>>
  /\ replies' = <<>>
  /\ target' \in {FALSE, target}
  /\ UNCHANGED <<tool, control, step, loaded, configured, upload, queue,
                 executing, scriptFile, resultFile>>

Restart ==
  /\ LwdaqRestart
  /\ commands' = <<>>
  /\ replies' = <<>>

Environment == Answer \/ StartRun \/ Accept \/ Lose \/ Restart

Next ==
  \/ SystemServer \/ QueueStep \/ \E ok \in BOOLEAN : StepEnd(ok)
  \/ Environment

Spec == Init /\ [][Next]_vars

-----------------------------------------------------------------------------
(* The chain of events: the queued ones and the step in progress.          *)
Chain == IF executing THEN queue + 1 ELSE queue

(***************************************************************************)
(* With the window's guard against re-initialisation there is exactly one  *)
(* chain of Acquisifier_execute events while the Acquisifier is busy and   *)
(* none when it is Idle, whatever commands arrive in whatever order: Idle  *)
(* means that nothing is going to write to the result file any more.       *)
(***************************************************************************)
OneChain == Gui => Chain = (IF control = "Idle" THEN 0 ELSE 1)

(* While the Acquisifier is Idle the result file does not grow, and the    *)
(* script is never replaced under a step that is being executed.           *)
IdleIsQuiet ==
  [][Gui => /\ control = "Idle" => resultFile' \subseteq resultFile
            /\ executing /\ executing' => loaded' = loaded]_vars

(* A Stop that had to wait for the step in progress is carried out.        *)
StopIsCarriedOut == control = "Stop" ~> control # "Stop"
=============================================================================
