----------------------------- MODULE LwdaqClient -----------------------------
(***************************************************************************)
(* LWDAQ_Client, the part of adepo-server that talks to LWDAQ: it connects *)
(* and reconnects, sends the commands of a script one after the other,     *)
(* each when the reply to the one before it is the expected one, and turns *)
(* the status lines of the Acquisifier into its own state.                 *)
(*                                                                         *)
(* Every action is one slot called by the Qt event loop.  The server it    *)
(* talks to is not constrained here: any line may arrive at any time.      *)
(***************************************************************************)
EXTENDS Naturals, Sequences

CONSTANTS
  OtherErrors  (* connecting may fail with an error that displayError()    *)
               (* does not answer with a reconnection                      *)

ASSUME OtherErrorsAssumption == OtherErrors \in BOOLEAN

VARIABLES
  lwdaqState,    (* currentState                                           *)
  script,        (* which script cmd and ret hold                          *)
  patched,       (* their entries 1 and 2 hold the name of the socket      *)
  cmdNo,         (* cmdNo, the number of commands sent                     *)
  socket,        (* tcpSocket: down, connecting or up                      *)
  buffer,        (* lines in tcpSocket that were received but not read     *)
  connectTimer,  (* connectTimer is active; likewise the next two          *)
  statusTimer,
  runTimer,
  commands,      (* written to tcpSocket, not interpreted yet              *)
  replies        (* written by LWDAQ, not received yet                     *)

timerVars == <<connectTimer, statusTimer, runTimer>>
clientVars == <<lwdaqState, script, patched, cmdNo, socket, buffer,
                timerVars>>
vars == <<clientVars, commands, replies>>

Command == {"server_info", "set_server_info", "set_upload_target",
            "set_upload_step_result", "run_tool", "run_params",
            "run_settings", "load_script", "repeat_run", "stop", "status"}

Line == {"Idle", "Repeat_Run", "Wait", "Stop", "sockinfo", "sock", "params",
         "settings", "0", "1", "error", "step", "step1"}

LwdaqState == {"CONNECTING", "IDLE", "RUN", "STOP"}

-----------------------------------------------------------------------------
(***************************************************************************)
(* cmd and ret, the commands of the three scripts and the endings that     *)
(* their replies must have.  "*" accepts every reply, and "?" stands for   *)
(* the text "<to be filled by ...>", which no reply ends with.             *)
(***************************************************************************)
InitScript == <<
  [cmd |-> "server_info",            ret |-> "ok"],
  [cmd |-> "set_server_info",        ret |-> "?"],
  [cmd |-> "set_upload_target",      ret |-> "?"],
  [cmd |-> "set_upload_step_result", ret |-> "1"],
  [cmd |-> "run_tool",               ret |-> "1"],
  [cmd |-> "status",                 ret |-> "*"] >>

RunScript == <<
  [cmd |-> "run_params",   ret |-> "params"],
  [cmd |-> "run_settings", ret |-> "settings"],
  [cmd |-> "load_script",  ret |-> "1"],
  [cmd |-> "repeat_run",   ret |-> "1"],
  [cmd |-> "status",       ret |-> "*"] >>

StopScript == <<
  [cmd |-> "stop",   ret |-> "1"],
  [cmd |-> "status", ret |-> "*"] >>

ScriptName == {"init", "run", "stop"}

Script(s) == CASE s = "init" -> InitScript
               [] s = "run"  -> RunScript
               [] s = "stop" -> StopScript

Length(s) == CASE s = "init" -> 6 [] s = "run" -> 5 [] s = "stop" -> 2

(* cmd[no] and ret[no]; the reply to LWDAQ_server_info overwrites cmd[1],  *)
(* ret[1] and ret[2] of whatever script is current.                        *)
Cmd(s, p, no) ==
  IF p /\ no = 1 THEN "set_server_info" ELSE Script(s)[no + 1].cmd

Ret(s, p, no) ==
  IF p /\ no \in {1, 2} THEN "sock" ELSE Script(s)[no + 1].ret

Ending(line) == CASE line = "sockinfo" -> "ok"
                  [] line = "step1"    -> "1"
                  [] OTHER             -> line

Matches(line, ret) == ret = "*" \/ Ending(line) = ret

TypeOK ==
  /\ lwdaqState \in LwdaqState
  /\ script \in ScriptName
  /\ patched \in BOOLEAN
  /\ cmdNo \in 0..Length(script)
  /\ socket \in {"down", "connecting", "up"}
  /\ buffer \in Seq(Line)
  /\ connectTimer \in BOOLEAN
  /\ statusTimer \in BOOLEAN
  /\ runTimer \in BOOLEAN
  /\ commands \in Seq(Command)
  /\ replies \in Seq(Line)

(* The constructor, and the call of init() that ends Server's constructor. *)
Init ==
  /\ lwdaqState = "CONNECTING"
  /\ script = "init"
  /\ patched = FALSE
  /\ cmdNo = 0
  /\ socket = "connecting"
  /\ buffer = <<>>
  /\ connectTimer = FALSE
  /\ statusTimer = FALSE
  /\ runTimer = FALSE
  /\ commands = <<>>
  /\ replies = <<>>

-----------------------------------------------------------------------------
(* Writing to a socket that is connecting is buffered by Qt, writing to    *)
(* one that is not connected fails, which the code does not look at.       *)
Write(c) ==
  commands' = IF socket = "down" THEN commands ELSE Append(commands, c)

NewScript(s) ==
  /\ script' = s
  /\ patched' = FALSE

(* Mutant of InitCommands: the index of the old script is kept.            *)
InitCommandsKeepIndex == NewScript("init") /\ UNCHANGED cmdNo

InitCommands == NewScript("init") /\ cmdNo' = 0

(* Mutant of StartScript: the index of the old script is kept.             *)
StartScriptKeepIndex(s, c) == NewScript(s) /\ Write(c) /\ UNCHANGED cmdNo

(* The commands of a run or of a stop: the first one, c, is sent at once.  *)
StartScript(s, c) == NewScript(s) /\ Write(c) /\ cmdNo' = 1

(* Mutant of Discard: received lines outlive their connection.             *)
DiscardSentOnly == commands' = <<>> /\ UNCHANGED <<buffer, replies>>

(* Everything under way on the connection is gone.                         *)
Discard ==
  /\ buffer' = <<>>
  /\ commands' = <<>>
  /\ replies' = <<>>

(***************************************************************************)
(* init(), called by connectTimer.  abort() on a connected socket emits    *)
(* disconnected, whose slot stops the timers and starts connectTimer.      *)
(***************************************************************************)
ConnectTimeout ==
  /\ connectTimer
  /\ connectTimer' = (socket = "up")
  /\ IF socket = "up" THEN /\ runTimer' = FALSE
                           /\ statusTimer' = FALSE
                      ELSE UNCHANGED <<runTimer, statusTimer>>
  /\ lwdaqState' = "CONNECTING"
  /\ InitCommands
  /\ socket' = "connecting"
  /\ Discard

GotConnected ==
  /\ socket = "connecting"
  /\ socket' = "up"
  /\ commands' = Append(commands, Cmd(script, patched, cmdNo))
  /\ cmdNo' = cmdNo + 1
  /\ UNCHANGED <<lwdaqState, script, patched, buffer, timerVars, replies>>

(* Mutant of ConnectionRefused: no new attempt is scheduled.               *)
ConnectionRefusedGivesUp ==
  /\ socket = "connecting"
  /\ socket' = "down"
  /\ Discard
  /\ UNCHANGED <<lwdaqState, script, patched, cmdNo, timerVars>>

(* displayError(ConnectionRefusedError)                                    *)
ConnectionRefused ==
  /\ socket = "connecting"
  /\ socket' = "down"
  /\ connectTimer' = TRUE
  /\ Discard
  /\ UNCHANGED <<lwdaqState, script, patched, cmdNo, statusTimer, runTimer>>

(* displayError() of HostNotFoundError and of every other error.           *)
ConnectionFailed ==
  /\ OtherErrors
  /\ socket = "connecting"
  /\ socket' = "down"
  /\ Discard
  /\ UNCHANGED <<lwdaqState, script, patched, cmdNo, timerVars>>

(* displayError(RemoteHostClosedError), then gotDisconnected().            *)
GotDisconnected ==
  /\ socket = "up"
  /\ socket' = "down"
  /\ connectTimer' = TRUE
  /\ statusTimer' = FALSE
  /\ runTimer' = FALSE
  /\ lwdaqState' = "CONNECTING"
  /\ Discard
  /\ UNCHANGED <<script, patched, cmdNo>>

-----------------------------------------------------------------------------
(***************************************************************************)
(* readStatus() with the given line.                                       *)
(***************************************************************************)
StateOf(line) == CASE line = "Idle"       -> "IDLE"
                   [] line = "Repeat_Run" -> "RUN"
                   [] line = "Stop"       -> "STOP"
                   [] OTHER               -> lwdaqState

IsError(line) == line \in {"error", "0"}

IsState(line) == line \in {"Idle", "Repeat_Run", "Stop"}

ReadStatus(line) ==
  /\ patched' = (patched \/ line = "sockinfo")
  /\ IF IsError(line)
     THEN /\ Write("status")
          /\ UNCHANGED <<lwdaqState, statusTimer, cmdNo>>
     ELSE /\ lwdaqState' = StateOf(line)
          /\ statusTimer' = IF IsState(line) THEN line = "Stop"
                                             ELSE statusTimer
          /\ IF /\ Matches(line, Ret(script, patched', cmdNo - 1))
                /\ cmdNo < Length(script)
             THEN /\ Write(Cmd(script, patched', cmdNo))
                  /\ cmdNo' = cmdNo + 1
             ELSE UNCHANGED <<commands, cmdNo>>
  /\ UNCHANGED <<script, socket, connectTimer, runTimer>>

(***************************************************************************)
(* readyRead is emitted once for the n lines that have arrived together;   *)
(* the slot reads one line, the oldest, and leaves the others unread.      *)
(***************************************************************************)
ReadyRead(n) ==
  LET unread == buffer \o SubSeq(replies, 1, n)
  IN  /\ socket = "up"
      /\ n \in 1..Len(replies)
      /\ replies' = SubSeq(replies, n + 1, Len(replies))
      /\ buffer' = Tail(unread)
      /\ ReadStatus(Head(unread))

-----------------------------------------------------------------------------
(* Mutant of StartRun: the length of the run is not timed.                 *)
StartRunUntimed ==
  /\ StartScript("run", "run_params")
  /\ UNCHANGED <<lwdaqState, socket, buffer, timerVars, replies>>

StartRun ==
  /\ StartScript("run", "run_params")
  /\ runTimer' = TRUE
  /\ UNCHANGED <<lwdaqState, socket, buffer, connectTimer, statusTimer,
                 replies>>

(* stopRun() behind its test; also the mutant of StopRun without the test. *)
SendStop ==
  /\ StartScript("stop", "stop")
  /\ runTimer' = FALSE
  /\ UNCHANGED <<lwdaqState, socket, buffer, connectTimer, statusTimer,
                 replies>>

StopRun ==
  \/ lwdaqState = "RUN" /\ SendStop
  \/ lwdaqState # "RUN" /\ UNCHANGED vars

(* runTimer is single shot and calls stopRun().                            *)
RunTimeout ==
  /\ runTimer
  /\ \/ lwdaqState = "RUN" /\ StopRun
     \/ /\ lwdaqState # "RUN"
        /\ runTimer' = FALSE
        /\ UNCHANGED <<lwdaqState, script, patched, cmdNo, socket, buffer,
                       connectTimer, statusTimer, commands, replies>>

(* Mutant of IsConnected: false in STOP as well.                           *)
IsRunning == lwdaqState = "RUN"

(* isConnected() is false in IDLE too.                                     *)
IsConnected == lwdaqState \notin {"IDLE", "CONNECTING"}

(* updateStatus(), called by statusTimer, which is single shot.            *)
StatusTimeout ==
  /\ statusTimer
  /\ statusTimer' = FALSE
  /\ IF IsConnected THEN Write("status") ELSE UNCHANGED commands
  /\ UNCHANGED <<lwdaqState, script, patched, cmdNo, socket, buffer,
                 connectTimer, runTimer, replies>>

(* The process is started again after a crash.                             *)
Restart ==
  /\ lwdaqState' = "CONNECTING"
  /\ InitCommands
  /\ socket' = "connecting"
  /\ connectTimer' = FALSE
  /\ statusTimer' = FALSE
  /\ runTimer' = FALSE
  /\ Discard

-----------------------------------------------------------------------------
(* The environment: LWDAQ takes commands and writes lines.                 *)
Lwdaq ==
  /\ socket = "up"
  /\ \/ /\ commands # <<>>
        /\ commands' = Tail(commands)
     \/ UNCHANGED commands
  /\ \/ \E line \in Line : replies' = Append(replies, line)
     \/ UNCHANGED replies
  /\ UNCHANGED clientVars

Receive == \E n \in 1..Len(replies) : ReadyRead(n)

Next ==
  \/ ConnectTimeout \/ GotConnected \/ ConnectionRefused
  \/ ConnectionFailed \/ GotDisconnected
  \/ Receive \/ StartRun \/ StopRun \/ RunTimeout \/ StatusTimeout
  \/ Restart \/ Lwdaq

Spec == Init /\ [][Next]_vars

-----------------------------------------------------------------------------
(***************************************************************************)
(* The reconnection timer runs only while there is no connection, so that  *)
(* init() never aborts one that works; and, unless connecting fails in one *)
(* of the ways displayError() ignores, it always runs then: the client     *)
(* never gives up.                                                         *)
(***************************************************************************)
Reconnects ==
  /\ connectTimer => socket = "down"
  /\ ~OtherErrors /\ socket = "down" => connectTimer

(***************************************************************************)
(* The indices of cmd and ret stay inside the lists, whatever arrives and  *)
(* whenever a run is started or stopped: a line is compared with           *)
(* ret[cmdNo - 1], and gotConnected() sends cmd[cmdNo].                    *)
(***************************************************************************)
IndexSafe ==
  /\ socket = "up" => cmdNo \in 1..Length(script)
  /\ socket = "connecting" => cmdNo < Length(script)

(***************************************************************************)
(* Without a connection the state is CONNECTING, nothing is left to read   *)
(* from the old connection, and the Acquisifier is not polled.             *)
(***************************************************************************)
NoConnectionNoState ==
  socket # "up" => /\ lwdaqState = "CONNECTING"
                   /\ buffer = <<>> /\ replies = <<>>
                   /\ ~statusTimer
=============================================================================
