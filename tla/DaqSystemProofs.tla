--------------------------- MODULE DaqSystemProofs ---------------------------
(***************************************************************************)
(* That the parts of the measurement chain, put together, keep to their    *)
(* own specifications, so that what is proved of a part in any environment *)
(* holds in the chain.                                                     *)
(*                                                                         *)
(* The theorems about the parts are taken from instances of the modules    *)
(* that prove them.  The actions of these instances are the ones the chain *)
(* is built of; the first lemmas say so.                                   *)
(***************************************************************************)
EXTENDS DaqSystem, SequenceTheorems, TLAPS

SrvP == INSTANCE AdepoServerProofs
CliP == INSTANCE LwdaqClientProofs
LwP  == INSTANCE AcquisifierProofs

LEMMA Assumptions ==
  /\ SrvP!DetectorsAssumption /\ SrvP!FlagsAssumption
  /\ CliP!OtherErrorsAssumption
  /\ LwP!DetectorsAssumption /\ LwP!NumStepsAssumption /\ LwP!GuiAssumption
BY DetectorsAssumption, FlagsAssumption, NumStepsAssumption
   DEF SrvP!DetectorsAssumption, SrvP!FlagsAssumption,
       CliP!OtherErrorsAssumption, LwP!DetectorsAssumption,
       LwP!NumStepsAssumption, LwP!GuiAssumption

LEMMA SameServer ==
  /\ Srv!Init <=> SrvP!Init
  /\ [Srv!Next]_(Srv!vars) <=> [SrvP!Next]_(SrvP!vars)
  /\ Srv!TypeOK <=> SrvP!TypeOK
  /\ Srv!ShownState <=> SrvP!ShownState
<1> USE DEF
      Srv!memoryVars, Srv!serverVars, Srv!vars, Srv!Mode, Srv!LwdaqState,
      Srv!AdepoState, Srv!Content, Srv!TypeOK, Srv!Init, Srv!RunDAQ,
      Srv!RunAborted, Srv!StartDAQ, Srv!WaitingTimeout, Srv!StopDAQ,
      Srv!UpdateRun, Srv!UpdateAll, Srv!Rejected, Srv!Calculated, Srv!Throws,
      Srv!CalculateCoordinates, Srv!LwdaqIdle, Srv!LwdaqRun, Srv!LwdaqStop,
      Srv!LwdaqConnecting, Srv!LwdaqStateChanged, Srv!CalculateThrows,
      Srv!Crash, Srv!Restart, Srv!Call, Srv!Measure, Srv!Next, Srv!ShownState,
      SrvP!memoryVars, SrvP!serverVars, SrvP!vars, SrvP!Mode,
      SrvP!LwdaqState, SrvP!AdepoState, SrvP!Content, SrvP!TypeOK, SrvP!Init,
      SrvP!RunDAQ, SrvP!RunAborted, SrvP!StartDAQ, SrvP!WaitingTimeout,
      SrvP!StopDAQ, SrvP!UpdateRun, SrvP!UpdateAll, SrvP!Rejected,
      SrvP!Calculated, SrvP!Throws, SrvP!CalculateCoordinates, SrvP!LwdaqIdle,
      SrvP!LwdaqRun, SrvP!LwdaqStop, SrvP!LwdaqConnecting,
      SrvP!LwdaqStateChanged, SrvP!CalculateThrows, SrvP!Crash, SrvP!Restart,
      SrvP!Call, SrvP!Measure, SrvP!Next, SrvP!ShownState
<1>1. Srv!Init <=> SrvP!Init
  OBVIOUS
<1>2. [Srv!Next]_(Srv!vars) <=> [SrvP!Next]_(SrvP!vars)
  OBVIOUS
<1>3. Srv!TypeOK <=> SrvP!TypeOK
  OBVIOUS
<1>4. Srv!ShownState <=> SrvP!ShownState
  OBVIOUS
<1> QED
  BY <1>1, <1>2, <1>3, <1>4

LEMMA SameClient ==
  /\ Cli!Init <=> CliP!Init
  /\ [Cli!Next]_(Cli!vars) <=> [CliP!Next]_(CliP!vars)
  /\ Cli!TypeOK <=> CliP!TypeOK
  /\ Cli!Reconnects <=> CliP!Reconnects
  /\ Cli!IndexSafe <=> CliP!IndexSafe
  /\ Cli!NoConnectionNoState <=> CliP!NoConnectionNoState
<1> USE DEF
      Cli!timerVars, Cli!clientVars, Cli!vars, Cli!Command, Cli!Line,
      Cli!LwdaqState, Cli!InitScript, Cli!RunScript, Cli!StopScript,
      Cli!ScriptName, Cli!Script, Cli!Length, Cli!Cmd, Cli!Ret, Cli!Ending,
      Cli!Matches, Cli!TypeOK, Cli!Init, Cli!Write, Cli!NewScript,
      Cli!InitCommands, Cli!StartScript, Cli!Discard, Cli!ConnectTimeout,
      Cli!GotConnected, Cli!ConnectionRefused, Cli!ConnectionFailed,
      Cli!GotDisconnected, Cli!StateOf, Cli!IsError, Cli!IsState,
      Cli!ReadStatus, Cli!ReadyRead, Cli!StartRun, Cli!SendStop, Cli!StopRun,
      Cli!RunTimeout, Cli!IsConnected, Cli!StatusTimeout, Cli!Restart,
      Cli!Lwdaq, Cli!Receive, Cli!Next, Cli!Reconnects, Cli!IndexSafe,
      Cli!NoConnectionNoState, CliP!timerVars, CliP!clientVars, CliP!vars,
      CliP!Command, CliP!Line, CliP!LwdaqState, CliP!InitScript,
      CliP!RunScript, CliP!StopScript, CliP!ScriptName, CliP!Script,
      CliP!Length, CliP!Cmd, CliP!Ret, CliP!Ending, CliP!Matches, CliP!TypeOK,
      CliP!Init, CliP!Write, CliP!NewScript, CliP!InitCommands,
      CliP!StartScript, CliP!Discard, CliP!ConnectTimeout, CliP!GotConnected,
      CliP!ConnectionRefused, CliP!ConnectionFailed, CliP!GotDisconnected,
      CliP!StateOf, CliP!IsError, CliP!IsState, CliP!ReadStatus,
      CliP!ReadyRead, CliP!StartRun, CliP!SendStop, CliP!StopRun,
      CliP!RunTimeout, CliP!IsConnected, CliP!StatusTimeout, CliP!Restart,
      CliP!Lwdaq, CliP!Receive, CliP!Next, CliP!Reconnects, CliP!IndexSafe,
      CliP!NoConnectionNoState
<1>1. Cli!Init <=> CliP!Init
  OBVIOUS
<1>2. [Cli!Next]_(Cli!vars) <=> [CliP!Next]_(CliP!vars)
  OBVIOUS
<1>3. Cli!TypeOK <=> CliP!TypeOK
  OBVIOUS
<1>4. /\ Cli!Reconnects <=> CliP!Reconnects
      /\ Cli!IndexSafe <=> CliP!IndexSafe
      /\ Cli!NoConnectionNoState <=> CliP!NoConnectionNoState
  OBVIOUS
<1> QED
  BY <1>1, <1>2, <1>3, <1>4

LEMMA SameLwdaq ==
  /\ Lw!Init <=> LwP!Init
  /\ [Lw!Next]_(Lw!vars) <=> [LwP!Next]_(LwP!vars)
  /\ Lw!TypeOK <=> LwP!TypeOK
  /\ Lw!OneChain <=> LwP!OneChain
<1> USE DEF
      Lw!toolVars, Lw!lwdaqVars, Lw!vars, Lw!Command, Lw!Control, Lw!Line,
      Lw!Content, Lw!TypeOK, Lw!Init, Lw!Interpret, Lw!ServerInfo,
      Lw!SetServerInfo, Lw!SetUploadTarget, Lw!SetUploadStepResult,
      Lw!RunTool, Lw!RunParams, Lw!RunSettings, Lw!LoadScript,
      Lw!CommandRepeatRun, Lw!ControlAfterStop, Lw!CommandStop, Lw!Status,
      Lw!SystemServer, Lw!LastStep, Lw!BeginStep, Lw!EventStopped,
      Lw!QueueStep, Lw!AppendResult, Lw!Upload, Lw!StepEnd, Lw!LwdaqRestart,
      Lw!MaySend, Lw!Answer, Lw!StartRun, Lw!Accept, Lw!Lose, Lw!Restart,
      Lw!Environment, Lw!Next, Lw!Chain, Lw!OneChain, LwP!toolVars,
      LwP!lwdaqVars, LwP!vars, LwP!Command, LwP!Control, LwP!Line,
      LwP!Content, LwP!TypeOK, LwP!Init, LwP!Interpret, LwP!ServerInfo,
      LwP!SetServerInfo, LwP!SetUploadTarget, LwP!SetUploadStepResult,
      LwP!RunTool, LwP!RunParams, LwP!RunSettings, LwP!LoadScript,
      LwP!CommandRepeatRun, LwP!ControlAfterStop, LwP!CommandStop, LwP!Status,
      LwP!SystemServer, LwP!LastStep, LwP!BeginStep, LwP!EventStopped,
      LwP!QueueStep, LwP!AppendResult, LwP!Upload, LwP!StepEnd,
      LwP!LwdaqRestart, LwP!MaySend, LwP!Answer, LwP!StartRun, LwP!Accept,
      LwP!Lose, LwP!Restart, LwP!Environment, LwP!Next, LwP!Chain,
      LwP!OneChain
<1>1. Lw!Init <=> LwP!Init
  OBVIOUS
<1>2. [Lw!Next]_(Lw!vars) <=> [LwP!Next]_(LwP!vars)
  OBVIOUS
<1>3. Lw!TypeOK <=> LwP!TypeOK
  OBVIOUS
<1>4. Lw!OneChain <=> LwP!OneChain
  OBVIOUS
<1> QED
  BY <1>1, <1>2, <1>3, <1>4

-----------------------------------------------------------------------------
(***************************************************************************)
(* The types that the steps below rest on.                                 *)
(***************************************************************************)
CallOK ==
  calls \in Seq([op : {"start", "stop", "updateAll"}]
                \cup [op : {"updateRun"}, mode : Srv!Mode,
                      detectors : SUBSET Detectors])

Chain ==
  /\ CallOK
  /\ target => socket = "up"
  /\ Srv!TypeOK /\ CliP!Inv /\ LwP!Inv

-----------------------------------------------------------------------------
(* Every step of the chain is a step of Server or leaves it alone.         *)
LEMMA CallServer ==
  ASSUME Chain, CallHandled PROVE Srv!Next
<1>1. alive /\ UNCHANGED lwdaqState
  BY DEF CallHandled
<1>2. PICK call : call = Head(calls) /\ call \in
                   [op : {"start", "stop", "updateAll"}]
                \cup [op : {"updateRun"}, mode : Srv!Mode,
                      detectors : SUBSET Detectors]
  BY HeadTailProperties DEF CallHandled, Chain, CallOK
<1>3. CASE call.op = "start" /\ Start
  BY <1>1, <1>3 DEF Start, Srv!Next, Srv!Call
<1>4. CASE call.op = "stop" /\ Stop
  BY <1>1, <1>4 DEF Stop, Srv!Next, Srv!Call
<1>5. CASE call.op = "updateRun" /\ Srv!UpdateRun(call.mode, call.detectors)
  <2>1. call.mode \in Srv!Mode /\ call.detectors \in SUBSET Detectors
    BY <1>2, <1>5
  <2> QED
    BY <1>1, <1>5, <2>1 DEF Srv!Next, Srv!Call
<1>6. CASE Srv!UpdateAll
  BY <1>1, <1>6 DEF Srv!Next, Srv!Call
<1> QED
  BY <1>2, <1>3, <1>4, <1>5, <1>6 DEF CallHandled

LEMMA SignalServer ==
  ASSUME alive, Signal PROVE [Srv!Next]_(Srv!vars)
BY DEF Signal, Srv!Next, server, Srv!vars, Srv!serverVars, Srv!memoryVars

LEMMA MeasureServer ==
  ASSUME Chain, LwdaqStep PROVE [Srv!Next]_(Srv!vars)
<1>1. UNCHANGED <<server, lwdaqState>>
  BY DEF LwdaqStep, client
<1>2. CASE resultFile' = resultFile
  BY <1>1, <1>2 DEF server, Srv!vars, Srv!serverVars, Srv!memoryVars
<1>3. ASSUME NEW ok \in {TRUE, ~StepErrors}, Lw!StepEnd(ok),
             resultFile' # resultFile
      PROVE  Srv!Next
  <2>1. /\ loaded \notin {NoScript, {}}
        /\ \E d \in IF ok THEN loaded ELSE {"error"} :
             resultFile' = resultFile \cup {d}
    BY <1>3 DEF Lw!StepEnd, Lw!AppendResult
  <2>2. PICK d \in IF ok THEN loaded ELSE {"error"} :
               resultFile' = resultFile \cup {d}
    BY <2>1
  <2>3. loaded \subseteq Detectors
    BY <2>1 DEF Chain, LwP!Inv, LwP!TypeOK
  <2>4. d \in IF StepErrors THEN Srv!Content ELSE Detectors
    BY <1>3, <2>2, <2>3, FlagsAssumption DEF Srv!Content
  <2>5. Srv!Measure
    BY <1>1, <2>2, <2>4 DEF Srv!Measure, server, Srv!serverVars,
                           Srv!memoryVars
  <2> QED
    BY <2>5 DEF Srv!Next
<1>4. CASE Lw!QueueStep
  BY <1>2, <1>4 DEF Lw!QueueStep
<1> QED
  BY <1>2, <1>3, <1>4 DEF LwdaqStep

LEMMA ServerStep ==
  Chain /\ [Next]_vars => [Srv!Next]_(Srv!vars)
<1> SUFFICES ASSUME Chain, [Next]_vars PROVE [Srv!Next]_(Srv!vars)
  OBVIOUS
<1> USE DEF server, Srv!vars, Srv!serverVars, Srv!memoryVars
<1>1. CASE CallHandled
  BY <1>1, CallServer
<1>2. CASE WaitingTimeout
  BY <1>2 DEF WaitingTimeout, Srv!Next
<1>3. CASE RunTimeout
  BY <1>3 DEF RunTimeout, Cli!RunTimeout, Cli!StopRun, Cli!SendStop
<1>4. CASE StatusTimeout
  BY <1>4 DEF StatusTimeout, Cli!StatusTimeout
<1>5. CASE ConnectTimeout \/ ReadyRead \/ ConnectionLost \/ LwdaqRestart
  BY <1>5, SignalServer DEF ConnectTimeout, ReadyRead, ConnectionLost,
                            LwdaqRestart
<1>6. CASE GotConnected
  BY <1>6 DEF GotConnected, Cli!GotConnected
<1>7. CASE ReadyReadThrows
  BY <1>7 DEF ReadyReadThrows, Srv!Next, client
<1>8. CASE LwdaqCommand
  BY <1>8 DEF LwdaqCommand, Lw!SystemServer, client
<1>9. CASE LwdaqStep
  BY <1>9, MeasureServer
<1>10. CASE ConnectFails
  BY <1>10 DEF ConnectFails, Cli!ConnectionRefused, Cli!ConnectionFailed
<1>11. CASE ServerCrash
  BY <1>11 DEF ServerCrash, Srv!Next, client
<1>12. CASE ServerRestart
  BY <1>12 DEF ServerRestart, Srv!Next, Cli!Restart
<1>13. CASE Press \/ UNCHANGED vars
  BY <1>13 DEF Press, vars, client
<1> QED
  BY <1>1, <1>2, <1>3, <1>4, <1>5, <1>6, <1>7, <1>8, <1>9, <1>10, <1>11,
     <1>12, <1>13 DEF Next, Step, Fault

-----------------------------------------------------------------------------
(* Every step of the chain is a step of LWDAQ_Client or leaves it alone.   *)
LEMMA StartClient ==
  ASSUME StartRunIfRemoved, UNCHANGED lwdaqState PROVE [Cli!Next]_(Cli!vars)
BY DEF StartRunIfRemoved, Cli!Next, Cli!vars, Cli!clientVars, Cli!timerVars,
       client, connection

LEMMA LwdaqIsEnvironment ==
  ASSUME Chain, LwdaqCommand \/ LwdaqStep PROVE [Cli!Next]_(Cli!vars)
<1> USE DEF Cli!vars, Cli!clientVars, client
<1>1. UNCHANGED Cli!clientVars
  BY DEF LwdaqCommand, LwdaqStep, Cli!timerVars
<1>2. CASE LwdaqCommand
  <2>1. socket = "up" /\ commands # <<>> /\ commands' = Tail(commands)
    BY <1>2 DEF LwdaqCommand, Lw!SystemServer, Lw!ServerInfo,
       Lw!SetServerInfo, Lw!SetUploadTarget, Lw!SetUploadStepResult,
       Lw!RunTool, Lw!RunParams, Lw!RunSettings, Lw!LoadScript,
       Lw!CommandRepeatRun, Lw!CommandStop, Lw!Status, Lw!Interpret
  <2>2. control \in Lw!Control
    BY DEF Chain, LwP!Inv, LwP!TypeOK, LwP!Control, Lw!Control
  <2>3. \E line \in Cli!Line : replies' = Append(replies, line)
    BY <1>2, <2>2 DEF LwdaqCommand, Lw!SystemServer, Lw!ServerInfo,
       Lw!SetServerInfo, Lw!SetUploadTarget, Lw!SetUploadStepResult,
       Lw!RunTool, Lw!RunParams, Lw!RunSettings, Lw!LoadScript,
       Lw!CommandRepeatRun, Lw!CommandStop, Lw!Status, Lw!Interpret,
       Lw!Control, Cli!Line
  <2> QED
    BY <1>1, <2>1, <2>3, Zenon DEF Cli!Lwdaq, Cli!Next
<1>3. CASE LwdaqStep /\ replies' = replies
  BY <1>1, <1>3 DEF LwdaqStep, Lw!QueueStep, Lw!StepEnd
<1>4. CASE LwdaqStep /\ replies' # replies
  <2>1. PICK ok \in {TRUE, ~StepErrors} : Lw!StepEnd(ok)
    BY <1>4 DEF LwdaqStep, Lw!QueueStep
  <2>2. /\ target
        /\ \E r \in {"step", "step1", "error"} : replies' = Append(replies, r)
    BY <1>4, <2>1 DEF Lw!StepEnd, Lw!Upload
  <2>3. socket = "up"
    BY <2>2 DEF Chain
  <2>4. \E line \in Cli!Line : replies' = Append(replies, line)
    BY <2>2 DEF Cli!Line
  <2>5. commands' = commands
    BY <2>1 DEF Lw!StepEnd
  <2> QED
    BY <1>1, <2>3, <2>4, <2>5, Zenon DEF Cli!Lwdaq, Cli!Next
<1> QED
  BY <1>2, <1>3, <1>4

LEMMA ClientStep ==
  Chain /\ [Next]_vars => [Cli!Next]_(Cli!vars)
<1> SUFFICES ASSUME Chain, [Next]_vars PROVE [Cli!Next]_(Cli!vars)
  OBVIOUS
<1>1. CASE CallHandled
  <2>1. CASE Start
    BY <1>1, <2>1, StartClient DEF CallHandled, Start
  <2>2. CASE Stop
    BY <1>1, <2>2 DEF CallHandled, Stop, Cli!Next, Cli!vars, Cli!clientVars,
                      Cli!timerVars, client, connection
  <2>3. CASE UNCHANGED <<client, connection>>
    BY <2>3 DEF Cli!vars, Cli!clientVars, Cli!timerVars, client, connection
  <2> QED
    BY <1>1, <2>1, <2>2, <2>3 DEF CallHandled
<1>2. CASE WaitingTimeout
  BY <1>2, StartClient DEF WaitingTimeout
<1>3. CASE RunTimeout \/ StatusTimeout \/ ConnectTimeout \/ GotConnected
           \/ ReadyRead
  BY <1>3 DEF RunTimeout, StatusTimeout, ConnectTimeout, GotConnected,
              ReadyRead, Cli!Next
<1>4. CASE ConnectFails \/ ConnectionLost \/ LwdaqRestart \/ ServerRestart
  BY <1>4 DEF ConnectFails, ConnectionLost, LwdaqRestart, ServerRestart,
              Cli!Next
<1>5. CASE LwdaqCommand \/ LwdaqStep
  BY <1>5, LwdaqIsEnvironment
<1>6. CASE ReadyReadThrows \/ ServerCrash \/ Press \/ UNCHANGED vars
  BY <1>6 DEF ReadyReadThrows, ServerCrash, Press, vars, Cli!vars,
              Cli!clientVars, Cli!timerVars, client, connection
<1> QED
  BY <1>1, <1>2, <1>3, <1>4, <1>5, <1>6 DEF Next, Step, Fault

-----------------------------------------------------------------------------
(* Every step of the chain is a step of LWDAQ, or of its environment, or   *)
(* leaves it alone.                                                        *)
LEMMA Starts ==
  ASSUME UNCHANGED <<lwdaq, replies>>, Lw!MaySend,
         scriptFile' \in {scriptFile} \cup SUBSET Detectors,
         resultFile' \in {resultFile, {}}
  PROVE  Lw!Next
BY DEF Lw!Next, Lw!Environment, Lw!StartRun, lwdaq, Lw!lwdaqVars, Lw!toolVars

LEMMA Sends ==
  ASSUME NEW c \in Lw!Command, Cli!Write(c) PROVE Lw!MaySend
BY DEF Cli!Write, Lw!MaySend

LEMMA StopSends ==
  ASSUME Cli!StopRun PROVE Lw!MaySend /\ UNCHANGED replies
<1>1. CASE Cli!SendStop
  BY <1>1, Sends DEF Cli!SendStop, Cli!StartScript, Lw!Command
<1>2. CASE UNCHANGED Cli!vars
  BY <1>2 DEF Cli!vars, Lw!MaySend
<1> QED
  BY <1>1, <1>2 DEF Cli!StopRun

LEMMA RunSends ==
  ASSUME StartRunIfRemoved PROVE Lw!MaySend /\ UNCHANGED replies
<1>1. CASE Cli!StartRun
  BY <1>1, Sends DEF Cli!StartRun, Cli!StartScript, Lw!Command
<1>2. CASE UNCHANGED connection
  BY <1>2 DEF connection, Lw!MaySend
<1> QED
  BY <1>1, <1>2 DEF StartRunIfRemoved

(* What an index inside the lists gives.                                   *)
LEMMA NextCommand ==
  ASSUME NEW s \in Cli!ScriptName, NEW p \in BOOLEAN,
         NEW no \in 0..Cli!Length(s)-1
  PROVE  Cli!Cmd(s, p, no) \in Lw!Command
<1>1. /\ Cli!ScriptName = CliP!ScriptName
      /\ Cli!Length(s) = CliP!Length(s)
      /\ Cli!Cmd(s, p, no) = CliP!Cmd(s, p, no)
      /\ Lw!Command = CliP!Command
  BY DEF Cli!ScriptName, CliP!ScriptName, Cli!Length, CliP!Length, Cli!Cmd,
         CliP!Cmd, Cli!Script, CliP!Script, Cli!InitScript, CliP!InitScript,
         Cli!RunScript, CliP!RunScript, Cli!StopScript, CliP!StopScript,
         Lw!Command, CliP!Command
<1>2. CliP!Cmd(s, p, no) \in CliP!Command
  BY <1>1, CliP!ScriptCommands, Assumptions
<1> QED
  BY <1>1, <1>2

LEMMA ReadSends ==
  ASSUME Chain, NEW line, Cli!ReadStatus(line) PROVE Lw!MaySend
<1>1. CASE Cli!Write("status")
  BY <1>1, Sends DEF Lw!Command
<1>2. CASE UNCHANGED commands
  BY <1>2 DEF Lw!MaySend
<1>3. CASE /\ cmdNo < Cli!Length(script)
           /\ Cli!Write(Cli!Cmd(script, patched', cmdNo))
  <2>1. Cli!TypeOK
    BY SameClient DEF Chain, CliP!Inv
  <2>2. script \in Cli!ScriptName /\ patched' \in BOOLEAN
    BY <2>1 DEF Cli!TypeOK, Cli!ReadStatus
  <2>3. Cli!Length(script) \in Nat
    BY <2>2 DEF Cli!Length, Cli!ScriptName
  <2>4. cmdNo \in 0..Cli!Length(script)-1
    BY <1>3, <2>1, <2>3 DEF Cli!TypeOK
  <2> QED
    BY <1>3, <2>2, <2>4, NextCommand, Sends
<1> QED
  BY <1>1, <1>2, <1>3 DEF Cli!ReadStatus

LEMMA ReadAnswers == ASSUME Chain, ReadyRead PROVE Lw!Next
<1>1. PICK n \in 1..Len(replies) : Cli!ReadyRead(n)
  BY DEF ReadyRead, Cli!Receive
<1>2. replies' = SubSeq(replies, n + 1, Len(replies)) /\ n \in 0..Len(replies)
  BY <1>1 DEF Cli!ReadyRead
<1>3. Lw!MaySend
  BY <1>1, ReadSends DEF Cli!ReadyRead
<1>4. UNCHANGED <<lwdaq, scriptFile, resultFile>>
  BY DEF ReadyRead, Signal, server, Srv!LwdaqStateChanged
<1> QED
  BY <1>2, <1>3, <1>4 DEF Lw!Next, Lw!Environment, Lw!Answer, lwdaq,
                          Lw!lwdaqVars, Lw!toolVars

LEMMA ConnectedAccepts == ASSUME Chain, GotConnected PROVE Lw!Next
<1>1. Cli!TypeOK /\ Cli!IndexSafe
  BY SameClient DEF Chain, CliP!Inv
<1>2. Cli!Length(script) \in Nat /\ script \in Cli!ScriptName
  BY <1>1 DEF Cli!Length, Cli!ScriptName, Cli!TypeOK
<1>3. cmdNo \in 0..Cli!Length(script)-1 /\ patched \in BOOLEAN
  BY <1>1, <1>2 DEF GotConnected, Cli!GotConnected, Cli!TypeOK, Cli!IndexSafe
<1>4. Cli!Cmd(script, patched, cmdNo) \in Lw!Command
  BY <1>2, <1>3, NextCommand
<1>5. Lw!MaySend
  BY <1>4 DEF GotConnected, Cli!GotConnected, Lw!MaySend
<1> QED
  BY <1>5 DEF GotConnected, Cli!GotConnected, server, Lw!Accept,
              Lw!Environment, Lw!Next

LEMMA Loses ==
  ASSUME Cli!Discard, target' \in {FALSE, target},
         UNCHANGED <<tool, control, step, loaded, configured, upload, queue,
                     executing, scriptFile, resultFile>>
  PROVE  Lw!Next
BY DEF Cli!Discard, Lw!Next, Lw!Environment, Lw!Lose

LEMMA LwdaqChainStep ==
  Chain /\ [Next]_vars => [Lw!Next]_(Lw!vars)
<1> SUFFICES ASSUME Chain, [Next]_vars PROVE [Lw!Next]_(Lw!vars)
  OBVIOUS
<1> DEFINE Unchanged == UNCHANGED <<lwdaq, connection, scriptFile, resultFile>>
<1>1. Unchanged => UNCHANGED Lw!vars
  BY DEF lwdaq, connection, Lw!vars, Lw!lwdaqVars, Lw!toolVars
<1>2. detectors \in SUBSET Detectors
  BY DEF Chain, Srv!TypeOK
<1>3. CASE CallHandled
  <2>1. CASE Start
    BY <1>2, <1>3, <2>1, RunSends, Starts
       DEF CallHandled, Start, Srv!StartDAQ, Srv!RunDAQ, Srv!RunAborted
  <2>2. CASE Stop
    <3>1. UNCHANGED <<lwdaq, scriptFile, resultFile>>
      BY <1>3, <2>2 DEF CallHandled, Stop, Srv!StopDAQ
    <3>2. CASE Cli!StopRun
      BY <3>1, <3>2, StopSends, Starts
    <3>3. CASE UNCHANGED connection
      BY <1>1, <3>1, <3>3
    <3> QED
      BY <2>2, <3>2, <3>3 DEF Stop
  <2>3. CASE /\ UNCHANGED <<client, connection>>
             /\ \/ \E m, ds : Srv!UpdateRun(m, ds)
                \/ Srv!UpdateAll
    BY <1>1, <1>3, <2>3 DEF CallHandled, Srv!UpdateRun, Srv!UpdateAll
  <2> QED
    BY <1>3, <2>1, <2>2, <2>3 DEF CallHandled
<1>4. CASE WaitingTimeout
  BY <1>4, RunSends, Starts
     DEF WaitingTimeout, Srv!WaitingTimeout, Srv!RunDAQ, Srv!RunAborted
<1>5. CASE RunTimeout
  <2>1. UNCHANGED <<lwdaq, scriptFile, resultFile>>
    BY <1>5 DEF RunTimeout, server
  <2>2. CASE Cli!StopRun
    BY <2>1, <2>2, StopSends, Starts
  <2>3. CASE UNCHANGED connection
    BY <1>1, <2>1, <2>3
  <2> QED
    BY <1>5, <2>2, <2>3 DEF RunTimeout, Cli!RunTimeout, connection
<1>6. CASE StatusTimeout
  <2>1. UNCHANGED <<lwdaq, replies, scriptFile, resultFile>>
    BY <1>6 DEF StatusTimeout, Cli!StatusTimeout, server
  <2>2. Lw!MaySend
    BY <1>6, Sends DEF StatusTimeout, Cli!StatusTimeout, Lw!Command,
                       Lw!MaySend
  <2> QED
    BY <2>1, <2>2, Starts
<1>7. CASE ConnectTimeout
  BY <1>7, Loses DEF ConnectTimeout, Cli!ConnectTimeout, Signal, server,
                     Srv!LwdaqStateChanged, lwdaq
<1>8. CASE ConnectFails
  BY <1>8, Loses DEF ConnectFails, Cli!ConnectionRefused,
                     Cli!ConnectionFailed, server, lwdaq
<1>9. CASE ConnectionLost
  BY <1>9, Loses DEF ConnectionLost, Cli!GotDisconnected, Signal, server,
                     Srv!LwdaqStateChanged
<1>10. CASE ServerRestart
  BY <1>10, Loses DEF ServerRestart, Cli!Restart, Srv!Restart
<1>11. CASE LwdaqRestart
  BY <1>11 DEF LwdaqRestart, Cli!GotDisconnected, Cli!Discard, Lw!Restart,
               Lw!Environment, Lw!Next
<1>12. CASE LwdaqCommand \/ LwdaqStep
  <2>1. \A ok \in {TRUE, ~StepErrors} : ok \in BOOLEAN
    BY FlagsAssumption
  <2> QED
    BY <1>12, <2>1 DEF LwdaqCommand, LwdaqStep, Lw!Next
<1>13. CASE ReadyReadThrows \/ ServerCrash \/ Press \/ UNCHANGED vars
  BY <1>1, <1>13 DEF ReadyReadThrows, Srv!CalculateThrows, ServerCrash,
                     Srv!Crash, Press, vars, server
<1> QED
  BY <1>3, <1>4, <1>5, <1>6, <1>7, <1>8, <1>9, <1>10, <1>11, <1>12, <1>13,
     ReadAnswers, ConnectedAccepts DEF Next, Step, Fault

-----------------------------------------------------------------------------
(* The types are kept, by the steps of the parts.                          *)
LEMMA CallsKept == ASSUME Chain, [Next]_vars PROVE CallOK'
<1> DEFINE CallType == [op : {"start", "stop", "updateAll"}]
                \cup [op : {"updateRun"}, mode : Srv!Mode,
                      detectors : SUBSET Detectors]
<1>1. /\ calls \in Seq(CallType)
      /\ runFile.mode \in Srv!Mode /\ runFile.detectors \in SUBSET Detectors
  BY DEF Chain, CallOK, Srv!TypeOK
<1>2. ASSUME NEW m \in Srv!Mode, NEW ds \in SUBSET Detectors
      PROVE  Update(m, ds) \in CallType
  BY DEF Update
<1>3. \A name \in {"start", "stop", "updateAll"} : Simple(name) \in CallType
  BY DEF Simple
<1>4. SUFFICES calls' \in Seq(CallType)
  BY DEF CallOK, Srv!Mode
<1> HIDE DEF CallType
<1>5. CASE calls' = <<>>
  BY <1>5, EmptySeq
<1>6. CASE calls' = calls
  BY <1>1, <1>6
<1>7. CASE calls # <<>> /\ calls' = Tail(calls)
  BY <1>1, <1>7, HeadTailProperties
<1>8. CASE Press
  <2>1. CASE PressStart
    <3>1. PICK m \in Srv!Mode :
                 calls' = <<Update(m, runFile.detectors), Simple("start")>>
      BY <2>1 DEF PressStart
    <3> QED
      BY <1>1, <1>2, <1>3, <3>1
  <2>2. CASE PressStop
    <3>1. calls' = <<Simple("stop"), Update(runFile.mode, runFile.detectors)>>
      BY <2>2 DEF PressStop
    <3> QED
      BY <1>1, <1>2, <1>3, <3>1
  <2>3. CASE Select
    <3>1. PICK ds \in SUBSET Detectors : calls' = <<Update(runFile.mode, ds)>>
      BY <1>1, <2>3 DEF Select
    <3> QED
      BY <1>1, <1>2, <3>1
  <2>4. CASE Connect
    BY <1>3, <2>4 DEF Connect
  <2> QED
    BY <1>8, <2>1, <2>2, <2>3, <2>4 DEF Press
<1> QED
  BY <1>5, <1>6, <1>7, <1>8 DEF Next, Step, Fault, CallHandled,
     WaitingTimeout, RunTimeout, StatusTimeout, ConnectTimeout, GotConnected,
     ReadyRead, ReadyReadThrows, LwdaqCommand, LwdaqStep, ServerRestart,
     ConnectFails, ConnectionLost, LwdaqRestart, ServerCrash, vars

(* A line is uploaded only on an open connection.                          *)
LEMMA TargetKept ==
  ASSUME Chain, [Next]_vars PROVE (target => socket = "up")'
<1>1. target => socket = "up"
  BY DEF Chain
<1>2. connectTimer => socket = "down"
  BY DEF Chain, CliP!Inv, CliP!Reconnects
<1>3. CASE CallHandled \/ WaitingTimeout
  <2>1. socket' = socket
    BY <1>3 DEF CallHandled, WaitingTimeout, Start, Stop, StartRunIfRemoved,
       Cli!StartRun, Cli!StopRun, Cli!SendStop, Cli!vars, Cli!clientVars,
       client
  <2> QED
    BY <1>1, <1>3, <2>1 DEF CallHandled, WaitingTimeout, lwdaq
<1>4. CASE RunTimeout \/ StatusTimeout
  <2>1. socket' = socket
    BY <1>4 DEF RunTimeout, StatusTimeout, Cli!RunTimeout, Cli!StatusTimeout,
       Cli!StopRun, Cli!SendStop
  <2> QED
    BY <1>1, <1>4, <2>1 DEF RunTimeout, StatusTimeout, lwdaq
<1>5. CASE ConnectTimeout
  BY <1>1, <1>2, <1>5 DEF ConnectTimeout, Cli!ConnectTimeout, lwdaq
<1>6. CASE GotConnected
  BY <1>6 DEF GotConnected, Cli!GotConnected
<1>7. CASE ReadyRead
  BY <1>1, <1>7 DEF ReadyRead, Cli!Receive, Cli!ReadyRead, Cli!ReadStatus,
                    lwdaq
<1>8. CASE LwdaqCommand
  BY <1>8 DEF LwdaqCommand, client
<1>9. CASE LwdaqStep
  BY <1>1, <1>9 DEF LwdaqStep, Lw!QueueStep, Lw!StepEnd, client
<1>10. CASE ConnectFails
  BY <1>1, <1>10 DEF ConnectFails, Cli!ConnectionRefused,
                     Cli!ConnectionFailed, lwdaq
<1>11. CASE ConnectionLost \/ LwdaqRestart \/ ServerRestart
  BY <1>11 DEF ConnectionLost, LwdaqRestart, ServerRestart, Lw!LwdaqRestart
<1>12. CASE ReadyReadThrows \/ ServerCrash \/ Press \/ UNCHANGED vars
  BY <1>1, <1>12 DEF ReadyReadThrows, ServerCrash, Press, vars, client, lwdaq
<1> QED
  BY <1>3, <1>4, <1>5, <1>6, <1>7, <1>8, <1>9, <1>10, <1>11, <1>12
     DEF Next, Step, Fault

LEMMA ChainInit == Init => Chain
<1> SUFFICES ASSUME Init PROVE Chain
  OBVIOUS
<1>1. CallOK
  BY DEF Init, CallOK
<1>2. target => socket = "up"
  BY DEF Init, Lw!Init
<1>3. Srv!TypeOK
  BY SameServer, SrvP!InitTypeOK, Assumptions DEF Init
<1>4. CliP!Inv
  BY SameClient, CliP!InitInv, Assumptions DEF Init
<1>5. LwP!Inv
  BY SameLwdaq, LwP!InitInv, Assumptions DEF Init
<1> QED
  BY <1>1, <1>2, <1>3, <1>4, <1>5 DEF Chain

LEMMA ChainNext == Chain /\ [Next]_vars => Chain'
<1> SUFFICES ASSUME Chain, [Next]_vars PROVE Chain'
  OBVIOUS
<1>1. Srv!TypeOK'
  <2>1. SrvP!TypeOK /\ [SrvP!Next]_(SrvP!vars)
    BY ServerStep, SameServer DEF Chain
  <2>2. SrvP!TypeOK'
    BY <2>1, SrvP!NextTypeOK, Assumptions
  <2> QED
    BY <2>2 DEF Srv!TypeOK, SrvP!TypeOK, Srv!LwdaqState, SrvP!LwdaqState,
       Srv!AdepoState, SrvP!AdepoState, Srv!Mode, SrvP!Mode, Srv!Content,
       SrvP!Content
<1>2. CliP!Inv'
  <2>1. CliP!Inv /\ [CliP!Next]_(CliP!vars)
    BY ClientStep, SameClient DEF Chain
  <2> QED
    BY <2>1, CliP!NextInv, Assumptions
<1>3. LwP!Inv'
  <2>1. LwP!Inv /\ [LwP!Next]_(LwP!vars)
    BY LwdaqChainStep, SameLwdaq DEF Chain
  <2> QED
    BY <2>1, LwP!NextInv, Assumptions
<1> QED
  BY <1>1, <1>2, <1>3, CallsKept, TargetKept DEF Chain

LEMMA ChainHolds == Spec => []Chain
  BY ChainInit, ChainNext, PTL DEF Spec

-----------------------------------------------------------------------------
(***************************************************************************)
(* Server, in the chain, behaves as Server does with an LWDAQ_Client of    *)
(* which nothing is assumed.                                               *)
(***************************************************************************)
THEOREM ServerInChain == Spec => ServerConforms
<1>1. Init => Srv!Init
  BY DEF Init
<1> QED
  BY <1>1, ChainHolds, ServerStep, PTL DEF Spec, ServerConforms, Srv!Spec

(***************************************************************************)
(* LWDAQ_Client, in the chain, behaves as it does with an LWDAQ that       *)
(* answers anything at any time.                                           *)
(***************************************************************************)
THEOREM ClientInChain == Spec => ClientConforms
<1>1. Init => Cli!Init
  BY DEF Init
<1> QED
  BY <1>1, ChainHolds, ClientStep, PTL DEF Spec, ClientConforms, Cli!Spec

(***************************************************************************)
(* LWDAQ, in the chain, behaves as it does with a client that sends any    *)
(* command at any time.                                                    *)
(***************************************************************************)
THEOREM LwdaqInChain == Spec => LwdaqConforms
<1>1. Init => Lw!Init
  BY DEF Init
<1> QED
  BY <1>1, ChainHolds, LwdaqChainStep, PTL DEF Spec, LwdaqConforms, Lw!Spec

(***************************************************************************)
(* So what was proved of the parts holds of the chain.  Of its results: at *)
(* most one publication for a start, and of nothing but what was measured  *)
(* since and what calculations that were given up had kept.                *)
(***************************************************************************)
THEOREM ResultsOfChain == Spec => SrvP!ResultsPromise
<1>1. Srv!Spec => SrvP!Spec
  BY SameServer, PTL DEF Srv!Spec, SrvP!Spec
<1>2. SrvP!Spec => SrvP!ResultsPromise
  BY SrvP!PromiseKept, Assumptions
<1> QED
  BY <1>1, <1>2, ServerInChain, PTL DEF ServerConforms

(***************************************************************************)
(* Of its states: what the clients are shown agrees with the state of      *)
(* LWDAQ_Client, which never gives up, stays inside its lists and keeps    *)
(* nothing of a lost connection; and, with a window, Idle means at rest.   *)
(***************************************************************************)
THEOREM InvariantsOfChain ==
  Spec => [](/\ Srv!ShownState
             /\ Cli!Reconnects /\ Cli!IndexSafe /\ Cli!NoConnectionNoState
             /\ Lw!OneChain)
<1>1. Srv!Spec => SrvP!Spec
  BY SameServer, PTL DEF Srv!Spec, SrvP!Spec
<1>2. SrvP!Spec => []SrvP!ShownState
  BY SrvP!ShownStateAgrees, Assumptions
<1>3. Chain => /\ Cli!Reconnects /\ Cli!IndexSafe /\ Cli!NoConnectionNoState
               /\ Lw!OneChain
  BY SameClient, SameLwdaq DEF Chain, CliP!Inv, LwP!Inv
<1> QED
  BY <1>1, <1>2, <1>3, ChainHolds, ServerInChain, SameServer, PTL
     DEF ServerConforms
-----------------------------------------------------------------------------
(***************************************************************************)
(* The name of the socket never overwrites a stop script.                  *)
(*                                                                         *)
(* LWDAQ_server_info is the first command of a connection, so its reply is *)
(* the first line of the connection but for step results that are uploaded *)
(* on their own; those do not change the state, which therefore is still   *)
(* CONNECTING when the name is read, and in that state no stop is sent.    *)
(***************************************************************************)
Uploads == {"step", "step1", "error"}

(* The lines that were not read yet.  Kept as one operator of two          *)
(* sequences: the prover then leaves it folded where its definition is not *)
(* needed.                                                                 *)
Joined(s, t) == s \o t

SockOK(lines, cmds, st) ==
  /\ \A i \in 1..Len(lines) :
       lines[i] = "sockinfo" =>
         st = "CONNECTING" /\ \A j \in 1..i-1 : lines[j] \in Uploads
  /\ \A i \in 1..Len(cmds) :
       cmds[i] = "server_info" =>
         /\ i = 1 /\ st = "CONNECTING"
         /\ \A j \in 1..Len(lines) : lines[j] \in Uploads

SockFirst ==
  /\ SockOK(Joined(buffer, replies), commands, lwdaqState)
  /\ socket = "down" => commands = <<>>
  /\ socket = "connecting" /\ script = "init" => commands = <<>>
  /\ socket = "connecting" => script # "stop"
  /\ socket = "up" /\ lwdaqState = "CONNECTING" => script # "stop"

-----------------------------------------------------------------------------
(***************************************************************************)
(* Facts about sequences: a line that arrives is the last one, and a slot  *)
(* that reads takes the first one.                                         *)
(***************************************************************************)
LEMMA JoinedAppend ==
  ASSUME NEW S, NEW b \in Seq(S), NEW r \in Seq(S), NEW x \in S
  PROVE  Joined(b, Append(r, x)) = Append(Joined(b, r), x)
<1>1. <<x>> \in Seq(S) /\ b \o r \in Seq(S)
  BY ConcatProperties
<1>2. /\ Append(r, x) = r \o <<x>>
      /\ Append(b \o r, x) = (b \o r) \o <<x>>
  BY <1>1, AppendIsConcat
<1> QED
  BY <1>1, <1>2, ConcatAssociative DEF Joined

LEMMA TailConcat ==
  ASSUME NEW S, NEW u \in Seq(S), u # <<>>, NEW t \in Seq(S)
  PROVE  Tail(u \o t) = Tail(u) \o t /\ Head(u \o t) = Head(u)
         /\ u \o t # <<>>
<1>1. Len(u) \in Nat /\ Len(t) \in Nat /\ Len(u) >= 1
  OBVIOUS
<1>2. u \o t \in Seq(S) /\ u \o t # <<>>
  BY ConcatProperties, ConcatEqualIffEmpty
<1>3. Head(u \o t) = Head(u)
  BY <1>1, <1>2
<1>4. Tail(u \o t) = Tail(u) \o t
  <2> DEFINE p == Tail(u \o t)
             q == Tail(u) \o t
  <2>1. p \in Seq(S) /\ q \in Seq(S)
    BY <1>2, HeadTailProperties, ConcatProperties
  <2>2. Len(p) = Len(u) + Len(t) - 1 /\ Len(q) = Len(u) + Len(t) - 1
    BY <1>1, <1>2
  <2>3. ASSUME NEW i \in 1..Len(p) PROVE p[i] = q[i]
    BY <1>1, <1>2, <2>2, <2>3
  <2> QED
    BY <2>1, <2>2, <2>3, SeqEqual
<1> QED
  BY <1>2, <1>3, <1>4

LEMMA ReadParts ==
  ASSUME NEW S
  PROVE  \A b, x, v, r \in Seq(S) :
           x # <<>> /\ Joined(x, v) = r =>
             /\ Joined(Tail(Joined(b, x)), v) = Tail(Joined(b, r))
             /\ Head(Joined(b, x)) = Head(Joined(b, r))
             /\ Joined(b, r) # <<>>
<1> SUFFICES ASSUME NEW b \in Seq(S), NEW x \in Seq(S), NEW v \in Seq(S),
                    NEW r \in Seq(S), x # <<>>, Joined(x, v) = r
             PROVE  /\ Joined(Tail(Joined(b, x)), v) = Tail(Joined(b, r))
                    /\ Head(Joined(b, x)) = Head(Joined(b, r))
                    /\ Joined(b, r) # <<>>
  OBVIOUS
<1>1. b \o x \in Seq(S)
  BY ConcatProperties
<1>2. b \o x # <<>>
  BY ConcatEqualIffEmpty
<1>3. (b \o x) \o v = b \o (x \o v)
  BY ConcatAssociative
<1>4. /\ Tail((b \o x) \o v) = Tail(b \o x) \o v
      /\ Head((b \o x) \o v) = Head(b \o x) /\ (b \o x) \o v # <<>>
  BY <1>1, <1>2, TailConcat, Zenon
<1>5. /\ Joined(Tail(Joined(b, x)), v) = Tail(Joined(b, Joined(x, v)))
      /\ Head(Joined(b, x)) = Head(Joined(b, Joined(x, v)))
      /\ Joined(b, Joined(x, v)) # <<>>
  BY <1>3, <1>4, Zenon DEF Joined
<1> QED
  BY <1>5, Zenon

LEMMA ReadStream ==
  ASSUME NEW S, NEW b \in Seq(S), NEW r \in Seq(S), NEW n \in 1..Len(r)
  PROVE  LET unread == Joined(b, SubSeq(r, 1, n))
         IN  /\ Joined(Tail(unread), SubSeq(r, n + 1, Len(r)))
                  = Tail(Joined(b, r))
             /\ Head(unread) = Head(Joined(b, r))
             /\ Joined(b, r) # <<>>
<1>1. SubSeq(r, 1, n) \in Seq(S) /\ SubSeq(r, 1, n) # <<>>
  BY SubSeqProperties
<1>2. SubSeq(r, n + 1, Len(r)) \in Seq(S)
  BY SubSeqProperties
<1>3. Joined(SubSeq(r, 1, n), SubSeq(r, n + 1, Len(r))) = r
  <2>1. /\ 1 \in 1..Len(r) + 1 /\ n \in 1 - 1..Len(r)
        /\ Len(r) \in n..Len(r)
    OBVIOUS
  <2>2. SubSeq(r, 1, n) \o SubSeq(r, n + 1, Len(r)) = SubSeq(r, 1, Len(r))
    BY <2>1, ConcatAdjacentSubSeq, Zenon
  <2> QED
    BY <2>2, SubSeqFull, Zenon DEF Joined
<1>4. PICK x \in Seq(S) : x = SubSeq(r, 1, n)
  BY <1>1
<1>5. PICK v \in Seq(S) : v = SubSeq(r, n + 1, Len(r))
  BY <1>2
<1>6. x # <<>> /\ Joined(x, v) = r
  BY <1>1, <1>3, <1>4, <1>5, Zenon
<1>7. /\ Joined(Tail(Joined(b, x)), v) = Tail(Joined(b, r))
      /\ Head(Joined(b, x)) = Head(Joined(b, r))
      /\ Joined(b, r) # <<>>
  BY <1>6, ReadParts
<1> QED
  BY <1>4, <1>5, <1>7, Zenon

-----------------------------------------------------------------------------
(***************************************************************************)
(* A command other than the first, an uploaded line, an interpreted        *)
(* command, and a line that is read keep the order.                        *)
(***************************************************************************)
LEMMA SockSend ==
  ASSUME NEW S, NEW T, NEW lines \in Seq(S), NEW cmds \in Seq(T), NEW st,
         NEW c \in T, c # "server_info", SockOK(lines, cmds, st)
  PROVE  SockOK(lines, Append(cmds, c), st)
BY DEF SockOK

LEMMA SockUpload ==
  ASSUME NEW S, NEW T, NEW lines \in Seq(S), NEW cmds \in Seq(T), NEW st,
         NEW r \in Uploads \cap S, SockOK(lines, cmds, st)
  PROVE  SockOK(Append(lines, r), cmds, st)
BY DEF SockOK, Uploads

LEMMA SockReply ==
  ASSUME NEW S, NEW T, NEW lines \in Seq(S), NEW cmds \in Seq(T), NEW st,
         NEW r \in S, cmds # <<>>, SockOK(lines, cmds, st),
         r = "sockinfo" <=> Head(cmds) = "server_info"
  PROVE  SockOK(Append(lines, r), Tail(cmds), st)
BY DEF SockOK

LEMMA SockRead ==
  ASSUME NEW S, NEW T, NEW lines \in Seq(S), NEW cmds \in Seq(T), NEW st,
         NEW st2, lines # <<>>, SockOK(lines, cmds, st),
         Head(lines) \in Uploads => st2 = st
  PROVE  SockOK(Tail(lines), cmds, st2)
BY DEF SockOK, Uploads
-----------------------------------------------------------------------------
(* What is known of the client and of the connection.                      *)
LEMMA Typed ==
  ASSUME Chain
  PROVE  /\ buffer \in Seq(Cli!Line) /\ replies \in Seq(Cli!Line)
         /\ Joined(buffer, replies) \in Seq(Cli!Line)
         /\ commands \in Seq(Lw!Command)
         /\ Cli!TypeOK /\ Cli!IndexSafe /\ Cli!NoConnectionNoState
<1>1. Cli!TypeOK /\ Cli!IndexSafe /\ Cli!NoConnectionNoState
  BY SameClient DEF Chain, CliP!Inv
<1>2. /\ buffer \in Seq(Cli!Line) /\ replies \in Seq(Cli!Line)
      /\ commands \in Seq(Lw!Command)
  BY <1>1 DEF Cli!TypeOK, Cli!Command, Lw!Command
<1>3. buffer \o replies \in Seq(Cli!Line)
  BY <1>2, ConcatProperties
<1> QED
  BY <1>1, <1>2, <1>3, Zenon DEF Joined

(* Every line of the two sequences is one of the joined one.               *)
LEMMA JoinedContains ==
  ASSUME NEW S, NEW b \in Seq(S), NEW r \in Seq(S)
  PROVE  LET w == Joined(b, r)
         IN  /\ \A i \in DOMAIN b : \E k \in 1..Len(w) : w[k] = b[i]
             /\ \A i \in DOMAIN r : \E k \in 1..Len(w) : w[k] = r[i]
<1> DEFINE w == b \o r
<1>1. /\ Len(b) \in Nat /\ Len(r) \in Nat /\ Len(w) = Len(b) + Len(r)
      /\ \A i \in 1..Len(b) : w[i] = b[i]
      /\ \A i \in 1..Len(r) : w[Len(b) + i] = r[i]
      /\ DOMAIN b = 1..Len(b) /\ DOMAIN r = 1..Len(r)
  BY ConcatProperties
<1> HIDE DEF w
<1>2. \A i \in DOMAIN b : i \in 1..Len(w) /\ w[i] = b[i]
  BY <1>1
<1>3. \A i \in DOMAIN r : Len(b) + i \in 1..Len(w) /\ w[Len(b) + i] = r[i]
  BY <1>1
<1> QED
  BY <1>2, <1>3, Zenon DEF Joined, w

(* Only gotConnected() sends the first command of the first script.        *)
LEMMA FirstCommand ==
  ASSUME NEW s \in Cli!ScriptName, NEW p \in BOOLEAN,
         NEW no \in 0..Cli!Length(s)-1,
         Cli!Cmd(s, p, no) = "server_info"
  PROVE  s = "init" /\ no = 0
<1>1. CASE s = "init"
  BY <1>1 DEF Cli!Cmd, Cli!Script, Cli!InitScript, Cli!Length
<1>2. CASE s = "run"
  BY <1>2 DEF Cli!Cmd, Cli!Script, Cli!RunScript, Cli!Length
<1>3. CASE s = "stop"
  BY <1>3 DEF Cli!Cmd, Cli!Script, Cli!StopScript, Cli!Length
<1> QED
  BY <1>1, <1>2, <1>3 DEF Cli!ScriptName

LEMMA SockNothing == \A st : SockOK(Joined(<<>>, <<>>), <<>>, st)
<1>1. Joined(<<>>, <<>>) = <<>>
  BY DEF Joined
<1> QED
  BY <1>1 DEF SockOK

(* A command that is written.                                              *)
LEMMA WriteKeeps ==
  ASSUME Chain, SockFirst, NEW c \in Lw!Command, c # "server_info",
         Cli!Write(c)
  PROVE  /\ SockOK(Joined(buffer, replies), commands', lwdaqState)
         /\ socket = "down" => commands' = <<>>
<1>1. CASE socket = "down"
  BY <1>1 DEF SockFirst, Cli!Write
<1>2. CASE socket # "down"
  <2>1. commands' = Append(commands, c)
    BY <1>2 DEF Cli!Write
  <2> QED
    BY <1>2, <2>1, Typed, SockSend DEF SockFirst
<1> QED
  BY <1>1, <1>2

LEMMA StartKeeps ==
  ASSUME Chain, SockFirst, Cli!StartRun PROVE SockFirst'
<1>1. Cli!Write("run_params") /\ script' = "run"
  BY DEF Cli!StartRun, Cli!StartScript, Cli!NewScript
<1>2. UNCHANGED <<buffer, replies, lwdaqState, socket>>
  BY DEF Cli!StartRun
<1>3. /\ SockOK(Joined(buffer, replies), commands', lwdaqState)
      /\ socket = "down" => commands' = <<>>
  BY <1>1, WriteKeeps DEF Lw!Command
<1> QED
  BY <1>1, <1>2, <1>3 DEF SockFirst

LEMMA StopKeeps ==
  ASSUME Chain, SockFirst, Cli!StopRun PROVE SockFirst'
<1>1. CASE lwdaqState = "RUN"
  <2>1. /\ Cli!Write("stop")
        /\ UNCHANGED <<buffer, replies, lwdaqState, socket>>
        /\ lwdaqState # "CONNECTING"
    BY <1>1 DEF Cli!StopRun, Cli!SendStop, Cli!StartScript
  <2>2. socket = "up"
    BY <2>1, Typed DEF Cli!NoConnectionNoState, Cli!TypeOK
  <2>3. SockOK(Joined(buffer, replies), commands', lwdaqState)
    BY <2>1, WriteKeeps DEF Lw!Command
  <2> QED
    BY <2>1, <2>2, <2>3 DEF SockFirst
<1>2. CASE lwdaqState # "RUN"
  BY <1>2 DEF Cli!StopRun, Cli!vars, Cli!clientVars, SockFirst
<1> QED
  BY <1>1, <1>2

(* The connection is given up.                                             *)
LEMMA DiscardKeeps ==
  ASSUME Chain, SockFirst, Cli!Discard, script' = "init" \/ socket' = "down"
  PROVE  SockFirst'
<1>1. buffer' = <<>> /\ replies' = <<>> /\ commands' = <<>>
  BY DEF Cli!Discard
<1>2. socket' # "up" \/ script' = "init"
  OBVIOUS
<1> QED
  BY <1>1, <1>2, SockNothing DEF SockFirst

LEMMA ConnectedKeeps ==
  ASSUME Chain, SockFirst, GotConnected PROVE SockFirst'
<1>1. /\ socket = "connecting" /\ socket' = "up"
      /\ commands' = Append(commands, Cli!Cmd(script, patched, cmdNo))
      /\ UNCHANGED <<lwdaqState, script, buffer, replies>>
  BY DEF GotConnected, Cli!GotConnected
<1>2. /\ script \in Cli!ScriptName /\ patched \in BOOLEAN
      /\ cmdNo \in 0..Cli!Length(script) /\ cmdNo < Cli!Length(script)
  BY <1>1, Typed DEF Cli!TypeOK, Cli!IndexSafe
<1>3. cmdNo \in 0..Cli!Length(script)-1
  BY <1>2 DEF Cli!Length, Cli!ScriptName
<1>4. Cli!Cmd(script, patched, cmdNo) \in Lw!Command
  BY <1>2, <1>3, NextCommand
<1>5. lwdaqState = "CONNECTING" /\ buffer = <<>> /\ replies = <<>>
  BY <1>1, Typed DEF Cli!NoConnectionNoState
<1>6. SockOK(Joined(buffer, replies), commands', lwdaqState)
  <2>1. CASE Cli!Cmd(script, patched, cmdNo) = "server_info"
    <3>1. commands = <<>>
      BY <1>1, <1>2, <1>3, <2>1, FirstCommand DEF SockFirst
    <3>2. Joined(buffer, replies) = <<>> /\ commands' = <<"server_info">>
      BY <1>1, <1>5, <2>1, <3>1 DEF Joined
    <3> QED
      BY <1>5, <3>2 DEF SockOK
  <2>2. CASE Cli!Cmd(script, patched, cmdNo) # "server_info"
    BY <1>1, <1>4, <2>2, Typed, SockSend DEF SockFirst
  <2> QED
    BY <2>1, <2>2
<1> QED
  BY <1>1, <1>6 DEF SockFirst

(* A line that is read.  An uploaded one does not change the state.        *)
LEMMA ReadKeeps ==
  ASSUME Chain, SockFirst, NEW n \in 1..Len(replies), Cli!ReadyRead(n)
  PROVE  SockFirst'
<1> DEFINE unread == Joined(buffer, SubSeq(replies, 1, n))
           line == Head(unread)
<1>1. /\ socket = "up" /\ UNCHANGED <<script, socket>>
      /\ replies' = SubSeq(replies, n + 1, Len(replies))
      /\ buffer' = Tail(unread)
      /\ Cli!ReadStatus(line)
  BY DEF Cli!ReadyRead, Cli!ReadStatus, Joined
<1>2. /\ Joined(buffer', replies') = Tail(Joined(buffer, replies))
      /\ line = Head(Joined(buffer, replies))
      /\ Joined(buffer, replies) # <<>>
  BY <1>1, Typed, ReadStream
<1> HIDE DEF line
<1>3. /\ line \in Uploads => lwdaqState' = lwdaqState
      /\ lwdaqState' = "CONNECTING" => lwdaqState = "CONNECTING"
  BY <1>1 DEF Cli!ReadStatus, Cli!StateOf, Cli!IsError, Uploads
<1>4. SockOK(Joined(buffer, replies), commands', lwdaqState)
  <2>1. CASE Cli!Write("status")
    BY <2>1, WriteKeeps DEF Lw!Command
  <2>2. CASE UNCHANGED commands
    BY <2>2 DEF SockFirst
  <2>3. CASE /\ cmdNo < Cli!Length(script)
             /\ Cli!Write(Cli!Cmd(script, patched', cmdNo))
    <3>1. script \in Cli!ScriptName /\ patched' \in BOOLEAN
      BY <1>1, Typed DEF Cli!TypeOK, Cli!ReadStatus
    <3>2. cmdNo \in 1..Cli!Length(script) /\ Cli!Length(script) \in Nat
      BY <1>1, <3>1, Typed DEF Cli!IndexSafe, Cli!Length, Cli!ScriptName
    <3>3. cmdNo \in 0..Cli!Length(script)-1 /\ cmdNo # 0
      BY <2>3, <3>2
    <3>4. /\ Cli!Cmd(script, patched', cmdNo) \in Lw!Command
          /\ Cli!Cmd(script, patched', cmdNo) # "server_info"
      BY <3>1, <3>3, NextCommand, FirstCommand
    <3> QED
      BY <2>3, <3>4, WriteKeeps
  <2> QED
    BY <1>1, <2>1, <2>2, <2>3 DEF Cli!ReadStatus
<1>5. commands' \in Seq(Lw!Command)
  <2>1. Lw!MaySend
    BY <1>1, ReadSends
  <2>2. commands \in Seq(Lw!Command)
    BY Typed
  <2> QED
    BY <2>1, <2>2 DEF Lw!MaySend
<1>6. SockOK(Joined(buffer', replies'), commands', lwdaqState')
  BY <1>2, <1>3, <1>4, <1>5, Typed, SockRead
<1> QED
  BY <1>1, <1>3, <1>6 DEF SockFirst

(* A command that is interpreted.                                          *)
LEMMA CommandKeeps ==
  ASSUME Chain, SockFirst, LwdaqCommand PROVE SockFirst'
<1>1. /\ socket = "up" /\ commands # <<>> /\ commands' = Tail(commands)
      /\ UNCHANGED <<buffer, lwdaqState, socket, script>>
  BY DEF LwdaqCommand, client, Lw!SystemServer, Lw!ServerInfo,
     Lw!SetServerInfo, Lw!SetUploadTarget, Lw!SetUploadStepResult,
     Lw!RunTool, Lw!RunParams, Lw!RunSettings, Lw!LoadScript,
     Lw!CommandRepeatRun, Lw!CommandStop, Lw!Status, Lw!Interpret
<1>2. PICK r \in Cli!Line :
             /\ replies' = Append(replies, r)
             /\ r = "sockinfo" <=> Head(commands) = "server_info"
  <2>1. control \in Lw!Control
    BY DEF Chain, LwP!Inv, LwP!TypeOK, LwP!Control, Lw!Control
  <2> QED
    <3>1. CASE Lw!ServerInfo
      BY <3>1 DEF Lw!ServerInfo, Lw!Interpret, Cli!Line
    <3>2. CASE Lw!Status
      BY <2>1, <3>2 DEF Lw!Status, Lw!Interpret, Lw!Control, Cli!Line
    <3>3. CASE \/ Lw!SetServerInfo \/ Lw!SetUploadTarget
               \/ Lw!SetUploadStepResult \/ Lw!RunTool
      BY <3>3 DEF Lw!SetServerInfo, Lw!SetUploadTarget,
         Lw!SetUploadStepResult, Lw!RunTool, Lw!Interpret, Cli!Line
    <3>4. CASE Lw!RunParams \/ Lw!RunSettings
      BY <3>4 DEF Lw!RunParams, Lw!RunSettings, Lw!Interpret, Cli!Line
    <3>5. CASE Lw!LoadScript
      BY <3>5 DEF Lw!LoadScript, Lw!Interpret, Cli!Line
    <3>6. CASE Lw!CommandRepeatRun \/ Lw!CommandStop
      BY <3>6 DEF Lw!CommandRepeatRun, Lw!CommandStop, Lw!Interpret, Cli!Line
    <3> QED
      BY <3>1, <3>2, <3>3, <3>4, <3>5, <3>6
         DEF LwdaqCommand, Lw!SystemServer
<1>3. Joined(buffer', replies') = Append(Joined(buffer, replies), r)
  <2>1. /\ buffer \in Seq(Cli!Line) /\ replies \in Seq(Cli!Line)
        /\ r \in Cli!Line
    BY <1>2, Typed
  <2>2. Joined(buffer, Append(replies, r)) = Append(Joined(buffer, replies), r)
    BY <2>1, JoinedAppend
  <2> QED
    BY <1>1, <1>2, <2>2, Zenon
<1>4. SockOK(Joined(buffer', replies'), commands', lwdaqState)
  BY <1>1, <1>2, <1>3, Typed, SockReply DEF SockFirst
<1> QED
  BY <1>1, <1>4 DEF SockFirst

(* A step of the Acquisifier, which may upload its result.                 *)
LEMMA StepKeeps ==
  ASSUME Chain, SockFirst, LwdaqStep PROVE SockFirst'
<1>1. UNCHANGED <<buffer, commands, lwdaqState, socket, script>>
  BY DEF LwdaqStep, client, Lw!QueueStep, Lw!StepEnd
<1>2. CASE replies' = replies
  BY <1>1, <1>2 DEF SockFirst
<1>3. CASE replies' # replies
  <2>1. PICK r \in Uploads : replies' = Append(replies, r)
    BY <1>3 DEF LwdaqStep, Lw!QueueStep, Lw!StepEnd, Lw!Upload, Uploads
  <2>2. r \in Cli!Line
    BY <2>1 DEF Uploads, Cli!Line
  <2>3. Joined(buffer', replies') = Append(Joined(buffer, replies), r)
    BY <1>1, <2>1, <2>2, Typed, JoinedAppend
  <2>4. SockOK(Joined(buffer', replies'), commands, lwdaqState)
    BY <2>1, <2>2, <2>3, Typed, SockUpload DEF SockFirst
  <2> QED
    BY <1>1, <2>4 DEF SockFirst
<1> QED
  BY <1>2, <1>3

LEMMA SockInit == Init => SockFirst
  BY SockNothing DEF Init, Cli!Init, SockFirst

LEMMA SockNext == Chain /\ SockFirst /\ [Next]_vars => SockFirst'
<1> SUFFICES ASSUME Chain, SockFirst, [Next]_vars PROVE SockFirst'
  OBVIOUS
<1> DEFINE Same == UNCHANGED <<client, connection>>
<1>1. Same => SockFirst'
  BY DEF client, connection, SockFirst
<1>2. CASE CallHandled
  BY <1>1, <1>2, StartKeeps, StopKeeps
     DEF CallHandled, Start, Stop, StartRunIfRemoved
<1>3. CASE WaitingTimeout
  BY <1>1, <1>3, StartKeeps DEF WaitingTimeout, StartRunIfRemoved
<1>4. CASE RunTimeout
  <2>1. CASE Cli!StopRun
    BY <2>1, StopKeeps
  <2>2. CASE UNCHANGED <<buffer, replies, commands, lwdaqState, socket,
                         script>>
    BY <2>2 DEF SockFirst
  <2> QED
    BY <1>4, <2>1, <2>2 DEF RunTimeout, Cli!RunTimeout
<1>5. CASE StatusTimeout
  <2>1. UNCHANGED <<buffer, replies, lwdaqState, socket, script>>
    BY <1>5 DEF StatusTimeout, Cli!StatusTimeout
  <2>2. socket = "up"
    BY <1>5, Typed DEF StatusTimeout, Cli!StatusTimeout, Cli!TypeOK,
                       Cli!NoConnectionNoState
  <2>3. SockOK(Joined(buffer, replies), commands', lwdaqState)
    <3>1. CASE Cli!Write("status")
      BY <3>1, WriteKeeps DEF Lw!Command
    <3>2. CASE UNCHANGED commands
      BY <3>2 DEF SockFirst
    <3> QED
      BY <1>5, <3>1, <3>2 DEF StatusTimeout, Cli!StatusTimeout
  <2> QED
    BY <2>1, <2>2, <2>3 DEF SockFirst
<1>6. CASE ConnectTimeout \/ ConnectFails \/ ConnectionLost \/ LwdaqRestart
           \/ ServerRestart
  BY <1>6, DiscardKeeps
     DEF ConnectTimeout, Cli!ConnectTimeout, ConnectFails,
         Cli!ConnectionRefused, Cli!ConnectionFailed, ConnectionLost,
         LwdaqRestart, Cli!GotDisconnected, ServerRestart, Cli!Restart,
         Cli!InitCommands, Cli!NewScript
<1>7. CASE ReadyRead
  BY <1>7, ReadKeeps DEF ReadyRead, Cli!Receive
<1>8. CASE ReadyReadThrows \/ ServerCrash \/ Press \/ UNCHANGED vars
  BY <1>1, <1>8 DEF ReadyReadThrows, ServerCrash, Press, vars
<1> QED
  BY <1>2, <1>3, <1>4, <1>5, <1>6, <1>7, <1>8, ConnectedKeeps, CommandKeeps,
     StepKeeps DEF Next, Step, Fault

-----------------------------------------------------------------------------
(***************************************************************************)
(* The reply to LWDAQ_server_info, which overwrites entries 1 and 2 of     *)
(* whatever script is current, never meets the stop script, which has no   *)
(* entry 2.                                                                *)
(***************************************************************************)
THEOREM SocketNameFits == Spec => []SocketNameInRange
<1>1. Chain /\ SockFirst => SocketNameInRange
  <2> SUFFICES ASSUME Chain, SockFirst,
                      Outstanding("server_info", "sockinfo")
               PROVE  lwdaqState = "CONNECTING" /\ script # "stop"
    BY DEF SocketNameInRange
  <2>1. lwdaqState = "CONNECTING"
    <3> DEFINE lines == Joined(buffer, replies)
    <3>1. CASE \E i \in DOMAIN commands : commands[i] = "server_info"
      BY <3>1, Typed DEF SockFirst, SockOK
    <3>2. CASE \/ \E i \in DOMAIN replies : replies[i] = "sockinfo"
               \/ \E i \in DOMAIN buffer : buffer[i] = "sockinfo"
      <4>1. /\ buffer \in Seq(Cli!Line) /\ replies \in Seq(Cli!Line)
        BY Typed
      <4>2. /\ \A i \in DOMAIN buffer :
                 \E k \in 1..Len(lines) : lines[k] = buffer[i]
            /\ \A i \in DOMAIN replies :
                 \E k \in 1..Len(lines) : lines[k] = replies[i]
        BY <4>1, JoinedContains
      <4>3. \E k \in 1..Len(lines) : lines[k] = "sockinfo"
        BY <3>2, <4>2, Zenon
      <4> QED
        BY <4>3 DEF SockFirst, SockOK
    <3> QED
      BY <3>1, <3>2 DEF Outstanding
  <2>2. socket # "down"
    BY Typed DEF Outstanding, SockFirst, Cli!NoConnectionNoState
  <2> QED
    BY <2>1, <2>2, Typed DEF SockFirst, Cli!TypeOK
<1> QED
  BY <1>1, ChainHolds, SockInit, SockNext, PTL DEF Spec
=============================================================================
