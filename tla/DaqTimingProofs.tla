-------------------------- MODULE DaqTimingProofs --------------------------
(***************************************************************************)
(* What holds of the measurement chain when LWDAQ answers before the next  *)
(* timer expires or button is pressed (Prompt), and, where it is needed,   *)
(* buttons are pressed in the state the server has (Fresh): results are    *)
(* calculated from complete files, no run starts on top of another, none   *)
(* is measured during a waiting period, and a stopped run is watched until *)
(* it has ended.                                                           *)
(*                                                                         *)
(* At any time at most one command or one reply is then under way between  *)
(* adepo-server and LWDAQ (OneAtATime), and what it can be follows from    *)
(* the script and its index (Talk).                                        *)
(***************************************************************************)
EXTENDS MCDaqSystem, DaqSystemProofs

(* What is under way on the connection.                                    *)
Sent(c) == commands = <<c>>
Told(r) == replies = <<r>>
Nothing == commands = <<>> /\ replies = <<>>

(* A call that is not yet handled.                                         *)
Pending(op) == \E i \in 1..Len(calls) : calls[i].op = op

CallsFit ==
  /\ \A i \in 1..Len(calls) : calls[i].op = "start" => i = Len(calls)
  /\ \A i \in 1..Len(calls) : calls[i].op = "stop" => i = 1
  /\ Pending("start") => ~Pending("stop")
  /\ Pending("start") \/ Pending("stop") => Nothing
  /\ calls # <<>> => alive /\ socket # "connecting"

OneAtATime ==
  /\ buffer = <<>>
  /\ \/ Nothing
     \/ replies = <<>> /\ \E c \in Lw!Command : Sent(c)
     \/ commands = <<>> /\ \E r \in Cli!Line : Told(r)
  /\ socket # "up" => Nothing
  /\ CallsFit

-----------------------------------------------------------------------------
(* Sequences of one element.                                               *)
LEMMA Single ==
  ASSUME NEW x
  PROVE  /\ <<x>> # <<>> /\ Len(<<x>>) = 1
         /\ Head(<<x>>) = x /\ Tail(<<x>>) = <<>> /\ Append(<<>>, x) = <<x>>
         /\ SubSeq(<<x>>, 1, 1) = <<x>> /\ SubSeq(<<x>>, 2, 1) = <<>>
         /\ <<>> \o <<x>> = <<x>>
<1>1. <<x>> \in Seq({x})
  OBVIOUS
<1>2. SubSeq(<<x>>, 1, 1) = <<x>>
  BY <1>1, SubSeqFull, Zenon
<1> QED
  BY <1>2

(* The facts about the parts that the steps below rest on.                 *)
LEMMA Parts ==
  ASSUME Chain
  PROVE  /\ Cli!TypeOK /\ Cli!IndexSafe /\ Cli!NoConnectionNoState
         /\ Cli!Reconnects /\ Srv!TypeOK /\ CallOK
         /\ target => socket = "up"
BY SameClient DEF Chain, CliP!Inv

-----------------------------------------------------------------------------
(***************************************************************************)
(* What the steps do to the connection.                                    *)
(***************************************************************************)
(* Something is written when nothing is under way.                         *)
LEMMA WriteOne ==
  ASSUME Nothing, NEW c \in Lw!Command, Cli!Write(c)
  PROVE  IF socket = "down" THEN commands' = <<>> ELSE Sent(c)'
BY Single DEF Nothing, Cli!Write, Sent

(* One line is read, and at most one command written.                      *)
LEMMA ReadOne ==
  ASSUME Chain, OneAtATime, ReadyRead
  PROVE  \E r \in Cli!Line :
           /\ Told(r) /\ commands = <<>> /\ socket = "up"
           /\ buffer' = <<>> /\ replies' = <<>>
           /\ Cli!ReadStatus(r)
<1>1. PICK n \in 1..Len(replies) : Cli!ReadyRead(n)
  BY DEF ReadyRead, Cli!Receive
<1>2. PICK r \in Cli!Line : Told(r) /\ commands = <<>> /\ buffer = <<>>
  BY <1>1, Single DEF OneAtATime, Nothing
<1>3. n = 1
  BY <1>1, <1>2, Single DEF Told
<1>4. /\ socket = "up" /\ replies' = SubSeq(<<r>>, 2, 1)
      /\ buffer' = Tail(<<>> \o SubSeq(<<r>>, 1, 1))
      /\ Cli!ReadStatus(Head(<<>> \o SubSeq(<<r>>, 1, 1)))
  BY <1>1, <1>2, <1>3, Single DEF Cli!ReadyRead, Told
<1> QED
  BY <1>2, <1>4, Single

LEMMA ReadWrites ==
  ASSUME Chain, commands = <<>>, socket = "up", NEW r \in Cli!Line,
         Cli!ReadStatus(r)
  PROVE  commands' = <<>> \/ \E c \in Lw!Command : Sent(c)'
<1>1. CASE Cli!Write("status")
  BY <1>1, Single DEF Cli!Write, Sent, Lw!Command
<1>2. CASE UNCHANGED commands
  BY <1>2
<1>3. CASE /\ cmdNo < Cli!Length(script)
           /\ Cli!Write(Cli!Cmd(script, patched', cmdNo))
  <2>1. script \in Cli!ScriptName /\ patched' \in BOOLEAN
    BY Parts DEF Cli!TypeOK, Cli!ReadStatus
  <2>2. Cli!Length(script) \in Nat
    BY <2>1 DEF Cli!Length, Cli!ScriptName
  <2>3. cmdNo \in 0..Cli!Length(script)-1
    BY <1>3, <2>2, Parts DEF Cli!TypeOK
  <2>4. Cli!Cmd(script, patched', cmdNo) \in Lw!Command
    BY <2>1, <2>3, NextCommand
  <2> QED
    BY <1>3, <2>4, Single DEF Cli!Write, Sent
<1> QED
  BY <1>1, <1>2, <1>3 DEF Cli!ReadStatus

(* One command is interpreted, and one reply written.                      *)
LEMMA CommandOne ==
  ASSUME Chain, OneAtATime, LwdaqCommand
  PROVE  \E c \in Lw!Command : \E r \in Cli!Line :
           /\ Sent(c) /\ replies = <<>> /\ socket = "up"
           /\ commands' = <<>> /\ Told(r)'
           /\ Lw!Interpret(c, r) /\ Lw!SystemServer
<1> USE DEF Cli!Line
<1>1. socket = "up" /\ Lw!SystemServer /\ commands # <<>>
  BY DEF LwdaqCommand, Lw!SystemServer, Lw!ServerInfo,
     Lw!SetServerInfo, Lw!SetUploadTarget, Lw!SetUploadStepResult,
     Lw!RunTool, Lw!RunParams, Lw!RunSettings, Lw!LoadScript,
     Lw!CommandRepeatRun, Lw!CommandStop, Lw!Status, Lw!Interpret
<1>2. PICK c \in Lw!Command : Sent(c) /\ replies = <<>>
  BY <1>1 DEF OneAtATime, Nothing
<1>3. PICK r \in Cli!Line : \E d : Lw!Interpret(d, r)
  <2>1. CASE Lw!ServerInfo
    BY <2>1 DEF Lw!ServerInfo
  <2>2. CASE Lw!Status
    <3>1. control \in Lw!Control
      BY DEF Chain, LwP!Inv, LwP!TypeOK, LwP!Control, Lw!Control
    <3> QED
      BY <2>2, <3>1 DEF Lw!Status, Lw!Control
  <2>3. CASE \/ Lw!SetServerInfo \/ Lw!SetUploadTarget
             \/ Lw!SetUploadStepResult \/ Lw!RunTool
    BY <2>3 DEF Lw!SetServerInfo, Lw!SetUploadTarget,
       Lw!SetUploadStepResult, Lw!RunTool
  <2>4. CASE Lw!RunParams \/ Lw!RunSettings
    BY <2>4 DEF Lw!RunParams, Lw!RunSettings
  <2>5. CASE Lw!LoadScript
    BY <2>5 DEF Lw!LoadScript
  <2>6. CASE Lw!CommandRepeatRun \/ Lw!CommandStop
    BY <2>6 DEF Lw!CommandRepeatRun, Lw!CommandStop
  <2> QED
    BY <1>1, <2>1, <2>2, <2>3, <2>4, <2>5, <2>6 DEF Lw!SystemServer
<1>4. Lw!Interpret(c, r) /\ commands' = <<>> /\ Told(r)'
  BY <1>2, <1>3, Single DEF Lw!Interpret, Sent, Told
<1> QED
  BY <1>1, <1>2, <1>4

(* A step that ends when nothing is under way may upload its result.       *)
LEMMA StepOne ==
  ASSUME Prompt, LwdaqStep
  PROVE  /\ UNCHANGED <<calls, server, client, commands>>
         /\ \/ Lw!QueueStep /\ UNCHANGED <<replies, resultFile>>
            \/ \E ok \in BOOLEAN :
                 /\ Lw!StepEnd(ok)
                 /\ Nothing /\ calls = <<>> /\ socket # "connecting"
                 /\ \/ UNCHANGED replies
                    \/ \E r \in Uploads :
                         upload /\ target /\ Told(r)'
<1>1. UNCHANGED <<calls, server, client, commands>>
  BY DEF LwdaqStep, Lw!QueueStep, Lw!StepEnd
<1>2. CASE Lw!QueueStep
  BY <1>1, <1>2 DEF Lw!QueueStep
<1>3. ASSUME InTime, NEW ok \in BOOLEAN, Lw!StepEnd(ok)
      PROVE  /\ Nothing /\ calls = <<>> /\ socket # "connecting"
             /\ \/ UNCHANGED replies
                \/ \E r \in Uploads : upload /\ target /\ Told(r)'
  <2>1. Nothing /\ calls = <<>> /\ socket # "connecting"
    BY <1>3 DEF InTime, Quiet, Nothing
  <2>2. CASE upload /\ target
    <3>1. PICK r \in Uploads : replies' = Append(replies, r)
      BY <1>3, <2>2 DEF Lw!StepEnd, Lw!Upload, Uploads
    <3>2. Told(r)'
      BY <2>1, <3>1, Single DEF Nothing, Told
    <3> QED
      BY <2>1, <2>2, <3>2
  <2>3. CASE ~(upload /\ target)
    BY <1>3, <2>1, <2>3 DEF Lw!StepEnd, Lw!Upload
  <2> QED
    BY <2>2, <2>3
<1> QED
  BY <1>1, <1>2, <1>3, FlagsAssumption DEF LwdaqStep

(* A call that is handled is the first one.                                *)
LEMMA CallsOne ==
  ASSUME Chain, CallsFit, calls # <<>>, calls' = Tail(calls)
  PROVE  /\ Head(calls) = calls[1] /\ Len(calls) >= 1
         /\ \A i \in 1..Len(calls') : calls'[i] = calls[i+1]
         /\ \A op : Pending(op)' => Pending(op)
         /\ Head(calls).op = "start" => Pending("start") /\ calls' = <<>>
         /\ Head(calls).op = "stop" =>
              Pending("stop") /\ ~Pending("start")' /\ ~Pending("stop")'
         /\ \A i \in 1..Len(calls') : calls'[i].op = "start" => i = Len(calls')
         /\ \A i \in 1..Len(calls') : calls'[i].op = "stop" => i = 1
<1>1. /\ Len(calls) \in Nat /\ Len(calls) >= 1
      /\ Len(calls') = Len(calls) - 1 /\ Head(calls) = calls[1]
      /\ \A i \in 1..Len(calls') : calls'[i] = calls[i+1]
  BY DEF Chain, CallOK
<1>2. \A i \in 1..Len(calls') : i + 1 \in 1..Len(calls) /\ i + 1 # 1
  BY <1>1
<1>3. \A op : Pending(op)' => Pending(op)
  BY <1>1, <1>2, Zenon DEF Pending
<1>4. Head(calls).op = "start" => Pending("start") /\ calls' = <<>>
  <2>1. 1 \in 1..Len(calls)
    BY <1>1
  <2>2. ASSUME Head(calls).op = "start" PROVE Len(calls) = 1
    BY <1>1, <2>1, <2>2 DEF CallsFit
  <2>3. Len(calls) = 1 => calls' = <<>>
    BY <1>1 DEF Chain, CallOK
  <2> QED
    BY <1>1, <2>1, <2>2, <2>3 DEF Pending
<1>5. ASSUME NEW i \in 1..Len(calls'), calls'[i].op = "stop" PROVE FALSE
  BY <1>1, <1>2, <1>5 DEF CallsFit
<1>6. Head(calls).op = "stop" =>
        Pending("stop") /\ ~Pending("start")' /\ ~Pending("stop")'
  <2>1. 1 \in 1..Len(calls)
    BY <1>1
  <2>2. Head(calls).op = "stop" => Pending("stop")
    BY <1>1, <2>1 DEF Pending
  <2>3. ~Pending("stop")'
    BY <1>5 DEF Pending
  <2> QED
    BY <1>3, <2>2, <2>3 DEF CallsFit
<1>7. ASSUME NEW i \in 1..Len(calls'), calls'[i].op = "start"
      PROVE  i = Len(calls')
  <2>1. PICK k \in 1..Len(calls) : k = i + 1 /\ calls[k].op = "start"
    BY <1>1, <1>2, <1>7
  <2>2. k = Len(calls)
    BY <2>1 DEF CallsFit
  <2>3. i \in Int /\ Len(calls') = Len(calls) - 1 /\ Len(calls) \in Nat
    BY <1>1
  <2> QED
    BY <2>1, <2>2, <2>3
<1> QED
  BY <1>1, <1>3, <1>4, <1>5, <1>6, <1>7

-----------------------------------------------------------------------------
(***************************************************************************)
(* At most one command or reply is under way, whatever is pressed, fails   *)
(* or is restarted.                                                        *)
(***************************************************************************)
(* The part about calls only asks that nothing is under way.               *)
LEMMA CallsStay ==
  ASSUME CallsFit, UNCHANGED calls, Nothing => Nothing',
         calls # <<>> => alive' /\ socket' # "connecting"
  PROVE  CallsFit'
BY DEF CallsFit, Pending

LEMMA CallsNone ==
  ASSUME calls' = <<>> PROVE CallsFit'
BY DEF CallsFit, Pending

LEMMA OneCalls ==
  ASSUME Chain, OneAtATime, CallHandled PROVE OneAtATime'
<1>1. /\ calls # <<>> /\ calls' = Tail(calls) /\ alive /\ CallsFit
      /\ socket # "connecting"
  BY DEF CallHandled, OneAtATime, CallsFit
<1>2. CASE UNCHANGED <<client, connection>> /\ alive'
  <2>1. CallsFit'
    BY <1>1, <1>2, CallsOne DEF client, connection, CallsFit, Nothing
  <2> QED
    BY <1>2, <2>1 DEF client, connection, OneAtATime, Nothing, Sent, Told
<1>3. ASSUME Nothing, NEW c \in Lw!Command, Cli!Write(c), alive',
             UNCHANGED <<buffer, replies, socket>>,
             ~Pending("start")', ~Pending("stop")'
      PROVE  OneAtATime'
  <2>1. CallsFit'
    BY <1>1, <1>3, CallsOne DEF CallsFit
  <2>2. IF socket = "down" THEN commands' = <<>> ELSE Sent(c)'
    BY <1>3, WriteOne
  <2>3. socket = "down" \/ socket = "up"
    BY <1>1, Parts DEF Cli!TypeOK
  <2> QED
    BY <1>3, <2>1, <2>2, <2>3 DEF OneAtATime, Nothing
<1>4. CASE Start /\ Head(calls).op = "start"
  <2>1. alive' = alive
    BY <1>4 DEF Start, Srv!StartDAQ
  <2>2. Nothing /\ ~Pending("start")' /\ ~Pending("stop")'
    BY <1>1, <1>4, CallsOne DEF CallsFit, Pending
  <2>3. CASE Cli!StartRun
    <3>1. /\ Cli!Write("run_params") /\ "run_params" \in Lw!Command
          /\ UNCHANGED <<buffer, replies, socket>>
      BY <2>3 DEF Cli!StartRun, Cli!StartScript, Lw!Command
    <3> QED
      BY <1>1, <1>3, <2>1, <2>2, <3>1
  <2> QED
    BY <1>1, <1>2, <1>4, <2>1, <2>3 DEF Start, StartRunIfRemoved
<1>5. CASE Stop /\ Head(calls).op = "stop"
  <2>1. alive' = alive
    BY <1>5 DEF Stop, Srv!StopDAQ
  <2>2. Nothing /\ ~Pending("start")' /\ ~Pending("stop")'
    BY <1>1, <1>5, CallsOne DEF CallsFit
  <2>3. CASE Cli!SendStop
    <3>1. /\ Cli!Write("stop") /\ "stop" \in Lw!Command
          /\ UNCHANGED <<buffer, replies, socket>>
      BY <2>3 DEF Cli!SendStop, Cli!StartScript, Lw!Command
    <3> QED
      BY <1>1, <1>3, <2>1, <2>2, <3>1
  <2>4. CASE UNCHANGED Cli!vars
    BY <1>1, <1>2, <2>1, <2>4 DEF Cli!vars, Cli!clientVars, Cli!timerVars,
       client, connection
  <2> QED
    BY <1>1, <1>2, <1>5, <2>1, <2>3, <2>4 DEF Stop, Cli!StopRun
<1>6. CASE \/ \E m, ds : Srv!UpdateRun(m, ds) /\ UNCHANGED <<client, connection>>
           \/ Srv!UpdateAll /\ UNCHANGED <<client, connection>>
  BY <1>1, <1>2, <1>6 DEF Srv!UpdateAll, Srv!UpdateRun
<1> QED
  BY <1>4, <1>5, <1>6 DEF CallHandled

LEMMA OneTimers ==
  ASSUME Prompt, Chain, OneAtATime,
         WaitingTimeout \/ RunTimeout \/ StatusTimeout
  PROVE  OneAtATime'
<1>1. /\ Nothing /\ calls = <<>> /\ calls' = <<>> /\ socket # "connecting"
      /\ buffer = <<>>
  BY DEF WaitingTimeout, RunTimeout, StatusTimeout, InTime, Quiet, Nothing,
         OneAtATime
<1>2. ASSUME NEW c \in Lw!Command, Cli!Write(c),
             UNCHANGED <<buffer, replies, socket>>
      PROVE  OneAtATime'
  <2>1. CallsFit' /\ buffer' = <<>> /\ replies' = <<>>
    BY <1>1, <1>2, CallsNone DEF Nothing
  <2>2. IF socket = "down" THEN commands' = <<>> ELSE Sent(c)'
    BY <1>1, <1>2, WriteOne
  <2>3. socket = "down" \/ socket = "up"
    BY <1>1, Parts DEF Cli!TypeOK
  <2> QED
    BY <1>2, <2>1, <2>2, <2>3 DEF OneAtATime, Nothing
<1>3. UNCHANGED <<buffer, replies, socket, commands>> => OneAtATime'
  BY <1>1, CallsNone DEF OneAtATime, Nothing
<1>4. Cli!StopRun => OneAtATime'
  BY <1>2, <1>3 DEF Cli!StopRun, Cli!SendStop, Cli!StartScript, Cli!vars,
     Cli!clientVars, Lw!Command
<1>5. CASE WaitingTimeout
  BY <1>2, <1>3, <1>5 DEF WaitingTimeout, StartRunIfRemoved, Cli!StartRun,
     Cli!StartScript, Lw!Command, client, connection
<1>6. CASE RunTimeout
  BY <1>3, <1>4, <1>6 DEF RunTimeout, Cli!RunTimeout
<1>7. CASE StatusTimeout
  BY <1>2, <1>3, <1>7 DEF StatusTimeout, Cli!StatusTimeout, Lw!Command
<1> QED
  BY <1>5, <1>6, <1>7

LEMMA OneRead ==
  ASSUME Chain, OneAtATime, ReadyRead PROVE OneAtATime'
<1>1. PICK r \in Cli!Line :
             /\ Told(r) /\ commands = <<>> /\ socket = "up"
             /\ buffer' = <<>> /\ replies' = <<>>
             /\ Cli!ReadStatus(r)
  BY ReadOne
<1>2. commands' = <<>> \/ \E c \in Lw!Command : Sent(c)'
  BY <1>1, ReadWrites
<1>3. UNCHANGED <<calls, alive, socket>>
  BY <1>1 DEF ReadyRead, Signal, server, Srv!LwdaqStateChanged,
              Cli!ReadStatus
<1>4. ~Nothing
  BY <1>1, Single DEF Told, Nothing
<1>5. CallsFit'
  BY <1>3, <1>4, CallsStay DEF OneAtATime, CallsFit
<1> QED
  BY <1>1, <1>2, <1>3, <1>5 DEF OneAtATime, Nothing

LEMMA OneLwdaq ==
  ASSUME Prompt, Chain, OneAtATime, LwdaqCommand \/ LwdaqStep
  PROVE  OneAtATime'
<1>1. UNCHANGED <<calls, alive, socket, buffer>>
  BY DEF LwdaqCommand, LwdaqStep, server, client
<1>2. CASE LwdaqCommand
  <2>1. PICK c \in Lw!Command, r \in Cli!Line :
               /\ Sent(c) /\ socket = "up"
               /\ commands' = <<>> /\ Told(r)'
    BY <1>2, CommandOne
  <2>2. ~Nothing
    BY <2>1, Single DEF Sent, Nothing
  <2>3. CallsFit'
    BY <1>1, <2>2, CallsStay DEF OneAtATime, CallsFit
  <2> QED
    BY <1>1, <2>1, <2>3 DEF OneAtATime
<1>3. CASE LwdaqStep
  <2>1. CASE UNCHANGED <<commands, replies>>
    <3>1. CallsFit'
      BY <1>1, <2>1, CallsStay DEF OneAtATime, CallsFit, Nothing
    <3> QED
      BY <1>1, <2>1, <3>1 DEF OneAtATime, Nothing, Sent, Told
  <2>2. ASSUME Nothing, calls = <<>>, target, NEW r \in Uploads, Told(r)',
               UNCHANGED commands
        PROVE  OneAtATime'
    <3>1. CallsFit' /\ socket = "up" /\ r \in Cli!Line
      BY <1>1, <2>2, CallsNone, Parts DEF Uploads, Cli!Line
    <3> QED
      BY <1>1, <2>2, <3>1 DEF OneAtATime, Nothing
  <2> QED
    BY <1>3, <2>1, <2>2, StepOne
<1> QED
  BY <1>2, <1>3

LEMMA OneConnected ==
  ASSUME Chain, OneAtATime, GotConnected PROVE OneAtATime'
<1>1. /\ socket = "connecting" /\ socket' = "up" /\ Nothing /\ calls = <<>>
      /\ commands' = Append(commands, Cli!Cmd(script, patched, cmdNo))
      /\ UNCHANGED <<calls, buffer, replies>>
  BY DEF GotConnected, Cli!GotConnected, OneAtATime, CallsFit
<1>2. script \in Cli!ScriptName /\ patched \in BOOLEAN
  BY Parts DEF Cli!TypeOK
<1>3. cmdNo \in 0..Cli!Length(script)-1
  BY <1>1, <1>2, Parts DEF Cli!TypeOK, Cli!IndexSafe, Cli!Length,
                           Cli!ScriptName
<1>4. PICK c \in Lw!Command : c = Cli!Cmd(script, patched, cmdNo)
  BY <1>2, <1>3, NextCommand
<1>5. Sent(c)'
  BY <1>1, <1>4, Single DEF Sent, Nothing
<1>6. CallsFit'
  BY <1>1, CallsNone
<1> QED
  BY <1>1, <1>5, <1>6 DEF OneAtATime, Nothing

LEMMA OneDropped ==
  ASSUME Chain, OneAtATime, Cli!Discard, socket' # "up",
         calls' = <<>> \/ (UNCHANGED calls /\ alive' /\ socket' = "down")
  PROVE  OneAtATime'
<1>1. buffer' = <<>> /\ Nothing'
  BY DEF Cli!Discard, Nothing
<1>2. CallsFit'
  BY <1>1, CallsNone, CallsStay DEF OneAtATime
<1> QED
  BY <1>1, <1>2 DEF OneAtATime

(* Two calls of one button.                                                *)
LEMMA OnePress ==
  ASSUME Prompt, Chain, OneAtATime, Press PROVE OneAtATime'
<1>1. /\ Nothing /\ alive /\ socket # "connecting"
      /\ UNCHANGED <<alive, client, connection>>
  BY DEF Press, InTime, Quiet, Nothing, server
<1>2. CallsFit'
  <2>1. CASE PressStart
    <3>1. PICK m \in Srv!Mode :
            calls' = <<Update(m, runFile.detectors), Simple("start")>>
      BY <2>1 DEF PressStart
    <3>2. /\ Len(calls') = 2 /\ calls'[1].op = "updateRun"
          /\ calls'[2].op = "start"
      BY <3>1 DEF Update, Simple
    <3> QED
      BY <1>1, <3>2 DEF CallsFit, Pending, client, connection, Nothing
  <2>2. CASE PressStop
    <3>1. /\ Len(calls') = 2 /\ calls'[1].op = "stop"
          /\ calls'[2].op = "updateRun"
      BY <2>2 DEF PressStop, Update, Simple
    <3> QED
      BY <1>1, <3>1 DEF CallsFit, Pending, client, connection, Nothing
  <2>3. CASE Select \/ Connect
    <3>1. Len(calls') = 1 /\ calls'[1].op \in {"updateRun", "updateAll"}
      BY <2>3 DEF Select, Connect, Update, Simple
    <3> QED
      BY <1>1, <3>1 DEF CallsFit, Pending, client, connection, Nothing
  <2> QED
    BY <2>1, <2>2, <2>3 DEF Press
<1> QED
  BY <1>1, <1>2 DEF OneAtATime, client, connection, Nothing, Sent, Told

LEMMA OneInit == Init => OneAtATime
BY CallsNone DEF Init, Cli!Init, OneAtATime, Nothing, CallsFit, Pending

LEMMA OneNext ==
  ASSUME Prompt, Chain, OneAtATime, [Next]_vars PROVE OneAtATime'
<1>1. CASE ConnectTimeout
  <2>1. calls' = <<>>
    BY <1>1 DEF ConnectTimeout, InTime, Quiet
  <2>2. Cli!Discard /\ socket' # "up"
    BY <1>1 DEF ConnectTimeout, Cli!ConnectTimeout
  <2> QED
    BY <2>1, <2>2, OneDropped
<1>2. CASE ConnectFails \/ ConnectionLost \/ LwdaqRestart
  <2>1. Cli!Discard /\ socket' = "down" /\ UNCHANGED calls /\ alive
    BY <1>2 DEF ConnectFails, Cli!ConnectionRefused, Cli!ConnectionFailed,
       ConnectionLost, LwdaqRestart, Cli!GotDisconnected
  <2>2. alive' = alive
    BY <1>2 DEF ConnectFails, ConnectionLost, LwdaqRestart, Signal, server,
       Srv!LwdaqStateChanged
  <2> QED
    BY <2>1, <2>2, OneDropped
<1>3. CASE ServerRestart
  <2>1. calls' = <<>>
    BY <1>3 DEF ServerRestart, Srv!Restart, OneAtATime, CallsFit
  <2>2. Cli!Discard /\ socket' # "up"
    BY <1>3 DEF ServerRestart, Cli!Restart
  <2> QED
    BY <2>1, <2>2, OneDropped
<1>4. CASE ReadyReadThrows \/ ServerCrash
  <2>1. calls' = <<>> /\ UNCHANGED <<client, connection>>
    BY <1>4 DEF ReadyReadThrows, ServerCrash
  <2> QED
    BY <2>1, CallsNone DEF OneAtATime, client, connection, Nothing, Sent, Told
<1>5. CASE UNCHANGED vars
  BY <1>5 DEF vars, server, client, connection, OneAtATime, CallsFit, Pending,
              Nothing, Sent, Told
<1> QED
  BY <1>1, <1>2, <1>3, <1>4, <1>5, OneCalls, OneTimers, OneRead, OneLwdaq,
     OneConnected, OnePress DEF Next, Step, Fault

-----------------------------------------------------------------------------
(***************************************************************************)
(* What is said on a connection.  It begins with the first five commands   *)
(* of the init list, each answered before the next; they are not sent      *)
(* again later, and when the tool has been run it stays.                   *)
(***************************************************************************)
FirstCommands == <<"server_info", "set_server_info", "set_upload_target",
                   "set_upload_step_result", "run_tool">>
FirstReplies == <<"sockinfo", "sock", "sock", "1", "1">>

Stage ==
  /\ patched <=> cmdNo > 1
  /\ \/ Sent(FirstCommands[cmdNo])
     \/ Told(FirstReplies[cmdNo]) /\ (cmdNo = 5 => tool)

Handshake == socket = "up" /\ script = "init" /\ cmdNo < 6

First(c) == \E k \in 1..5 : c = FirstCommands[k]

Talk ==
  /\ Handshake => Stage /\ lwdaqState = "CONNECTING"
  /\ socket = "connecting" => script = "init" /\ cmdNo = 0
  /\ socket = "connecting" \/ script # "init" => ~patched
  /\ socket = "up" /\ ~Handshake =>
       /\ tool
       /\ \A c : First(c) => ~Sent(c)
       /\ ~Told("sockinfo")
  /\ Told("Idle") => control = "Idle"
  /\ ~Gui /\ socket = "up" /\ upload /\ target =>
       Handshake /\ ~(cmdNo = 5 /\ Told("1"))

TalkVars == <<socket, script, cmdNo, patched, commands, replies, lwdaqState,
              tool, control, upload, target>>

LEMMA TalkSame == ASSUME Talk, UNCHANGED TalkVars PROVE Talk'
BY DEF Talk, TalkVars, Handshake, Stage, Sent, Told

(* When nothing is under way the handshake is over.                        *)
LEMMA HandshakeOver ==
  ASSUME Talk, Nothing, socket = "up"
  PROVE  ~Handshake /\ tool /\ (~Gui => ~(upload /\ target))
BY Single DEF Talk, Stage, Nothing, Sent, Told

(* A run, a stop or a poll that begins when nothing is under way.          *)
LEMMA TalkWrite ==
  ASSUME Chain, OneAtATime, Talk, Nothing, socket # "connecting",
         NEW c \in Lw!Command, ~First(c), Cli!Write(c),
         \/ script' # "init" /\ ~patched'
         \/ UNCHANGED <<script, patched, cmdNo>>,
         UNCHANGED <<socket, replies, lwdaqState, tool, control, upload,
                     target>>
  PROVE  Talk'
<1>1. IF socket = "down" THEN commands' = <<>> ELSE Sent(c)'
  BY WriteOne
<1>2. socket \in {"down", "up"}
  BY Parts DEF Cli!TypeOK
<1>3. \A r : ~Told(r)'
  BY Single DEF Nothing, Told
<1>4. CASE socket = "up"
  <2>1. ~Handshake /\ tool /\ (~Gui => ~(upload /\ target))
    BY <1>4, HandshakeOver
  <2>2. ~Handshake'
    BY <2>1, <1>4 DEF Handshake
  <2>3. \A d : First(d) => ~Sent(d)'
    BY <1>1, <1>4, Single DEF Sent
  <2> QED
    BY <1>3, <1>4, <2>1, <2>2, <2>3 DEF Talk
<1>5. CASE socket = "down"
  BY <1>3, <1>5 DEF Talk, Handshake
<1> QED
  BY <1>2, <1>4, <1>5

LEMMA TalkDropped ==
  ASSUME Talk, Cli!Discard,
         \/ socket' = "connecting" /\ Cli!InitCommands
         \/ socket' = "down" /\ UNCHANGED <<script, patched>>
  PROVE  Talk'
<1>1. \A r : ~Told(r)'
  BY Single DEF Cli!Discard, Told
<1> QED
  BY <1>1 DEF Talk, Handshake, Cli!InitCommands, Cli!NewScript

LEMMA TalkConnected ==
  ASSUME Chain, OneAtATime, Talk, GotConnected PROVE Talk'
<1>1. /\ socket = "connecting" /\ socket' = "up" /\ Nothing
      /\ script = "init" /\ cmdNo = 0 /\ ~patched
      /\ commands' = Append(commands, Cli!Cmd(script, patched, cmdNo))
      /\ cmdNo' = 1
      /\ UNCHANGED <<script, patched, replies, lwdaqState>>
  BY DEF GotConnected, Cli!GotConnected, OneAtATime, Talk
<1>2. Cli!Cmd("init", FALSE, 0) = "server_info"
  BY DEF Cli!Cmd, Cli!Script, Cli!InitScript
<1>3. patched = FALSE
  BY <1>1, Parts DEF Cli!TypeOK
<1>4. Sent("server_info")'
  BY <1>1, <1>2, <1>3, Single DEF Nothing, Sent
<1>5. lwdaqState = "CONNECTING"
  BY <1>1, Parts DEF Cli!NoConnectionNoState
<1>6. \A r : ~Told(r)'
  BY <1>1, Single DEF Nothing, Told
<1>7. cmdNo' = 1 /\ FirstCommands[1] = "server_info"
  BY <1>1 DEF FirstCommands
<1>8. Sent(FirstCommands[cmdNo])'
  BY <1>4, <1>7, Zenon DEF Sent
<1>9. patched' <=> cmdNo' > 1
  BY <1>1, <1>3, <1>7
<1> QED
  BY <1>1, <1>5, <1>6, <1>8, <1>9 DEF Talk, Handshake, Stage


(* What the lists say.                                                     *)
LEMMA Firsts ==
  \A c : First(c) <=> c \in {"server_info", "set_server_info",
             "set_upload_target", "set_upload_step_result", "run_tool"}
BY DEF First, FirstCommands

LEMMA Lengths ==
  /\ Cli!Length("init") = 6 /\ Cli!Length("run") = 5
  /\ Cli!Length("stop") = 2
BY DEF Cli!Length

LEMMA InitList ==
  ASSUME NEW k \in 1..5
  PROVE  /\ ~Cli!IsError(FirstReplies[k])
         /\ Cli!StateOf(FirstReplies[k]) = lwdaqState
         /\ Cli!Matches(FirstReplies[k], Cli!Ret("init", TRUE, k - 1))
         /\ k < 5 => Cli!Cmd("init", TRUE, k) = FirstCommands[k + 1]
         /\ k = 5 => Cli!Cmd("init", TRUE, k) = "status"
         /\ k > 1 => FirstReplies[k] # "sockinfo"
         /\ FirstReplies[1] = "sockinfo"
<1>1. \/ k = 1 /\ FirstReplies[k] = "sockinfo"
      \/ k = 2 /\ FirstReplies[k] = "sock"
      \/ k = 3 /\ FirstReplies[k] = "sock"
      \/ k = 4 /\ FirstReplies[k] = "1"
      \/ k = 5 /\ FirstReplies[k] = "1"
  BY DEF FirstReplies
<1>2. /\ k = 1 => Cli!Ret("init", TRUE, k - 1) = "ok"
      /\ k \in {2, 3} => Cli!Ret("init", TRUE, k - 1) = "sock"
      /\ k \in {4, 5} => Cli!Ret("init", TRUE, k - 1) = "1"
  BY DEF Cli!Ret, Cli!Script, Cli!InitScript
<1>3. /\ k < 5 => Cli!Cmd("init", TRUE, k) = FirstCommands[k + 1]
      /\ k = 5 => Cli!Cmd("init", TRUE, k) = "status"
  <2> USE DEF Cli!Cmd, Cli!Script, Cli!InitScript, FirstCommands
  <2>1. CASE k = 1
    BY <2>1
  <2>2. CASE k = 2
    BY <2>2
  <2>3. CASE k = 3
    BY <2>3
  <2>4. CASE k = 4
    BY <2>4
  <2>5. CASE k = 5
    BY <2>5
  <2> QED
    BY <2>1, <2>2, <2>3, <2>4, <2>5
<1>4. FirstReplies[1] = "sockinfo"
  BY DEF FirstReplies
<1>5. ~Cli!IsError(FirstReplies[k]) /\ Cli!StateOf(FirstReplies[k]) = lwdaqState
  BY <1>1 DEF Cli!IsError, Cli!StateOf
<1>6. Cli!Matches("sockinfo", "ok") /\ \A x \in {"sock", "1"} : Cli!Matches(x, x)
  BY DEF Cli!Matches, Cli!Ending
<1>7. Cli!Matches(FirstReplies[k], Cli!Ret("init", TRUE, k - 1))
  BY <1>1, <1>2, <1>6
<1>8. k > 1 => FirstReplies[k] # "sockinfo"
  BY <1>1
<1> QED
  BY <1>3, <1>4, <1>5, <1>7, <1>8

LEMMA LaterCommand ==
  ASSUME NEW s \in {"run", "stop"}, NEW k \in 1..(Cli!Length(s) - 1)
  PROVE  ~First(Cli!Cmd(s, FALSE, k))
<1>1. CASE s = "run"
  <2>1. k \in 1..4
    BY <1>1, Lengths
  <2>2. Cli!Cmd("run", FALSE, k)
          \in {"run_settings", "load_script", "repeat_run", "status"}
    BY <2>1 DEF Cli!Cmd, Cli!Script, Cli!RunScript
  <2> QED
    BY <1>1, <2>2, Firsts
<1>2. CASE s = "stop"
  <2>1. k = 1
    BY <1>2, Lengths
  <2>2. Cli!Cmd("stop", FALSE, k) = "status"
    BY <2>1 DEF Cli!Cmd, Cli!Script, Cli!StopScript
  <2> QED
    BY <1>2, <2>2, Firsts
<1> QED
  BY <1>1, <1>2

(* What is written after a line is read.                                   *)
LEMMA Answers ==
  ASSUME commands = <<>>, socket = "up", NEW r, Cli!ReadStatus(r)
  PROVE  /\ Cli!IsError(r) => Sent("status")' /\ UNCHANGED <<lwdaqState, cmdNo>>
         /\ ~Cli!IsError(r) =>
              /\ lwdaqState' = Cli!StateOf(r)
              /\ IF /\ Cli!Matches(r, Cli!Ret(script, patched', cmdNo - 1))
                    /\ cmdNo < Cli!Length(script)
                 THEN /\ commands' = <<Cli!Cmd(script, patched', cmdNo)>>
                      /\ cmdNo' = cmdNo + 1
                 ELSE commands' = <<>> /\ cmdNo' = cmdNo
         /\ patched' = (patched \/ r = "sockinfo")
         /\ UNCHANGED <<script, socket>>
<1>1. \A c : Cli!Write(c) => commands' = <<c>>
  BY Single DEF Cli!Write
<1> QED
  BY <1>1 DEF Cli!ReadStatus, Sent

(* A line read in the handshake is the expected one.                       *)
LEMMA FirstRead ==
  ASSUME Chain, Talk, Handshake, NEW r \in Cli!Line, Told(r),
         commands = <<>>, Cli!ReadStatus(r)
  PROVE  /\ script = "init" /\ lwdaqState = "CONNECTING" /\ cmdNo \in 1..5
         /\ patched' = TRUE /\ lwdaqState' = "CONNECTING" /\ cmdNo' = cmdNo + 1
         /\ cmdNo < 5 => Sent(FirstCommands[cmdNo])'
         /\ cmdNo = 5 => tool /\ Told("1") /\ Sent("status")'
<1>1. /\ script \in Cli!ScriptName /\ cmdNo \in 0..Cli!Length(script)
      /\ cmdNo >= 1 /\ patched \in BOOLEAN /\ socket = "up"
  BY Parts DEF Cli!TypeOK, Cli!IndexSafe, Cli!Length, Cli!ScriptName, Handshake
<1>2. /\ script = "init" /\ lwdaqState = "CONNECTING" /\ Stage
      /\ cmdNo \in 1..5
  BY <1>1, Lengths DEF Talk, Handshake
<1>3. /\ \A q : Told(q) => q = r
      /\ \A c : ~Sent(c)
  BY Single DEF Told, Sent
<1>4. r = FirstReplies[cmdNo] /\ (cmdNo = 5 => tool)
  BY <1>2, <1>3 DEF Stage
<1>5. /\ ~Cli!IsError(r) /\ Cli!StateOf(r) = lwdaqState
      /\ Cli!Matches(r, Cli!Ret("init", TRUE, cmdNo - 1))
      /\ cmdNo < 5 => Cli!Cmd("init", TRUE, cmdNo) = FirstCommands[cmdNo + 1]
      /\ cmdNo = 5 => Cli!Cmd("init", TRUE, cmdNo) = "status"
  BY <1>2, <1>4, InitList, Zenon
<1>6. patched' = TRUE
  <2>1. CASE cmdNo = 1
    <3>1. r = "sockinfo"
      BY <1>4, <2>1 DEF FirstReplies
    <3> QED
      BY <1>1, <3>1, Answers
  <2>2. CASE cmdNo # 1
    <3>1. cmdNo > 1
      BY <1>2, <2>2
    <3> QED
      BY <1>1, <1>2, <3>1, Answers DEF Stage
  <2> QED
    BY <2>1, <2>2
<1>7. /\ lwdaqState' = "CONNECTING" /\ cmdNo' = cmdNo + 1
      /\ commands' = <<Cli!Cmd("init", TRUE, cmdNo)>>
  <2>1. cmdNo < Cli!Length(script)
    BY <1>2, Lengths
  <2>2. Cli!Matches(r, Cli!Ret(script, patched', cmdNo - 1))
    BY <1>2, <1>5, <1>6, Zenon
  <2>3. /\ lwdaqState' = Cli!StateOf(r)
        /\ IF /\ Cli!Matches(r, Cli!Ret(script, patched', cmdNo - 1))
              /\ cmdNo < Cli!Length(script)
           THEN /\ commands' = <<Cli!Cmd(script, patched', cmdNo)>>
                /\ cmdNo' = cmdNo + 1
           ELSE commands' = <<>> /\ cmdNo' = cmdNo
    BY <1>1, <1>5, Answers, Zenon
  <2>4. /\ lwdaqState' = "CONNECTING" /\ cmdNo' = cmdNo + 1
        /\ commands' = <<Cli!Cmd(script, patched', cmdNo)>>
    BY <1>2, <1>5, <2>1, <2>2, <2>3, Zenon
  <2> QED
    BY <1>2, <1>6, <2>4, Zenon
<1>8. cmdNo < 5 => Sent(FirstCommands[cmdNo])'
  BY <1>5, <1>7, Zenon DEF Sent
<1>9. cmdNo = 5 => tool /\ Told("1") /\ Sent("status")'
  <2>1. cmdNo = 5 => FirstReplies[cmdNo] = "1"
    BY DEF FirstReplies
  <2> QED
    BY <1>4, <1>5, <1>7, <2>1, Zenon DEF Sent, Told
<1> QED
  BY <1>2, <1>6, <1>7, <1>8, <1>9

LEMMA TalkRead ==
  ASSUME Chain, OneAtATime, Talk, ReadyRead PROVE Talk'
<1>1. PICK r \in Cli!Line :
             /\ Told(r) /\ commands = <<>> /\ socket = "up"
             /\ buffer' = <<>> /\ replies' = <<>>
             /\ Cli!ReadStatus(r)
  BY ReadOne
<1>2. /\ \A q : ~Told(q)'
      /\ \A q : Told(q) => q = r
      /\ \A c : ~Sent(c)
  BY <1>1, Single DEF Told, Sent
<1>3. UNCHANGED <<script, socket, tool, control, upload, target>>
  BY <1>1 DEF ReadyRead, lwdaq, Cli!ReadStatus
<1>4. /\ script \in Cli!ScriptName /\ cmdNo \in 0..Cli!Length(script)
      /\ cmdNo >= 1 /\ patched \in BOOLEAN
  BY <1>1, Parts DEF Cli!TypeOK, Cli!IndexSafe, Cli!Length, Cli!ScriptName
<1>5. CASE Handshake
  <2>1. /\ script = "init" /\ cmdNo \in 1..5 /\ patched' = TRUE
        /\ lwdaqState' = "CONNECTING" /\ cmdNo' = cmdNo + 1
        /\ cmdNo < 5 => Sent(FirstCommands[cmdNo])'
        /\ cmdNo = 5 => tool /\ Told("1") /\ Sent("status")'
    BY <1>1, <1>5, FirstRead
  <2>2. CASE cmdNo < 5
    <3>1. cmdNo' < 6 /\ cmdNo' > 1
      BY <2>1, <2>2
    <3>2. Handshake' /\ Stage' /\ socket' = "up"
      BY <1>1, <1>3, <2>1, <2>2, <3>1 DEF Handshake, Stage, Sent, Told
    <3>3. ~Gui => ~(upload' /\ target' /\ Told("1")')
      BY <1>2
    <3> QED
      BY <1>2, <1>3, <2>1, <3>2, <3>3 DEF Talk, Sent, Told
  <2>3. CASE cmdNo = 5
    <3>1. tool' /\ Sent("status")' /\ Told("1") /\ ~(cmdNo' < 6)
      BY <1>3, <2>1, <2>3
    <3>2. \A c : First(c) => ~Sent(c)'
      BY <3>1, Firsts, Single DEF Sent
    <3> QED
      BY <1>1, <1>2, <1>3, <2>1, <2>3, <3>1, <3>2 DEF Talk, Handshake
  <2> QED
    BY <2>1, <2>2, <2>3
<1>6. CASE ~Handshake
  <2>1. tool /\ r # "sockinfo" /\ (script # "init" => ~patched)
        /\ (~Gui => ~(upload /\ target))
    BY <1>1, <1>2, <1>6 DEF Talk
  <2>2. script = "init" => cmdNo = 6
    BY <1>1, <1>4, <1>6, Lengths DEF Handshake
  <2>3. patched' = patched /\ (cmdNo' = cmdNo \/ cmdNo' = cmdNo + 1)
    BY <1>1, <1>4, <2>1, Answers
  <2>4. ~Handshake'
    BY <1>3, <1>4, <1>6, <2>3 DEF Handshake
  <2>5. \/ commands' = <<>> \/ commands' = <<"status">>
        \/ /\ script # "init" /\ cmdNo < Cli!Length(script)
           /\ commands' = <<Cli!Cmd(script, FALSE, cmdNo)>>
    <3>1. script = "init" => ~(cmdNo < Cli!Length(script))
      BY <2>2, Lengths
    <3>2. script # "init" => patched' = FALSE
      BY <1>4, <2>1, <2>3
    <3>3. \/ commands' = <<>> \/ commands' = <<"status">>
          \/ /\ cmdNo < Cli!Length(script)
             /\ commands' = <<Cli!Cmd(script, patched', cmdNo)>>
      BY <1>1, Answers, Zenon DEF Sent
    <3> QED
      BY <3>1, <3>2, <3>3, Zenon
  <2>6. ASSUME script # "init", cmdNo < Cli!Length(script)
        PROVE  ~First(Cli!Cmd(script, FALSE, cmdNo))
    <3>1. script \in {"run", "stop"} /\ Cli!Length(script) \in Nat
      BY <1>4, <2>6, Lengths DEF Cli!ScriptName
    <3>2. cmdNo \in 1..(Cli!Length(script) - 1)
      BY <1>4, <2>6, <3>1
    <3> QED
      BY <3>1, <3>2, LaterCommand, Zenon
  <2>7. \A c : First(c) => ~Sent(c)'
    BY <2>5, <2>6, Firsts, Single DEF Sent
  <2> QED
    BY <1>1, <1>2, <1>3, <2>1, <2>3, <2>4, <2>7 DEF Talk
<1> QED
  BY <1>5, <1>6

(* The command interpreted is the one that was sent.                       *)
LEMMA Replied ==
  ASSUME NEW c, Sent(c), replies = <<>>, NEW r, Told(r)',
         NEW d, NEW q, Lw!Interpret(d, q)
  PROVE  d = c /\ q = r
<1>1. Head(<<c>>) = d /\ <<r>> = Append(<<>>, q)
  BY DEF Lw!Interpret, Sent, Told
<1>2. Append(<<>>, q) = <<q>>
  BY Single
<1>3. Head(<<r>>) = r /\ Head(<<q>>) = q /\ Head(<<c>>) = c
  BY Single
<1> QED
  BY <1>1, <1>2, <1>3

LEMMA TalkCommand ==
  ASSUME Chain, OneAtATime, Talk, LwdaqCommand PROVE Talk'
<1>1. PICK c \in Lw!Command, r \in Cli!Line :
             /\ Sent(c) /\ replies = <<>> /\ socket = "up"
             /\ commands' = <<>> /\ Told(r)'
             /\ Lw!Interpret(c, r) /\ Lw!SystemServer
  BY CommandOne
<1>2. \A d, q : Lw!Interpret(d, q) => d = c /\ q = r
  BY <1>1, Replied
<1>3. UNCHANGED <<script, cmdNo, patched, socket, lwdaqState>>
  BY DEF LwdaqCommand, client
<1>4. /\ \A d : Sent(d) => d = c
      /\ \A q : ~Told(q)
      /\ \A d : ~Sent(d)'
      /\ \A q : Told(q)' => q = r
  BY <1>1, Single DEF Sent, Told
<1>5. CASE First(c)
  <2>1. Handshake /\ Handshake' /\ script = "init" /\ script' = "init"
    BY <1>1, <1>3, <1>5 DEF Talk, Handshake
  <2>2. c = FirstCommands[cmdNo] /\ lwdaqState = "CONNECTING" /\ cmdNo \in 1..5
        /\ (patched <=> cmdNo > 1)
    BY <1>1, <1>4, <2>1, Parts, Lengths
       DEF Talk, Stage, Handshake, Cli!IndexSafe
  <2>3. /\ r = FirstReplies[cmdNo] /\ (cmdNo = 5 => tool')
        /\ cmdNo = 5 /\ ~Gui => ~upload'
    <3>1. \/ cmdNo = 1 /\ c = "server_info" /\ FirstReplies[cmdNo] = "sockinfo"
          \/ cmdNo = 2 /\ c = "set_server_info" /\ FirstReplies[cmdNo] = "sock"
          \/ cmdNo = 3 /\ c = "set_upload_target" /\ FirstReplies[cmdNo] = "sock"
          \/ cmdNo = 4 /\ c = "set_upload_step_result" /\ FirstReplies[cmdNo] = "1"
          \/ cmdNo = 5 /\ c = "run_tool" /\ FirstReplies[cmdNo] = "1"
      BY <2>2 DEF FirstCommands, FirstReplies
    <3>2. /\ c = "server_info" => r = "sockinfo"
          /\ c \in {"set_server_info", "set_upload_target"} => r = "sock"
          /\ c = "set_upload_step_result" => r = "1"
          /\ c = "run_tool" => r = "1" /\ tool' /\ (~Gui => ~upload')
      BY <1>1, <1>2 DEF Lw!SystemServer, Lw!ServerInfo, Lw!SetServerInfo,
         Lw!SetUploadTarget, Lw!SetUploadStepResult, Lw!RunTool,
         Lw!RunParams, Lw!RunSettings, Lw!LoadScript, Lw!CommandRepeatRun,
         Lw!CommandStop, Lw!Status
    <3> QED
      BY <3>1, <3>2
  <2>4. Stage'
    BY <1>1, <1>3, <2>2, <2>3 DEF Stage, Told
  <2>5. r # "Idle"
    BY <2>2, <2>3 DEF FirstReplies
  <2> QED
    BY <1>1, <1>3, <1>4, <2>1, <2>2, <2>3, <2>4, <2>5 DEF Talk
<1>6. CASE ~First(c)
  <2>1. ~Handshake /\ tool /\ (~Gui => ~(upload /\ target))
    <3>1. ~Handshake
      <4>1. cmdNo \in 1..5 => \A d : d = FirstCommands[cmdNo] => First(d)
        BY DEF First
      <4>2. Handshake => cmdNo \in 1..5
        BY <1>1, Parts, Lengths DEF Cli!IndexSafe, Handshake
      <4> QED
        BY <1>1, <1>4, <1>6, <4>1, <4>2 DEF Talk, Stage
    <3> QED
      BY <1>1, <3>1 DEF Talk
  <2>2. UNCHANGED <<tool, upload, target>> /\ r # "sockinfo"
        /\ (r = "Idle" => control' = "Idle")
    <3>1. c \notin {"server_info", "set_server_info", "set_upload_target",
                    "set_upload_step_result", "run_tool"}
      BY <1>6, Firsts
    <3>2. control \in Lw!Control
      BY DEF Chain, LwP!Inv, LwP!TypeOK, LwP!Control, Lw!Control
    <3> QED
      BY <1>1, <1>2, <2>1, <3>1, <3>2 DEF Lw!SystemServer, Lw!ServerInfo,
         Lw!SetServerInfo, Lw!SetUploadTarget, Lw!SetUploadStepResult,
         Lw!RunTool, Lw!RunParams, Lw!RunSettings, Lw!LoadScript,
         Lw!CommandRepeatRun, Lw!CommandStop, Lw!Status, Lw!lwdaqVars,
         Lw!toolVars, Lw!Control
  <2>3. ~Handshake'
    BY <1>3, <2>1 DEF Handshake
  <2> QED
    BY <1>1, <1>3, <1>4, <2>1, <2>2, <2>3 DEF Talk
<1> QED
  BY <1>5, <1>6

LEMMA TalkStep ==
  ASSUME Prompt, Chain, OneAtATime, Talk, LwdaqStep PROVE Talk'
<1>1. UNCHANGED <<socket, script, cmdNo, patched, lwdaqState, commands>>
  BY StepOne DEF client
<1>2. UNCHANGED <<tool, upload, target>>
  BY DEF LwdaqStep, Lw!QueueStep, Lw!StepEnd
<1>3. CASE Lw!QueueStep /\ UNCHANGED replies
  <2>1. control = "Idle" => control' = "Idle"
    BY <1>3 DEF Lw!QueueStep, Lw!EventStopped
  <2> QED
    BY <1>1, <1>2, <1>3, <2>1 DEF Talk, Handshake, Stage, Sent, Told
<1>4. ASSUME Nothing,
             UNCHANGED replies \/ \E r \in Uploads : Told(r)'
      PROVE  Talk'
  <2>1. \A r : Told(r)' => r \in Uploads
    BY <1>4, Single DEF Nothing, Told
  <2>2. socket = "up" => ~Handshake /\ tool /\ (~Gui => ~(upload /\ target))
    BY <1>4, HandshakeOver
  <2>3. \A c : ~Sent(c)'
    BY <1>1, <1>4, Single DEF Nothing, Sent
  <2>4. Handshake' => Handshake
    BY <1>1 DEF Handshake
  <2> QED
    BY <1>1, <1>2, <2>1, <2>2, <2>3, <2>4 DEF Talk, Uploads, Handshake
<1> QED
  BY <1>3, <1>4, StepOne

LEMMA TalkInit == Init => Talk
BY Single DEF Init, Cli!Init, Lw!Init, Talk, Handshake, Told

LEMMA TalkNext ==
  ASSUME Prompt, Chain, OneAtATime, Talk, [Next]_vars PROVE Talk'
<1>1. ASSUME UNCHANGED <<lwdaq, client, connection>> PROVE Talk'
  BY <1>1, TalkSame DEF TalkVars, lwdaq, client, connection
<1>2. ASSUME Nothing, socket # "connecting", UNCHANGED lwdaq,
             \/ Cli!StartRun \/ Cli!SendStop \/ Cli!StopRun
             \/ Cli!RunTimeout \/ Cli!StatusTimeout
             \/ UNCHANGED <<client, connection>>
      PROVE  Talk'
  <2>1. \A c \in {"run_params", "stop", "status"} :
           c \in Lw!Command /\ ~First(c)
    BY Firsts DEF Lw!Command
  <2>2. CASE UNCHANGED <<client, connection>>
    BY <1>1, <1>2, <2>2
  <2>3. CASE Cli!StartRun
    BY <1>2, <2>1, <2>3, TalkWrite DEF Cli!StartRun, Cli!StartScript,
       Cli!NewScript, lwdaq
  <2>4. CASE Cli!SendStop
    BY <1>2, <2>1, <2>4, TalkWrite DEF Cli!SendStop, Cli!StartScript,
       Cli!NewScript, lwdaq
  <2>5. Cli!StopRun => Talk'
    BY <1>1, <1>2, <2>4 DEF Cli!StopRun, Cli!vars, Cli!clientVars,
       Cli!timerVars, client, connection
  <2>6. CASE Cli!RunTimeout
    <3>1. UNCHANGED <<socket, script, cmdNo, patched, commands, replies,
                      lwdaqState>> => Talk'
      BY <1>2, TalkSame DEF TalkVars, lwdaq
    <3> QED
      BY <2>5, <2>6, <3>1 DEF Cli!RunTimeout
  <2>7. CASE Cli!StatusTimeout
    <3>1. CASE UNCHANGED commands
      BY <1>2, <2>7, <3>1, TalkSame DEF TalkVars, Cli!StatusTimeout, lwdaq
    <3>2. CASE Cli!Write("status")
      BY <1>2, <2>1, <2>7, <3>2, TalkWrite DEF Cli!StatusTimeout, lwdaq
    <3> QED
      BY <2>7, <3>1, <3>2 DEF Cli!StatusTimeout
  <2> QED
    BY <1>2, <2>2, <2>3, <2>4, <2>5, <2>6, <2>7
<1>3. CASE CallHandled
  <2>1. socket # "connecting" /\ UNCHANGED lwdaq
        /\ (Head(calls).op \in {"start", "stop"} => Nothing)
    BY <1>3, CallsOne DEF CallHandled, OneAtATime, CallsFit
  <2> QED
    BY <1>1, <1>2, <1>3, <2>1 DEF CallHandled, Start, StartRunIfRemoved, Stop
<1>4. CASE WaitingTimeout \/ RunTimeout \/ StatusTimeout
  <2>1. Nothing /\ socket # "connecting" /\ UNCHANGED lwdaq
    BY <1>4 DEF WaitingTimeout, RunTimeout, StatusTimeout, InTime, Quiet,
       Nothing
  <2> QED
    BY <1>2, <1>4, <2>1 DEF WaitingTimeout, RunTimeout, StatusTimeout,
       StartRunIfRemoved
<1>5. CASE ConnectTimeout \/ ServerRestart
  <2>1. Cli!Discard /\ socket' = "connecting" /\ Cli!InitCommands
    BY <1>5 DEF ConnectTimeout, Cli!ConnectTimeout, ServerRestart, Cli!Restart
  <2> QED
    BY <2>1, TalkDropped
<1>6. CASE ConnectFails \/ ConnectionLost \/ LwdaqRestart
  <2>1. Cli!Discard /\ socket' = "down" /\ UNCHANGED <<script, patched>>
    BY <1>6 DEF ConnectFails, ConnectionLost, LwdaqRestart,
       Cli!ConnectionRefused, Cli!ConnectionFailed, Cli!GotDisconnected
  <2> QED
    BY <2>1, TalkDropped
<1>7. CASE ReadyReadThrows \/ ServerCrash \/ Press \/ UNCHANGED vars
  BY <1>1, <1>7 DEF ReadyReadThrows, ServerCrash, Press, vars
<1> QED
  BY <1>3, <1>4, <1>5, <1>6, <1>7, TalkConnected, TalkRead, TalkCommand,
     TalkStep DEF Next, Step, Fault

-----------------------------------------------------------------------------
LEMMA TalkHolds ==
  ASSUME Prompt PROVE Spec => [](Chain /\ OneAtATime /\ Talk)
<1>1. Init => Chain /\ OneAtATime /\ Talk
  BY ChainInit, OneInit, TalkInit
<1>2. Chain /\ OneAtATime /\ Talk /\ [Next]_vars
        => (Chain /\ OneAtATime /\ Talk)'
  BY ChainNext, OneNext, TalkNext
<1> QED
  BY <1>1, <1>2, PTL DEF Spec

-----------------------------------------------------------------------------
(***************************************************************************)
(* As long as nothing fails there is one chain of events while the         *)
(* Acquisifier is busy and none when it is Idle, with a window or without: *)
(* a handshake, whose run_tool would reset a busy one, finds it Idle.      *)
(***************************************************************************)
OneEvent == Lw!Chain = (IF control = "Idle" THEN 0 ELSE 1)

Calm ==
  /\ OneEvent
  /\ socket # "down"
  /\ socket = "connecting" \/ Handshake => control = "Idle"
  /\ ~alive => control = "Idle" /\ Told("Idle") /\ commands = <<>>

(* Idle is at rest.                                                        *)
LEMMA IdleRests ==
  ASSUME Chain, OneEvent
  PROVE  /\ queue \in Nat /\ executing \in BOOLEAN /\ control \in Lw!Control
         /\ control = "Idle" <=> AtRest
         /\ control # "Idle" /\ executing => queue = 0
         /\ control # "Idle" /\ ~executing => queue = 1
<1>1. queue \in Nat /\ executing \in BOOLEAN /\ control \in Lw!Control
  BY DEF Chain, LwP!Inv, LwP!TypeOK, LwP!Control, Lw!Control
<1> QED
  BY <1>1 DEF OneEvent, Lw!Chain, AtRest

LEMMA EventCommand ==
  ASSUME Chain, OneEvent, LwdaqCommand,
         (\E r : Lw!Interpret("run_tool", r)) => control = "Idle"
  PROVE  OneEvent'
<1>1. /\ queue \in Nat /\ executing \in BOOLEAN
      /\ control = "Idle" <=> queue = 0 /\ ~executing
      /\ control # "Idle" /\ executing => queue = 0
      /\ control # "Idle" /\ ~executing => queue = 1
  BY IdleRests DEF AtRest
<1>2. Lw!SystemServer
  BY DEF LwdaqCommand
<1>3. executing' = executing
  BY <1>2 DEF Lw!SystemServer, Lw!ServerInfo,
     Lw!SetServerInfo, Lw!SetUploadTarget, Lw!SetUploadStepResult,
     Lw!RunTool, Lw!RunParams, Lw!RunSettings, Lw!LoadScript,
     Lw!CommandRepeatRun, Lw!CommandStop, Lw!Status, Lw!lwdaqVars
<1>4. CASE UNCHANGED <<control, queue>>
  BY <1>3, <1>4 DEF OneEvent, Lw!Chain
<1>5. CASE Lw!RunTool
  <2>1. control = "Idle"
    BY <1>5 DEF Lw!RunTool
  <2>2. control' = "Idle" /\ queue' = queue
    BY <1>5, <2>1 DEF Lw!RunTool
  <2> QED
    BY <1>4, <2>1, <2>2
<1>6. CASE /\ control' = "Repeat_Run"
           /\ queue' = IF control = "Idle" THEN queue + 1 ELSE queue
  BY <1>1, <1>3, <1>6 DEF OneEvent, Lw!Chain
<1>7. CASE control' = Lw!ControlAfterStop /\ queue' = queue
  BY <1>1, <1>3, <1>7 DEF OneEvent, Lw!Chain, Lw!ControlAfterStop
<1> QED
  BY <1>2, <1>4, <1>5, <1>6, <1>7 DEF Lw!SystemServer, Lw!ServerInfo,
     Lw!SetServerInfo, Lw!SetUploadTarget, Lw!SetUploadStepResult,
     Lw!RunParams, Lw!RunSettings, Lw!LoadScript,
     Lw!CommandRepeatRun, Lw!CommandStop, Lw!Status, Lw!lwdaqVars,
     Lw!toolVars

LEMMA EventStep ==
  ASSUME Chain, OneEvent, LwdaqStep PROVE control # "Idle" /\ OneEvent'
<1>1. /\ queue \in Nat /\ executing \in BOOLEAN
      /\ control = "Idle" <=> queue = 0 /\ ~executing
      /\ control # "Idle" /\ executing => queue = 0
      /\ control # "Idle" /\ ~executing => queue = 1
  BY IdleRests DEF AtRest
<1>2. CASE Lw!QueueStep
  <2>1. control # "Idle" /\ queue = 1 /\ ~executing
    BY <1>1, <1>2 DEF Lw!QueueStep
  <2>2. \/ control' = "Idle" /\ queue' = 0 /\ executing' = executing
        \/ control' # "Idle" /\ queue' = 0 /\ executing' = TRUE
        \/ control' # "Idle" /\ queue' = queue /\ executing' = executing
    BY <1>2, <2>1 DEF Lw!QueueStep, Lw!EventStopped, Lw!BeginStep
  <2> QED
    BY <2>1, <2>2 DEF OneEvent, Lw!Chain
<1>3. ASSUME NEW ok, Lw!StepEnd(ok) PROVE control # "Idle" /\ OneEvent'
  <2>1. executing /\ control # "Idle" /\ queue = 0 /\ ~executing'
    BY <1>1, <1>3 DEF Lw!StepEnd
  <2>2. \/ control' = control /\ queue' = 1
        \/ control' = "Idle" /\ queue' = 0
    BY <1>3, <2>1 DEF Lw!StepEnd
  <2> QED
    BY <2>1, <2>2 DEF OneEvent, Lw!Chain
<1> QED
  BY <1>2, <1>3 DEF LwdaqStep

(* The steps of the client leave LWDAQ alone and begin no handshake.       *)
LEMMA CalmClient ==
  ASSUME Calm, UNCHANGED <<control, queue, executing, socket, alive>>,
         alive, Handshake' => Handshake
  PROVE  Calm'
BY DEF Calm, OneEvent, Lw!Chain

LEMMA CalmInit == Init => Calm
BY DEF Init, Srv!Init, Cli!Init, Lw!Init, Calm, OneEvent, Lw!Chain, Handshake

LEMMA CalmNext ==
  ASSUME Chain, OneAtATime, Talk, Calm, [Step \/ Press]_vars PROVE Calm'
<1>1. CASE CallHandled
  <2>1. Handshake' => Handshake
    BY <1>1 DEF CallHandled, Start, StartRunIfRemoved, Stop, Cli!StartRun,
       Cli!StartScript, Cli!NewScript, Cli!StopRun, Cli!SendStop, Cli!vars,
       Cli!clientVars, Handshake, client
  <2>2. UNCHANGED <<control, queue, executing, socket, alive>> /\ alive
    BY <1>1 DEF CallHandled, Start, StartRunIfRemoved, Stop, Cli!StartRun,
       Cli!StopRun, Cli!SendStop, Cli!vars, Cli!clientVars, client, lwdaq,
       Srv!StartDAQ, Srv!StopDAQ, Srv!UpdateRun, Srv!UpdateAll
  <2> QED
    BY <2>1, <2>2, CalmClient
<1>2. CASE WaitingTimeout \/ RunTimeout \/ StatusTimeout
  <2>1. Handshake' => Handshake
    BY <1>2 DEF WaitingTimeout, StartRunIfRemoved, RunTimeout, StatusTimeout,
       Cli!StartRun, Cli!RunTimeout, Cli!StatusTimeout,
       Cli!StartScript, Cli!NewScript, Cli!StopRun, Cli!SendStop, Cli!vars,
       Cli!clientVars, Handshake, client
  <2>2. UNCHANGED <<control, queue, executing, socket, alive>> /\ alive
    BY <1>2 DEF WaitingTimeout, StartRunIfRemoved, RunTimeout, StatusTimeout,
       Cli!StartRun, Cli!RunTimeout, Cli!StatusTimeout, Cli!StopRun,
       Cli!SendStop, Cli!vars, Cli!clientVars, client, lwdaq, server,
       Srv!WaitingTimeout
  <2> QED
    BY <2>1, <2>2, CalmClient
<1>3. CASE ConnectTimeout
  <2>1. connectTimer
    BY <1>3 DEF ConnectTimeout, Cli!ConnectTimeout
  <2> QED
    BY <2>1, Parts DEF Calm, Cli!Reconnects
<1>4. CASE GotConnected
  <2>1. socket = "connecting" /\ socket' = "up" /\ alive /\ alive'
        /\ UNCHANGED <<control, queue, executing>>
    BY <1>4 DEF GotConnected, Cli!GotConnected, server
  <2> QED
    BY <2>1 DEF Calm, OneEvent, Lw!Chain
<1>5. CASE ReadyRead
  <2>1. PICK r \in Cli!Line : Cli!ReadStatus(r) /\ socket = "up"
    BY <1>5, ReadOne
  <2>2. cmdNo' = cmdNo \/ cmdNo' = cmdNo + 1
    BY <2>1 DEF Cli!ReadStatus
  <2>3. cmdNo \in Nat /\ UNCHANGED <<script, socket>>
    BY <2>1, Parts DEF Cli!ReadStatus, Cli!TypeOK, Cli!Length, Cli!ScriptName
  <2>4. Handshake' => Handshake
    BY <2>2, <2>3 DEF Handshake
  <2>5. UNCHANGED <<control, queue, executing, alive>> /\ alive
    BY <1>5 DEF ReadyRead, Signal, lwdaq, server, Srv!LwdaqStateChanged
  <2> QED
    BY <2>3, <2>4, <2>5, CalmClient
<1>6. CASE ReadyReadThrows
  <2>1. replies # <<>> /\ Head(buffer \o replies) = "Idle" /\ buffer = <<>>
    BY <1>6 DEF ReadyReadThrows, OneAtATime
  <2>2. Told("Idle") /\ commands = <<>>
    BY <2>1, Single DEF OneAtATime, Nothing, Told
  <2>3. UNCHANGED <<control, queue, executing, socket, script, cmdNo, replies,
                    commands>>
    BY <1>6 DEF ReadyReadThrows, client, connection, lwdaq
  <2> QED
    BY <2>2, <2>3 DEF Calm, Talk, OneEvent, Lw!Chain, Handshake, Told
<1>7. CASE LwdaqCommand
  <2>1. PICK c \in Lw!Command, r \in Cli!Line :
               /\ Sent(c) /\ replies = <<>> /\ socket = "up" /\ Told(r)'
               /\ Lw!SystemServer
    BY <1>7, CommandOne
  <2>2. \A d, q : Lw!Interpret(d, q) => d = c
    BY <2>1, Replied
  <2>3. First(c) <=> Handshake
    <3>1. Handshake => cmdNo \in 1..5
      BY <2>1, Parts, Lengths DEF Cli!IndexSafe, Handshake
    <3>2. \A q : ~Told(q)
      BY <2>1, Single DEF Told
    <3>3. Handshake => Sent(FirstCommands[cmdNo])
      BY <3>2 DEF Talk, Stage
    <3>4. \A d : Sent(d) => d = c
      BY <2>1, Single DEF Sent
    <3> QED
      BY <2>1, <3>1, <3>3, <3>4 DEF Talk, First
  <2>4. (\E q : Lw!Interpret("run_tool", q)) => control = "Idle"
    BY <2>2, <2>3, Firsts DEF Calm
  <2>5. OneEvent'
    BY <1>7, <2>4, EventCommand DEF Calm
  <2>6. UNCHANGED <<socket, script, cmdNo, alive>> /\ alive
    BY <1>7, <2>1, Single DEF LwdaqCommand, server, client, Calm, Sent
  <2>7. Handshake => control' = "Idle"
    <3>1. Handshake => c \in {"server_info", "set_server_info",
             "set_upload_target", "set_upload_step_result", "run_tool"}
      BY <2>3, Firsts
    <3> QED
      BY <2>1, <2>2, <3>1 DEF Calm, Lw!SystemServer, Lw!ServerInfo,
         Lw!SetServerInfo, Lw!SetUploadTarget, Lw!SetUploadStepResult,
         Lw!RunTool, Lw!RunParams, Lw!RunSettings, Lw!LoadScript,
         Lw!CommandRepeatRun, Lw!CommandStop, Lw!Status, Lw!lwdaqVars,
         Lw!toolVars
  <2> QED
    BY <2>1, <2>5, <2>6, <2>7 DEF Calm, Handshake
<1>8. CASE LwdaqStep
  <2>1. control # "Idle" /\ OneEvent'
    BY <1>8, EventStep DEF Calm
  <2>2. UNCHANGED <<socket, script, cmdNo, alive>>
    BY <1>8 DEF LwdaqStep, server, client
  <2> QED
    BY <2>1, <2>2 DEF Calm, Handshake
<1>9. CASE ServerRestart
  <2>1. ~alive /\ alive' /\ UNCHANGED <<control, queue, executing>>
        /\ socket' = "connecting"
    BY <1>9 DEF ServerRestart, Srv!Restart, Cli!Restart
  <2> QED
    BY <2>1 DEF Calm, OneEvent, Lw!Chain, Handshake
<1>10. CASE Press \/ UNCHANGED vars
  <2>1. UNCHANGED <<control, queue, executing, socket, script, cmdNo, replies,
                    commands, alive>>
    BY <1>10 DEF Press, vars, client, connection, lwdaq, server
  <2> QED
    BY <2>1 DEF Calm, OneEvent, Lw!Chain, Handshake, Told
<1> QED
  BY <1>1, <1>2, <1>3, <1>4, <1>5, <1>6, <1>7, <1>8, <1>9, <1>10 DEF Step

LEMMA CalmHolds ==
  ASSUME Prompt
  PROVE  MCSpec => [](/\ Chain /\ OneAtATime /\ Talk
                      /\ faults \in Nat /\ (faults = 0 => Calm))
<1> DEFINE Inv == /\ Chain /\ OneAtATime /\ Talk
                  /\ faults \in Nat /\ (faults = 0 => Calm)
<1>1. MCInit => Inv
  BY ChainInit, OneInit, TalkInit, CalmInit DEF MCInit
<1>2. ASSUME Inv, [MCNext]_mcVars PROVE Inv'
  <2>1. \/ [Next]_vars /\ faults' = faults + 1
        \/ [Step \/ Press]_vars /\ faults' = faults
    BY <1>2 DEF MCNext, mcVars, Next
  <2>2. [Next]_vars
    BY <2>1 DEF Next
  <2>3. (Chain /\ OneAtATime /\ Talk)'
    BY <1>2, <2>2, ChainNext, OneNext, TalkNext
  <2>4. faults' \in Nat /\ (faults' = 0 => faults = 0 /\ [Step \/ Press]_vars)
    BY <1>2, <2>1
  <2> QED
    BY <1>2, <2>3, <2>4, CalmNext
<1> QED
  BY <1>1, <1>2, PTL DEF MCSpec

(* The client becomes idle when it reads so, and LWDAQ still is.           *)
LEMMA BecomesIdle ==
  ASSUME Chain, OneAtATime, Talk, [Next]_vars,
         lwdaqState # "IDLE", lwdaqState' = "IDLE"
  PROVE  control = "Idle"
<1>1. ReadyRead
  BY Zenon DEF Next, Step, Fault, Press, vars, client, CallHandled,
     WaitingTimeout, RunTimeout, Cli!RunTimeout, Cli!StopRun, Cli!SendStop,
     Cli!vars, Cli!clientVars, StatusTimeout, Cli!StatusTimeout,
     ConnectTimeout, Cli!ConnectTimeout, GotConnected, Cli!GotConnected,
     ReadyReadThrows, LwdaqCommand, LwdaqStep, ConnectFails,
     Cli!ConnectionRefused, Cli!ConnectionFailed, ConnectionLost,
     LwdaqRestart, Cli!GotDisconnected, ServerCrash, ServerRestart,
     Cli!Restart
<1>2. PICK r \in Cli!Line : Told(r) /\ Cli!ReadStatus(r)
  BY <1>1, ReadOne
<1>3. r = "Idle"
  BY <1>2 DEF Cli!ReadStatus, Cli!StateOf
<1> QED
  BY <1>2, <1>3 DEF Talk

(***************************************************************************)
(* Results are calculated from complete files: with a window whatever      *)
(* fails, and without one unless something has failed.                     *)
(***************************************************************************)
THEOREM CompleteFiles ==
  ASSUME Prompt PROVE MCSpec => CalculatedAtRest
<1>1. ASSUME Chain, OneAtATime, Talk, faults \in Nat, faults = 0 => Calm,
             [MCNext]_mcVars
      PROVE  [Gui \/ faults' = 0 => ~CalculatesTooEarly]_mcVars
  <2>1. [Next]_vars /\ (faults' = 0 => faults = 0)
    BY <1>1 DEF MCNext, mcVars, Next
  <2>2. ASSUME Gui \/ faults' = 0, CalculatesTooEarly PROVE FALSE
    <3>1. control = "Idle" /\ ~AtRest
      BY <1>1, <2>1, <2>2, BecomesIdle DEF CalculatesTooEarly
    <3>2. OneEvent
      BY <1>1, <2>1, <2>2, SameLwdaq
         DEF Chain, LwP!Inv, OneEvent, Lw!OneChain, Calm
    <3> QED
      BY <1>1, <3>1, <3>2, IdleRests
  <2> QED
    BY <2>2
<1> QED
  BY <1>1, CalmHolds, PTL DEF MCSpec, CalculatedAtRest

-----------------------------------------------------------------------------
(***************************************************************************)
(* When buttons are pressed in the state the server has, too, the client   *)
(* knows what LWDAQ does: what it may have asked for, and what LWDAQ can   *)
(* be doing, follows from its state (Course); a run is started only when   *)
(* the Acquisifier is Idle (Clock).                                        *)
(***************************************************************************)
Polls == \A c : Sent(c) => c = "status"
Done == cmdNo = Cli!Length(script) /\ Polls

Resting == control = "Idle" /\ Nothing

(* The first step of a run is still to come or is being executed: the      *)
(* Acquisifier does not say Wait.                                          *)
Early == step = 0 \/ executing

(* The run list, up to the first status.                                   *)
Begun ==
  /\ script = "run"
  /\ \/ /\ control = "Idle"
        /\ \/ cmdNo = 1 /\ (Sent("run_params") \/ Told("params"))
           \/ cmdNo = 2 /\ (Sent("run_settings") \/ Told("settings"))
           \/ cmdNo = 3 /\ (Sent("load_script") \/ (Told("1") /\ Early))
           \/ cmdNo = 4 /\ Sent("repeat_run") /\ Early
           \/ /\ cmdNo \in 1..3
              /\ Sent("status") \/ \E r \in {"0", "error", "Idle"} : Told(r)
     \/ /\ control = "Repeat_Run" /\ Early
        /\ \/ cmdNo = 4 /\ Told("1")
           \/ cmdNo = 5 /\ (Sent("status") \/ Told("Repeat_Run"))

Stopping == script = "stop" /\ cmdNo = 1 /\ (Sent("stop") \/ Told("1"))

(* LWDAQ has stopped, or is about to, and is asked again whether it has.   *)
Watched ==
  /\ control \in {"Stop", "Idle"} /\ ~Told("Repeat_Run") /\ ~Told("Wait")
  /\ \/ statusTimer \/ Sent("status")
     \/ \E r \in {"Stop", "Idle", "error"} : Told(r)

Course == socket = "up" =>
  /\ lwdaqState = "CONNECTING" =>
       Handshake \/ (script = "init" /\ Done) \/ Resting \/ Begun
  /\ lwdaqState = "IDLE" => Resting \/ Begun
  /\ lwdaqState = "RUN" => Done \/ Stopping
  /\ lwdaqState = "STOP" => Done /\ Watched
  /\ Told("Stop") => control \in {"Stop", "Idle"}

CourseVars == <<socket, script, cmdNo, commands, replies, lwdaqState,
                statusTimer, control, step, executing>>

LEMMA CourseSame == ASSUME Course, UNCHANGED CourseVars PROVE Course'
BY DEF Course, CourseVars, Handshake, Done, Polls, Resting, Nothing, Begun,
       Early, Stopping, Watched, Sent, Told

(* The run list is begun.                                                  *)
LEMMA CourseStart ==
  ASSUME Chain, Nothing, control = "Idle",
         lwdaqState \in {"IDLE", "CONNECTING"},
         Cli!StartRun, control' = control
  PROVE  Course'
<1>1. /\ Cli!Write("run_params") /\ script' = "run" /\ cmdNo' = 1
      /\ UNCHANGED <<socket, replies, lwdaqState>>
  BY DEF Cli!StartRun, Cli!StartScript, Cli!NewScript
<1>2. socket = "up" => Sent("run_params")'
  BY <1>1, WriteOne DEF Lw!Command
<1>3. \A r : ~Told(r)'
  BY <1>1, Single DEF Nothing, Told
<1> QED
  BY <1>1, <1>2, <1>3 DEF Course, Begun

(* The stop list is begun.                                                 *)
LEMMA CourseStop ==
  ASSUME Chain, Nothing, lwdaqState = "RUN", Cli!SendStop
  PROVE  Course'
<1>1. /\ Cli!Write("stop") /\ script' = "stop" /\ cmdNo' = 1
      /\ UNCHANGED <<socket, replies, lwdaqState>>
  BY DEF Cli!SendStop, Cli!StartScript, Cli!NewScript
<1>2. socket = "up" => Sent("stop")'
  BY <1>1, WriteOne DEF Lw!Command
<1>3. \A r : ~Told(r)'
  BY <1>1, Single DEF Nothing, Told
<1> QED
  BY <1>1, <1>2, <1>3 DEF Course, Stopping

(* The status is asked for again.                                          *)
LEMMA CoursePoll ==
  ASSUME Chain, OneAtATime, Talk, Course, Nothing, Cli!StatusTimeout,
         UNCHANGED <<control, step, executing>>
  PROVE  Course'
<1>1. /\ UNCHANGED <<socket, script, cmdNo, replies, lwdaqState>>
      /\ \A r : ~Told(r) /\ ~Told(r)'
      /\ \A c : ~Sent(c)
  BY Single DEF Cli!StatusTimeout, Nothing, Told, Sent
<1>2. CASE lwdaqState \in {"IDLE", "CONNECTING"}
  <2>1. UNCHANGED commands
    BY <1>2 DEF Cli!StatusTimeout, Cli!IsConnected
  <2>2. Nothing'
    BY <1>1, <2>1 DEF Nothing
  <2> QED
    BY <1>1, <1>2, <2>1, <2>2 DEF Course, Handshake, Done, Polls, Resting,
                                  Begun, Sent, Told
<1>3. CASE lwdaqState \in {"RUN", "STOP"} /\ socket = "up"
  <2>1. Done
    BY <1>1, <1>3 DEF Course, Stopping
  <2>2. Sent("status")'
    BY <1>3, WriteOne DEF Cli!StatusTimeout, Cli!IsConnected, Lw!Command
  <2>3. Done'
    BY <1>1, <2>1, <2>2, Single DEF Done, Polls, Sent
  <2>4. lwdaqState = "STOP" => Watched'
    BY <1>1, <1>3, <2>2 DEF Course, Watched
  <2> QED
    BY <1>1, <1>3, <2>3, <2>4 DEF Course
<1>4. CASE socket # "up"
  BY <1>1, <1>4 DEF Course
<1> QED
  BY <1>2, <1>3, <1>4, Parts DEF Cli!TypeOK, Cli!LwdaqState

(* What the lists of a run and of a stop say.                              *)
LEMMA RunList ==
  /\ Cli!Ret("run", FALSE, 0) = "params" /\ Cli!Cmd("run", FALSE, 1) = "run_settings"
  /\ Cli!Ret("run", FALSE, 1) = "settings" /\ Cli!Cmd("run", FALSE, 2) = "load_script"
  /\ Cli!Ret("run", FALSE, 2) = "1" /\ Cli!Cmd("run", FALSE, 3) = "repeat_run"
  /\ Cli!Ret("run", FALSE, 3) = "1" /\ Cli!Cmd("run", FALSE, 4) = "status"
  /\ Cli!Ret("stop", FALSE, 0) = "1" /\ Cli!Cmd("stop", FALSE, 1) = "status"
<1> USE DEF Cli!Ret, Cli!Cmd, Cli!Script
<1>1. /\ Cli!Ret("run", FALSE, 0) = "params" /\ Cli!Cmd("run", FALSE, 1) = "run_settings"
      /\ Cli!Ret("run", FALSE, 1) = "settings" /\ Cli!Cmd("run", FALSE, 2) = "load_script"
  BY DEF Cli!RunScript
<1>2. /\ Cli!Ret("run", FALSE, 2) = "1" /\ Cli!Cmd("run", FALSE, 3) = "repeat_run"
      /\ Cli!Ret("run", FALSE, 3) = "1" /\ Cli!Cmd("run", FALSE, 4) = "status"
  BY DEF Cli!RunScript
<1>3. Cli!Ret("stop", FALSE, 0) = "1" /\ Cli!Cmd("stop", FALSE, 1) = "status"
  BY DEF Cli!StopScript
<1> QED
  BY <1>1, <1>2, <1>3

(* What is read after the handshake.                                       *)
LEMMA LaterRead ==
  ASSUME Chain, Talk, ~Handshake, socket = "up", NEW r \in Cli!Line, Told(r),
         commands = <<>>, Cli!ReadStatus(r)
  PROVE  /\ Cli!IsError(r) =>
              Sent("status")' /\ UNCHANGED <<lwdaqState, cmdNo, statusTimer>>
         /\ ~Cli!IsError(r) =>
              /\ lwdaqState' = Cli!StateOf(r)
              /\ statusTimer' = IF Cli!IsState(r) THEN r = "Stop" ELSE statusTimer
              /\ IF /\ Cli!Matches(r, Cli!Ret(script, patched, cmdNo - 1))
                    /\ cmdNo < Cli!Length(script)
                 THEN /\ commands' = <<Cli!Cmd(script, patched, cmdNo)>>
                      /\ cmdNo' = cmdNo + 1
                 ELSE commands' = <<>> /\ cmdNo' = cmdNo
         /\ UNCHANGED <<script, socket>>
         /\ script # "init" => patched = FALSE
<1>1. r # "sockinfo" /\ (script # "init" => ~patched) /\ patched \in BOOLEAN
  BY Parts DEF Talk, Cli!TypeOK
<1>2. patched' = patched
  BY <1>1 DEF Cli!ReadStatus
<1>3. \A c : Cli!Write(c) => commands' = <<c>>
  BY Single DEF Cli!Write
<1> QED
  BY <1>1, <1>2, <1>3 DEF Cli!ReadStatus, Sent

(* Nothing more of the list is sent when all of it has been.               *)
LEMMA ReadDone ==
  ASSUME Chain, Talk, ~Handshake, socket = "up", NEW r \in Cli!Line, Told(r),
         commands = <<>>, replies' = <<>>, Cli!ReadStatus(r),
         cmdNo = Cli!Length(script)
  PROVE  /\ Done' /\ (~Cli!IsError(r) => Nothing')
         /\ UNCHANGED <<script, socket>>
<1>1. Cli!Length(script) \in Nat
  BY Parts DEF Cli!TypeOK, Cli!Length, Cli!ScriptName
<1>2. /\ cmdNo' = cmdNo /\ script' = script
      /\ Cli!IsError(r) => commands' = <<"status">>
      /\ ~Cli!IsError(r) => commands' = <<>>
  <2>1. ~(cmdNo < Cli!Length(script))
    BY <1>1
  <2> QED
    BY <2>1, LaterRead, Zenon DEF Sent
<1>3. Polls'
  BY <1>2, Single DEF Polls, Sent
<1>4. Cli!Length(script)' = Cli!Length(script)
  BY <1>2
<1>5. ~Cli!IsError(r) => Nothing'
  BY <1>2 DEF Nothing
<1> QED
  BY <1>2, <1>3, <1>4, <1>5 DEF Done, Cli!ReadStatus

LEMMA ReadBegun ==
  ASSUME Chain, Talk, ~Handshake, socket = "up", NEW r \in Cli!Line, Told(r),
         commands = <<>>, replies' = <<>>, Cli!ReadStatus(r), Begun,
         UNCHANGED <<control, step, executing>>
  PROVE  \/ lwdaqState' = lwdaqState /\ (Begun' \/ Resting')
         \/ lwdaqState' = "IDLE" /\ Resting'
         \/ lwdaqState' = "RUN" /\ Done'
<1>1. /\ script = "run" /\ script' = "run" /\ Cli!Length(script) = 5
      /\ patched = FALSE
  BY LaterRead, Lengths DEF Begun
<1>2. /\ \A q : Told(q) => q = r
      /\ \A c : ~Sent(c)
  BY Single DEF Told, Sent
<1>3. ~Cli!IsError(r) =>
        /\ lwdaqState' = Cli!StateOf(r)
        /\ IF Cli!Matches(r, Cli!Ret("run", FALSE, cmdNo - 1)) /\ cmdNo < 5
           THEN /\ commands' = <<Cli!Cmd("run", FALSE, cmdNo)>>
                /\ cmdNo' = cmdNo + 1
           ELSE commands' = <<>> /\ cmdNo' = cmdNo
  BY <1>1, LaterRead, Zenon
<1>4. CASE Cli!IsError(r)
  <2>1. cmdNo \in 1..3 /\ control = "Idle"
    BY <1>2, <1>4 DEF Begun, Cli!IsError
  <2>2. Sent("status")' /\ cmdNo' = cmdNo /\ lwdaqState' = lwdaqState
    BY <1>4, LaterRead
  <2> QED
    BY <1>1, <2>1, <2>2 DEF Begun
<1>5. CASE r = "Idle"
  <2>1. cmdNo \in 1..3 /\ control = "Idle"
    BY <1>2, <1>5 DEF Begun
  <2>2. ~Cli!IsError(r) /\ Cli!StateOf(r) = "IDLE"
    BY <1>5 DEF Cli!IsError, Cli!StateOf
  <2>3. ~Cli!Matches(r, Cli!Ret("run", FALSE, cmdNo - 1))
    <3>1. \A x \in {"params", "settings", "1"} : ~Cli!Matches("Idle", x)
      BY DEF Cli!Matches, Cli!Ending
    <3>2. cmdNo - 1 \in {0, 1, 2}
      BY <2>1
    <3>3. Cli!Ret("run", FALSE, cmdNo - 1) \in {"params", "settings", "1"}
      BY <3>2, RunList, Zenon
    <3> QED
      BY <1>5, <3>1, <3>3
  <2>4. lwdaqState' = "IDLE" /\ commands' = <<>>
    BY <1>3, <2>2, <2>3
  <2> QED
    BY <2>1, <2>4 DEF Resting, Nothing
<1>6. ASSUME r \in {"params", "settings", "1"}
      PROVE  /\ lwdaqState' = lwdaqState
             /\ \A k : cmdNo = k /\ k < 5 /\ Cli!Ret("run", FALSE, k - 1) = r =>
                   /\ commands' = <<Cli!Cmd("run", FALSE, k)>>
                   /\ cmdNo' = k + 1
  <2>1. /\ ~Cli!IsError(r) /\ Cli!StateOf(r) = lwdaqState
        /\ Cli!Matches(r, r)
    BY <1>6 DEF Cli!IsError, Cli!StateOf, Cli!Matches, Cli!Ending
  <2> QED
    BY <1>3, <2>1, Zenon
<1>7. CASE cmdNo = 1 /\ Told("params") /\ control = "Idle"
  <2>1. r = "params" /\ 1 - 1 = 0 /\ 1 < 5 /\ 1 + 1 = 2
    BY <1>2, <1>7
  <2>2. lwdaqState' = lwdaqState /\ Sent("run_settings")' /\ cmdNo' = 2
    BY <1>6, <1>7, <2>1, RunList, Zenon DEF Sent
  <2> QED
    BY <1>1, <1>7, <2>2 DEF Begun
<1>8. CASE cmdNo = 2 /\ Told("settings") /\ control = "Idle"
  <2>1. r = "settings" /\ 2 - 1 = 1 /\ 2 < 5 /\ 2 + 1 = 3
    BY <1>2, <1>8
  <2>2. lwdaqState' = lwdaqState /\ Sent("load_script")' /\ cmdNo' = 3
    BY <1>6, <1>8, <2>1, RunList, Zenon DEF Sent
  <2> QED
    BY <1>1, <1>8, <2>2 DEF Begun
<1>9. CASE cmdNo = 3 /\ Told("1") /\ control = "Idle" /\ Early
  <2>1. r = "1" /\ 3 - 1 = 2 /\ 3 < 5 /\ 3 + 1 = 4
    BY <1>2, <1>9
  <2>2. lwdaqState' = lwdaqState /\ Sent("repeat_run")' /\ cmdNo' = 4
    BY <1>6, <1>9, <2>1, RunList, Zenon DEF Sent
  <2> QED
    BY <1>1, <1>9, <2>2 DEF Begun, Early
<1>10. CASE cmdNo = 4 /\ Told("1") /\ control = "Repeat_Run" /\ Early
  <2>1. r = "1" /\ 4 - 1 = 3 /\ 4 < 5 /\ 4 + 1 = 5
    BY <1>2, <1>10
  <2>2. lwdaqState' = lwdaqState /\ Sent("status")' /\ cmdNo' = 5
    BY <1>6, <1>10, <2>1, RunList, Zenon DEF Sent
  <2> QED
    BY <1>1, <1>10, <2>2 DEF Begun, Early
<1>11. CASE cmdNo = 5 /\ Told("Repeat_Run")
  <2>1. r = "Repeat_Run"
    BY <1>2, <1>11
  <2>2. ~Cli!IsError(r) /\ Cli!StateOf(r) = "RUN"
    BY <2>1 DEF Cli!IsError, Cli!StateOf
  <2> QED
    BY <1>1, <1>3, <1>11, <2>2, ReadDone
<1> QED
  BY <1>2, <1>4, <1>5, <1>7, <1>8, <1>9, <1>10, <1>11 DEF Begun, Cli!IsError

LEMMA CourseRead ==
  ASSUME Chain, OneAtATime, Talk, Course, ReadyRead PROVE Course'
<1>1. PICK r \in Cli!Line :
             /\ Told(r) /\ commands = <<>> /\ socket = "up"
             /\ buffer' = <<>> /\ replies' = <<>>
             /\ Cli!ReadStatus(r)
  BY ReadOne
<1>2. /\ \A q : ~Told(q)'
      /\ \A q : Told(q) => q = r
      /\ \A c : ~Sent(c)
      /\ ~Nothing
  BY <1>1, Single DEF Told, Sent, Nothing
<1>3. UNCHANGED <<control, step, executing, script, socket>>
  BY <1>1 DEF ReadyRead, lwdaq, Cli!ReadStatus
<1>4. lwdaqState \in {"CONNECTING", "IDLE", "RUN", "STOP"}
      /\ cmdNo <= Cli!Length(script)
  BY Parts DEF Cli!TypeOK, Cli!LwdaqState, Cli!Length, Cli!ScriptName
<1>5. CASE Handshake
  <2>1. /\ script = "init" /\ cmdNo \in 1..5
        /\ lwdaqState' = "CONNECTING" /\ cmdNo' = cmdNo + 1
        /\ cmdNo = 5 => Sent("status")'
    BY <1>1, <1>5, FirstRead
  <2>2. cmdNo < 5 => Handshake'
    BY <1>1, <1>3, <2>1 DEF Handshake
  <2>3. cmdNo = 5 => script' = "init" /\ Done'
    BY <1>3, <2>1, Lengths, Single DEF Done, Polls, Sent
  <2> QED
    BY <1>2, <2>1, <2>2, <2>3 DEF Course
<1>6. CASE ~Handshake /\ Done
  <2>1. Done' /\ (~Cli!IsError(r) => Nothing')
    BY <1>1, <1>6, ReadDone DEF Done
  <2>2. CASE Cli!IsError(r)
    <3>1. lwdaqState' = lwdaqState /\ Sent("status")'
      BY <1>1, <1>6, <2>2, LaterRead
    <3>2. lwdaqState = "IDLE" => Begun /\ cmdNo # 5
      BY <1>1, <1>2, <2>2 DEF Course, Resting, Begun, Cli!IsError
    <3>3. lwdaqState = "CONNECTING" => script = "init" \/ (Begun /\ cmdNo # 5)
      BY <1>1, <1>2, <1>6, <2>2 DEF Course, Resting, Begun, Cli!IsError
    <3>4. Begun => cmdNo = 5
      BY <1>6, Lengths DEF Begun, Done
    <3>5. lwdaqState = "STOP" => Watched'
      BY <1>1, <1>2, <1>3, <3>1 DEF Course, Watched
    <3> QED
      BY <1>2, <1>3, <1>4, <2>1, <3>1, <3>2, <3>3, <3>4, <3>5 DEF Course
  <2>3. CASE r = "Idle"
    <3>1. lwdaqState' = "IDLE" /\ ~Cli!IsError(r)
      BY <1>1, <1>6, <2>3, LaterRead DEF Cli!IsError, Cli!StateOf
    <3>2. control = "Idle"
      BY <1>1, <2>3 DEF Talk
    <3> QED
      BY <1>2, <1>3, <2>1, <3>1, <3>2 DEF Course, Resting
  <2>4. CASE r = "Repeat_Run"
    <3>1. lwdaqState' = "RUN"
      BY <1>1, <1>6, <2>4, LaterRead DEF Cli!IsError, Cli!StateOf
    <3> QED
      BY <1>2, <2>1, <3>1 DEF Course
  <2>5. CASE r = "Stop"
    <3>1. lwdaqState' = "STOP" /\ statusTimer' = TRUE
      BY <1>1, <1>6, <2>5, LaterRead
         DEF Cli!IsError, Cli!StateOf, Cli!IsState
    <3>2. control \in {"Stop", "Idle"}
      BY <1>1, <2>5 DEF Course
    <3>3. Watched'
      BY <1>2, <1>3, <3>1, <3>2 DEF Watched
    <3> QED
      BY <1>2, <2>1, <3>1, <3>3 DEF Course
  <2>6. CASE ~Cli!IsError(r) /\ r \notin {"Idle", "Repeat_Run", "Stop"}
    <3>1. lwdaqState' = lwdaqState /\ statusTimer' = statusTimer
      BY <1>1, <1>6, <2>6, LaterRead DEF Cli!StateOf, Cli!IsState
    <3>2. lwdaqState # "IDLE"
      <4>1. lwdaqState = "IDLE" => Begun
        BY <1>1, <1>2 DEF Course, Resting
      <4>2. Begun => cmdNo = 5
        BY <1>6, Lengths DEF Begun, Done
      <4> QED
        BY <1>2, <2>6, <4>1, <4>2 DEF Begun
    <3>3. lwdaqState = "CONNECTING" => script = "init"
      <4>1. lwdaqState = "CONNECTING" => script = "init" \/ Begun
        BY <1>1, <1>2, <1>6 DEF Course, Resting
      <4>2. Begun => cmdNo = 5
        BY <1>6, Lengths DEF Begun, Done
      <4> QED
        BY <1>2, <2>6, <4>1, <4>2 DEF Begun
    <3>4. lwdaqState = "STOP" => Watched'
      BY <1>1, <1>2, <1>3, <2>6, <3>1 DEF Course, Watched, Cli!IsError
    <3> QED
      BY <1>2, <1>3, <2>1, <3>1, <3>2, <3>3, <3>4 DEF Course
  <2> QED
    BY <2>2, <2>3, <2>4, <2>5, <2>6
<1>7. CASE ~Handshake /\ Begun /\ lwdaqState \in {"IDLE", "CONNECTING"}
  <2>1. \/ lwdaqState' = lwdaqState /\ (Begun' \/ Resting')
        \/ lwdaqState' = "IDLE" /\ Resting'
        \/ lwdaqState' = "RUN" /\ Done'
    BY <1>1, <1>3, <1>7, ReadBegun
  <2> QED
    BY <1>2, <1>7, <2>1 DEF Course
<1>8. CASE ~Handshake /\ Stopping /\ lwdaqState = "RUN"
  <2>1. r = "1" /\ script = "stop" /\ cmdNo = 1 /\ Cli!Length(script) = 2
    BY <1>2, <1>8, Lengths DEF Stopping
  <2>2. /\ ~Cli!IsError(r) /\ Cli!StateOf(r) = lwdaqState
        /\ Cli!Matches(r, "1")
    BY <2>1 DEF Cli!IsError, Cli!StateOf, Cli!Matches, Cli!Ending
  <2>3. cmdNo < Cli!Length(script) /\ cmdNo - 1 = 0 /\ cmdNo + 1 = 2
    BY <2>1
  <2>4. patched = FALSE
    BY <1>1, <1>8, <2>1, LaterRead
  <2>5. Cli!Matches(r, Cli!Ret(script, patched, cmdNo - 1))
        /\ Cli!Cmd(script, patched, cmdNo) = "status"
    BY <2>1, <2>2, <2>3, <2>4, RunList, Zenon
  <2>6. /\ lwdaqState' = "RUN" /\ script' = "stop"
        /\ commands' = <<"status">> /\ cmdNo' = 2
    BY <1>1, <1>8, <2>1, <2>2, <2>3, <2>5, LaterRead, Zenon
  <2>7. Done'
    BY <2>6, Lengths, Single DEF Done, Polls, Sent
  <2> QED
    BY <1>2, <2>6, <2>7 DEF Course
<1> QED
  BY <1>1, <1>2, <1>4, <1>5, <1>6, <1>7, <1>8 DEF Course, Resting

(* What LWDAQ does and answers after the handshake.                        *)
LEMMA LaterReply ==
  ASSUME Chain, tool, NEW c, NEW r, Sent(c), replies = <<>>, Told(r)',
         Lw!SystemServer
  PROVE  /\ c = "status" => r = control /\ UNCHANGED <<control, step, executing>>
         /\ c = "stop" => r = "1"
         /\ c = "run_params" =>
              r \in {"params", "error"} /\ UNCHANGED <<control, step, executing>>
         /\ c = "run_settings" =>
              r \in {"settings", "error"} /\ UNCHANGED <<control, step, executing>>
         /\ c = "load_script" =>
              r \in {"0", "1"} /\ control' = control /\ (control = "Idle" => step' = 0)
         /\ c = "repeat_run" =>
              r = "1" /\ control' = "Repeat_Run" /\ UNCHANGED <<step, executing>>
<1>1. \A d, q : Lw!Interpret(d, q) => d = c /\ q = r
  BY Replied
<1>2. CASE Lw!ServerInfo \/ Lw!SetServerInfo \/ Lw!SetUploadTarget
           \/ Lw!SetUploadStepResult \/ Lw!RunTool
  <2>1. c \in {"server_info", "set_server_info", "set_upload_target",
               "set_upload_step_result", "run_tool"}
    BY <1>1, <1>2 DEF Lw!ServerInfo, Lw!SetServerInfo, Lw!SetUploadTarget,
       Lw!SetUploadStepResult, Lw!RunTool
  <2> QED
    BY <2>1
<1>3. CASE Lw!RunParams \/ Lw!RunSettings
  <2>1. UNCHANGED <<control, step, executing>>
    BY <1>3 DEF Lw!RunParams, Lw!RunSettings, Lw!lwdaqVars, Lw!toolVars
  <2>2. \/ c = "run_params" /\ r \in {"params", "error"}
        \/ c = "run_settings" /\ r \in {"settings", "error"}
    <3>1. CASE Lw!RunParams
      <4>1. \E q \in {"params", "error"} : Lw!Interpret("run_params", q)
        BY <3>1, Zenon DEF Lw!RunParams
      <4> QED
        BY <1>1, <4>1, Zenon
    <3>2. CASE Lw!RunSettings
      <4>1. \E q \in {"settings", "error"} : Lw!Interpret("run_settings", q)
        BY <3>2, Zenon DEF Lw!RunSettings
      <4> QED
        BY <1>1, <4>1, Zenon
    <3> QED
      BY <1>3, <3>1, <3>2
  <2> QED
    BY <2>1, <2>2
<1>4. CASE Lw!LoadScript
  <2>1. \/ control # "Idle" /\ Lw!Interpret("load_script", "0")
           /\ UNCHANGED control
        \/ /\ step' = 0 /\ UNCHANGED control
           /\ \E q \in {"0", "1"} : Lw!Interpret("load_script", q)
    BY <1>4 DEF Lw!LoadScript, Lw!lwdaqVars, Lw!toolVars
  <2>2. c = "load_script" /\ r \in {"0", "1"} /\ control' = control
        /\ (control = "Idle" => step' = 0)
    BY <1>1, <2>1, Zenon
  <2> QED
    BY <2>2
<1>5. CASE Lw!CommandRepeatRun
  BY <1>1, <1>5 DEF Lw!CommandRepeatRun, Lw!lwdaqVars, Lw!toolVars
<1>6. CASE Lw!CommandStop
  BY <1>1, <1>6 DEF Lw!CommandStop
<1>7. CASE Lw!Status
  BY <1>1, <1>7 DEF Lw!Status, Lw!lwdaqVars, Lw!toolVars
<1> QED
  BY <1>2, <1>3, <1>4, <1>5, <1>6, <1>7 DEF Lw!SystemServer

LEMMA BegunReply ==
  ASSUME Chain, tool, Begun, NEW c, NEW r, Sent(c), replies = <<>>, Told(r)',
         Lw!SystemServer, UNCHANGED <<script, cmdNo>>
  PROVE  Begun' /\ r # "Stop"
<1>1. /\ c = "status" => r = control /\ UNCHANGED <<control, step, executing>>
      /\ c = "run_params" =>
           r \in {"params", "error"} /\ UNCHANGED <<control, step, executing>>
      /\ c = "run_settings" =>
           r \in {"settings", "error"} /\ UNCHANGED <<control, step, executing>>
      /\ c = "load_script" =>
           r \in {"0", "1"} /\ control' = control /\ (control = "Idle" => step' = 0)
      /\ c = "repeat_run" =>
           r = "1" /\ control' = "Repeat_Run" /\ UNCHANGED <<step, executing>>
  BY LaterReply, Zenon
<1>2. /\ \A q : ~Told(q)
      /\ \A d : Sent(d) => d = c
  BY Single DEF Told, Sent
<1>3. CASE control = "Idle" /\ cmdNo = 1 /\ c = "run_params"
  BY <1>1, <1>3 DEF Begun
<1>4. CASE control = "Idle" /\ cmdNo = 2 /\ c = "run_settings"
  BY <1>1, <1>4 DEF Begun
<1>5. CASE control = "Idle" /\ cmdNo = 3 /\ c = "load_script"
  BY <1>1, <1>5 DEF Begun, Early
<1>6. CASE control = "Idle" /\ cmdNo = 4 /\ c = "repeat_run" /\ Early
  BY <1>1, <1>6 DEF Begun, Early
<1>7. CASE control = "Idle" /\ cmdNo \in 1..3 /\ c = "status"
  BY <1>1, <1>7 DEF Begun
<1>8. CASE control = "Repeat_Run" /\ Early /\ cmdNo = 5 /\ c = "status"
  BY <1>1, <1>8 DEF Begun, Early
<1> QED
  BY <1>2, <1>3, <1>4, <1>5, <1>6, <1>7, <1>8 DEF Begun

LEMMA CourseCommand ==
  ASSUME Chain, OneAtATime, Talk, Course, LwdaqCommand PROVE Course'
<1>1. PICK c \in Lw!Command, r \in Cli!Line :
             /\ Sent(c) /\ replies = <<>> /\ socket = "up"
             /\ commands' = <<>> /\ Told(r)'
             /\ Lw!Interpret(c, r) /\ Lw!SystemServer
  BY CommandOne
<1>2. UNCHANGED <<script, cmdNo, socket, lwdaqState, statusTimer>>
  BY DEF LwdaqCommand, client
<1>3. /\ \A d : Sent(d) => d = c
      /\ \A q : ~Told(q)
      /\ \A d : ~Sent(d)'
      /\ \A q : Told(q)' => q = r
      /\ ~Nothing
  BY <1>1, Single DEF Sent, Told, Nothing
<1>4. lwdaqState \in {"CONNECTING", "IDLE", "RUN", "STOP"}
  BY Parts DEF Cli!TypeOK, Cli!LwdaqState
<1>5. CASE Handshake
  <2>1. Handshake' /\ lwdaqState' = "CONNECTING"
    BY <1>2, <1>5 DEF Handshake, Talk
  <2>2. Talk'
    BY TalkCommand
  <2>3. ~Told("Stop")'
    <3>1. Told(FirstReplies[cmdNo])'
      BY <1>3, <2>1, <2>2 DEF Talk, Stage, Told
    <3>2. cmdNo \in 1..5
      BY <1>1, <1>5, Parts, Lengths DEF Cli!IndexSafe, Handshake
    <3>3. FirstReplies[cmdNo] # "Stop"
      BY <3>2 DEF FirstReplies
    <3>4. FirstReplies[cmdNo] = r
      BY <1>2, <1>3, <3>1, Zenon DEF Told
    <3> QED
      BY <1>3, <3>3, <3>4
  <2> QED
    BY <2>1, <2>3 DEF Course
<1>6. CASE ~Handshake
  <2>1. tool
    BY <1>1, <1>6 DEF Talk
  <2>2. /\ c = "status" => r = control /\ UNCHANGED <<control, step, executing>>
        /\ c = "stop" => r = "1"
    BY <1>1, <2>1, LaterReply, Zenon
  <2>3. Done => c = "status" /\ Done' /\ (Told("Stop")' => control' = "Stop")
    BY <1>1, <1>2, <1>3, <2>2 DEF Done, Polls
  <2>4. Begun => Begun' /\ ~Told("Stop")'
    BY <1>1, <1>2, <1>3, <2>1, BegunReply
  <2>5. Stopping => Stopping' /\ ~Told("Stop")'
    BY <1>1, <1>2, <1>3, <2>2 DEF Stopping
  <2>6. Done /\ Watched => Watched'
    BY <1>1, <1>2, <1>3, <2>2 DEF Done, Polls, Watched
  <2> QED
    BY <1>1, <1>2, <1>3, <1>4, <1>6, <2>3, <2>4, <2>5, <2>6
       DEF Course, Resting
<1> QED
  BY <1>5, <1>6

(* An event taken from the queue, and a step that ends: what it does to    *)
(* the Acquisifier, and that nothing is said when it is Idle.              *)
LEMMA StepControl ==
  ASSUME Prompt, Chain, OneAtATime, Talk, LwdaqStep
  PROVE  /\ control \in {"Stop", "Idle"} => control' \in {"Stop", "Idle"}
         /\ control = "Idle" =>
              control' = "Idle" /\ (Nothing => Nothing')
         /\ ~Nothing => Lw!QueueStep /\ UNCHANGED replies
         /\ Nothing => \A r : Told(r)' => r \in Uploads
<1>1. CASE Lw!QueueStep /\ UNCHANGED replies
  <2>1. /\ control \in {"Stop", "Idle"} => control' \in {"Stop", "Idle"}
        /\ control = "Idle" => control' = "Idle"
    BY <1>1 DEF Lw!QueueStep, Lw!EventStopped
  <2>2. Nothing => Nothing' /\ \A r : ~Told(r)'
    BY <1>1, StepOne, Single DEF Nothing, Told
  <2> QED
    BY <1>1, <2>1, <2>2
<1>2. ASSUME NEW ok \in BOOLEAN, Lw!StepEnd(ok), Nothing,
             \/ UNCHANGED replies
             \/ \E r \in Uploads : upload /\ target /\ Told(r)'
      PROVE  /\ control \in {"Stop", "Idle"} => control' \in {"Stop", "Idle"}
             /\ control = "Idle" =>
                  control' = "Idle" /\ (Nothing => Nothing')
             /\ \A r : Told(r)' => r \in Uploads
  <2>1. control \in {"Stop", "Idle"} => control' = "Idle"
    BY <1>2 DEF Lw!StepEnd
  <2>2. \A r : Told(r)' => r \in Uploads
    BY <1>2, Single DEF Nothing, Told
  <2>3. ASSUME control = "Idle" PROVE UNCHANGED replies
    <3>1. ~Gui
      <4>1. Gui => OneEvent
        BY SameLwdaq DEF Chain, LwP!Inv, OneEvent, Lw!OneChain
      <4> QED
        BY <2>3, <4>1, EventStep
    <3>2. ~(upload /\ target)
      BY <1>2, <3>1, HandshakeOver, Parts
    <3> QED
      BY <1>2, <3>2
  <2> QED
    BY <1>2, <2>1, <2>2, <2>3, StepOne DEF Nothing
<1> QED
  BY <1>1, <1>2, StepOne

(* A step does not say Wait while the first one is to come or under way.   *)
LEMMA StaysEarly ==
  ASSUME Chain, Lw!QueueStep, Early, control \in {"Idle", "Repeat_Run"}
  PROVE  Early' /\ control' = control
<1>1. step = 0 /\ ~executing /\ Lw!LastStep >= 1 /\ Lw!LastStep \in Nat
  BY NumStepsAssumption DEF Early, Lw!QueueStep, Lw!LastStep
<1>2. executing' /\ control' = control
  BY <1>1 DEF Lw!QueueStep, Lw!BeginStep, Lw!EventStopped
<1> QED
  BY <1>2 DEF Early

LEMMA CourseStep ==
  ASSUME Prompt, Chain, OneAtATime, Talk, Course, LwdaqStep PROVE Course'
<1>1. UNCHANGED <<socket, script, cmdNo, lwdaqState, statusTimer, commands>>
  BY StepOne DEF client
<1>2. CASE Handshake
  <2>1. ~Nothing
    BY <1>2, HandshakeOver DEF Handshake
  <2> QED
    BY <1>1, <1>2, <2>1, StepControl DEF Course, Handshake, Told, Talk
<1>3. CASE Nothing
  <2>1. /\ \A r : Told(r)' => r \in Uploads
        /\ \A r : ~Told(r)
        /\ \A c : ~Sent(c) /\ ~Sent(c)'
    BY <1>1, <1>3, StepControl, Single DEF Nothing, Told, Sent
  <2>2. ~Begun /\ ~Stopping
    BY <2>1 DEF Begun, Stopping
  <2>3. Done => Done'
    BY <1>1, <2>1 DEF Done, Polls
  <2>4. Resting => Resting'
    BY <1>3, StepControl DEF Resting
  <2>5. Watched => Watched'
    BY <1>1, <2>1, StepControl DEF Watched, Uploads
  <2>6. ~Told("Stop")'
    BY <2>1 DEF Uploads
  <2>7. Handshake' => Handshake
    BY <1>1 DEF Handshake
  <2> QED
    BY <1>1, <1>2, <2>2, <2>3, <2>4, <2>5, <2>6 DEF Course
<1>4. CASE ~Nothing
  <2>1. Lw!QueueStep /\ UNCHANGED replies
    BY <1>4, StepControl
  <2>2. \A r : Told(r)' <=> Told(r)
    BY <2>1 DEF Told
  <2>3. \A c : Sent(c)' <=> Sent(c)
    BY <1>1 DEF Sent
  <2>4. Done => Done'
    BY <1>1, <2>3 DEF Done, Polls
  <2>5. Stopping => Stopping'
    BY <1>1, <2>2, <2>3 DEF Stopping
  <2>6. Watched => Watched'
    BY <1>1, <2>2, <2>3, StepControl DEF Watched
  <2>7. Begun => Begun'
    <3>1. control \in {"Idle", "Repeat_Run"} /\ Early =>
             Early' /\ control' = control
      BY <2>1, StaysEarly
    <3>2. control = "Idle" => control' = "Idle"
      BY StepControl
    <3> QED
      BY <1>1, <2>2, <2>3, <3>1, <3>2 DEF Begun
  <2>8. ~Resting
    BY <1>4 DEF Resting
  <2>9. Told("Stop")' => (Told("Stop") /\
          (control \in {"Stop", "Idle"} => control' \in {"Stop", "Idle"}))
    BY <2>2, StepControl
  <2> QED
    BY <1>1, <1>2, <2>4, <2>5, <2>6, <2>7, <2>8, <2>9 DEF Course
<1> QED
  BY <1>3, <1>4

(* Nothing is being measured, and nothing asked that could begin it.       *)
Rest ==
  /\ control = "Idle" /\ (Nothing \/ script = "init")
  /\ \A r \in {"Repeat_Run", "Wait", "Stop"} : ~Told(r)

(* During a waiting period LWDAQ rests, and when a start is to be handled  *)
(* it does so, too; the mode of the server is the one the clients have     *)
(* set, but for a stop.                                                    *)
Clock ==
  /\ waitingTimer =>
       /\ Rest /\ ~Pending("start")
       /\ adepoState \in {"WAITING", "CONNECTING"}
       /\ mode = "MONITORING" /\ runFile.mode = "MONITORING"
  /\ mode = "CLOSURE" \/ mode = runFile.mode
  /\ Pending("start") =>
       control = "Idle" /\ lwdaqState \in {"IDLE", "CONNECTING"}
  /\ \A i \in 1..Len(calls) : calls[i].op = "updateAll" => Len(calls) = 1
  /\ Pending("start") \/
     \A i \in 1..Len(calls) :
       calls[i].op = "updateRun" => calls[i].mode = runFile.mode

LEMMA CourseDown == ASSUME socket' # "up" PROVE Course'
BY DEF Course

LEMMA CourseNext ==
  ASSUME Prompt, Chain, OneAtATime, Talk, Course, Clock, Srv!ShownState,
         [Next]_vars
  PROVE  Course'
<1>1. CASE CallHandled
  <2>1. /\ calls # <<>> /\ calls' = Tail(calls) /\ CallsFit
        /\ UNCHANGED <<control, step, executing>>
    BY <1>1 DEF CallHandled, OneAtATime, lwdaq
  <2>2. CASE Head(calls).op = "start" /\ Start
    <3>1. Nothing /\ control = "Idle" /\ lwdaqState \in {"IDLE", "CONNECTING"}
      BY <2>1, <2>2, CallsOne DEF CallsFit, Clock
    <3>2. CASE Cli!StartRun
      BY <2>1, <3>1, <3>2, CourseStart
    <3> QED
      BY <2>1, <2>2, <3>2, CourseSame
         DEF Start, StartRunIfRemoved, CourseVars, client, connection
  <2>3. CASE Head(calls).op = "stop" /\ Stop
    <3>1. Nothing
      BY <2>1, <2>3, CallsOne DEF CallsFit
    <3>2. CASE lwdaqState = "RUN" /\ Cli!SendStop
      BY <3>1, <3>2, CourseStop
    <3> QED
      BY <2>1, <2>3, <3>2, CourseSame
         DEF Stop, Cli!StopRun, Cli!vars, Cli!clientVars, Cli!timerVars,
             CourseVars, client, connection
  <2>4. CASE UNCHANGED <<client, connection>>
    BY <2>1, <2>4, CourseSame DEF CourseVars, client, connection
  <2> QED
    BY <1>1, <2>2, <2>3, <2>4 DEF CallHandled
<1>2. CASE WaitingTimeout
  <2>1. Nothing /\ control = "Idle" /\ control' = control
    BY <1>2 DEF WaitingTimeout, InTime, Quiet, Nothing, Srv!WaitingTimeout,
       Clock, Rest, lwdaq
  <2>2. lwdaqState \in {"IDLE", "CONNECTING"}
    BY <1>2 DEF WaitingTimeout, Srv!WaitingTimeout, Clock, Srv!ShownState
  <2>3. CASE Cli!StartRun
    BY <2>1, <2>2, <2>3, CourseStart
  <2> QED
    BY <1>2, <2>3, CourseSame DEF WaitingTimeout, StartRunIfRemoved,
       CourseVars, client, connection, lwdaq
<1>3. CASE RunTimeout
  <2>1. Nothing
    BY <1>3 DEF RunTimeout, InTime, Quiet, Nothing
  <2>2. CASE lwdaqState = "RUN" /\ Cli!SendStop
    BY <2>1, <2>2, CourseStop
  <2>3. CASE lwdaqState # "RUN"
    BY <1>3, <2>3, CourseSame DEF RunTimeout, Cli!RunTimeout, CourseVars, lwdaq
  <2> QED
    BY <1>3, <2>2, <2>3 DEF RunTimeout, Cli!RunTimeout, Cli!StopRun
<1>4. CASE StatusTimeout
  BY <1>4, CoursePoll DEF StatusTimeout, InTime, Quiet, Nothing, lwdaq
<1>5. CASE ConnectTimeout
  BY <1>5, CourseDown DEF ConnectTimeout, Cli!ConnectTimeout
<1>6. CASE GotConnected
  <2>1. /\ socket = "connecting" /\ socket' = "up" /\ Nothing
        /\ script' = "init" /\ cmdNo' = 1
        /\ UNCHANGED <<replies, lwdaqState>>
    BY <1>6 DEF GotConnected, Cli!GotConnected, OneAtATime, Talk
  <2>2. lwdaqState' = "CONNECTING" /\ Handshake'
    BY <2>1, Parts DEF Cli!NoConnectionNoState, Handshake
  <2>3. ~Told("Stop")'
    BY <2>1, Single DEF Nothing, Told
  <2> QED
    BY <2>2, <2>3 DEF Course
<1>7. CASE ReadyRead
  BY <1>7, CourseRead
<1>8. CASE LwdaqCommand
  BY <1>8, CourseCommand
<1>9. CASE LwdaqStep
  BY <1>9, CourseStep
<1>10. CASE ConnectFails \/ ConnectionLost \/ LwdaqRestart \/ ServerRestart
  <2>1. socket' # "up"
    BY <1>10 DEF ConnectFails, Cli!ConnectionRefused, Cli!ConnectionFailed,
       ConnectionLost, LwdaqRestart, Cli!GotDisconnected, ServerRestart,
       Cli!Restart
  <2> QED
    BY <2>1, CourseDown
<1>11. CASE ReadyReadThrows \/ ServerCrash \/ Press \/ UNCHANGED vars
  BY <1>11, CourseSame DEF ReadyReadThrows, ServerCrash, Press, vars, client,
     connection, lwdaq, CourseVars
<1> QED
  BY <1>1, <1>2, <1>3, <1>4, <1>5, <1>6, <1>7, <1>8, <1>9, <1>10, <1>11
     DEF Next, Step, Fault

(* After Idle is read no list goes on, but the one of the handshake.       *)
LEMMA IdleEndsList ==
  ASSUME Chain, Talk, ~Handshake, socket = "up", Told("Idle"),
         commands = <<>>, Cli!ReadStatus("Idle"), script # "init"
  PROVE  commands' = <<>>
<1>1. "Idle" \in Cli!Line /\ ~Cli!IsError("Idle")
  BY DEF Cli!Line, Cli!IsError
<1>2. /\ script \in {"run", "stop"} /\ cmdNo >= 1
      /\ cmdNo \in 0..Cli!Length(script)
  BY Parts DEF Cli!TypeOK, Cli!IndexSafe, Cli!Length, Cli!ScriptName
<1>3. patched = FALSE
  BY <1>1, LaterRead
<1>4. ASSUME cmdNo < Cli!Length(script)
      PROVE  ~Cli!Matches("Idle", Cli!Ret(script, FALSE, cmdNo - 1))
  <2>1. \A x \in {"params", "settings", "1"} : ~Cli!Matches("Idle", x)
    BY DEF Cli!Matches, Cli!Ending
  <2>2. \/ script = "run" /\ cmdNo - 1 \in {0, 1, 2, 3}
        \/ script = "stop" /\ cmdNo - 1 = 0
    BY <1>2, <1>4, Lengths
  <2>3. Cli!Ret(script, FALSE, cmdNo - 1) \in {"params", "settings", "1"}
    BY <2>2, RunList, Zenon
  <2> QED
    BY <2>1, <2>3
<1> QED
  BY <1>1, <1>3, <1>4, LaterRead

-----------------------------------------------------------------------------
(***************************************************************************)
(* The waiting period.                                                     *)
(***************************************************************************)
LEMMA RestSame ==
  ASSUME Rest, UNCHANGED <<control, script, commands, replies>> PROVE Rest'
BY DEF Rest, Nothing, Told

LEMMA RestDropped ==
  ASSUME control' = "Idle", Cli!Discard PROVE Rest'
BY Single DEF Rest, Nothing, Told, Cli!Discard

(* The calls, the mode and the timer stay.                                 *)
LEMMA ClockKept ==
  ASSUME Clock, UNCHANGED <<calls, waitingTimer, mode, runFile>>,
         waitingTimer => Rest' /\ adepoState' \in {"WAITING", "CONNECTING"},
         Pending("start") =>
           control' = "Idle" /\ lwdaqState' \in {"IDLE", "CONNECTING"}
  PROVE  Clock'
BY DEF Clock, Pending

LEMMA ClockCalls ==
  ASSUME Chain, OneAtATime, Clock, CallHandled PROVE Clock'
<1>1. /\ calls # <<>> /\ calls' = Tail(calls) /\ CallsFit
      /\ UNCHANGED <<lwdaqState, control>>
      /\ Len(calls) \in Nat /\ Len(calls') = Len(calls) - 1
      /\ 1 \in 1..Len(calls)
      /\ \A i \in 1..Len(calls') : i + 1 \in 1..Len(calls) /\ i + 1 # 1
  BY DEF CallHandled, OneAtATime, lwdaq, Chain, CallOK
<1>2. /\ Head(calls) = calls[1]
      /\ \A i \in 1..Len(calls') : calls'[i] = calls[i+1]
      /\ \A op : Pending(op)' => Pending(op)
  BY <1>1, CallsOne
<1>3. \A i \in 1..Len(calls') : calls'[i].op # "updateAll"
  <2>1. SUFFICES ASSUME NEW i \in 1..Len(calls'), calls'[i].op = "updateAll"
                 PROVE  FALSE
    OBVIOUS
  <2>2. calls[i+1].op = "updateAll" /\ i + 1 \in 1..Len(calls)
    BY <1>1, <1>2, <2>1
  <2>3. Len(calls) = 1
    BY <2>2 DEF Clock
  <2> QED
    BY <1>1, <2>3
<1>4. ~Pending("start") =>
        \A i \in 1..Len(calls') :
          calls'[i].op = "updateRun" => calls'[i].mode = runFile.mode
  BY <1>1, <1>2, Zenon DEF Clock
<1>9. Head(calls).op # "start" /\ Pending("start") => Pending("start")'
  <2>1. SUFFICES ASSUME NEW k \in 1..Len(calls), calls[k].op = "start",
                        Head(calls).op # "start"
                 PROVE  Pending("start")'
    BY DEF Pending
  <2>2. k # 1
    BY <1>2, <2>1
  <2>3. k - 1 \in 1..Len(calls') /\ (k - 1) + 1 = k
    BY <1>1, <2>2
  <2>4. calls'[k - 1] = calls[k]
    BY <1>2, <2>3, Zenon
  <2> QED
    BY <2>1, <2>3, <2>4, Zenon DEF Pending
<1>5. CASE Head(calls).op = "start" /\ Start
  <2>1. Pending("start") /\ calls' = <<>>
    BY <1>1, <1>5, CallsOne
  <2>3. ~Pending("start")'
    BY <2>1 DEF Pending
  <2>2. UNCHANGED <<waitingTimer, mode, runFile>>
    BY <1>5 DEF Start, Srv!StartDAQ
  <2> QED
    BY <2>1, <2>2, <2>3 DEF Clock
<1>6. CASE Head(calls).op = "stop" /\ Stop
  <2>1. Pending("stop") /\ ~Pending("start") /\ ~Pending("start")'
    BY <1>1, <1>2, <1>6, CallsOne DEF CallsFit
  <2>2. ~waitingTimer' /\ mode' = "CLOSURE" /\ runFile' = runFile
    BY <1>6 DEF Stop, Srv!StopDAQ, Clock
  <2> QED
    BY <1>3, <1>4, <2>1, <2>2 DEF Clock
<1>7. CASE /\ Head(calls).op = "updateRun"
           /\ Srv!UpdateRun(Head(calls).mode, Head(calls).detectors)
           /\ UNCHANGED <<client, connection>>
  <2>1. /\ mode' = Head(calls).mode /\ runFile'.mode = Head(calls).mode
        /\ UNCHANGED <<waitingTimer, adepoState, script, commands, replies>>
    BY <1>7 DEF Srv!UpdateRun, client, connection
  <2>2. ~Pending("start") => Head(calls).mode = runFile.mode
    BY <1>1, <1>2, <1>7, Zenon DEF Clock
  <2>3. waitingTimer' => /\ Rest' /\ ~Pending("start")'
                         /\ adepoState' \in {"WAITING", "CONNECTING"}
                         /\ mode' = "MONITORING" /\ runFile'.mode = "MONITORING"
    BY <1>1, <1>2, <2>1, <2>2, RestSame DEF Clock
  <2>4. Pending("start")' \/
        \A i \in 1..Len(calls') :
           calls'[i].op = "updateRun" => calls'[i].mode = runFile'.mode
    BY <1>4, <1>7, <1>9, <2>1, <2>2
  <2>5. mode' = "CLOSURE" \/ mode' = runFile'.mode
    BY <2>1
  <2>6. Pending("start")' =>
          control' = "Idle" /\ lwdaqState' \in {"IDLE", "CONNECTING"}
    BY <1>1, <1>2 DEF Clock
  <2> QED
    BY <1>3, <2>3, <2>4, <2>5, <2>6 DEF Clock
<1>8. CASE Head(calls).op = "updateAll" /\ Srv!UpdateAll
           /\ UNCHANGED <<client, connection>>
  <2>1. Len(calls) = 1
    BY <1>1, <1>2, <1>8 DEF Clock
  <2>2. Len(calls') = 0
    BY <1>1, <2>1
  <2>3. /\ mode' = mode /\ runFile'.mode = mode
        /\ UNCHANGED <<waitingTimer, adepoState, script, commands, replies>>
    BY <1>8 DEF Srv!UpdateAll, Srv!UpdateRun, client, connection
  <2>4. ~Pending("start")'
    BY <2>2 DEF Pending
  <2>5. waitingTimer => Rest'
    BY <1>1, <2>3, RestSame DEF Clock
  <2>6. \A i \in 1..Len(calls') : FALSE
    BY <2>2
  <2> QED
    BY <2>3, <2>4, <2>5, <2>6 DEF Clock
<1> QED
  BY <1>5, <1>6, <1>7, <1>8 DEF CallHandled

LEMMA ClockPress ==
  ASSUME Prompt, Fresh, Chain, OneAtATime, Course, Clock, Srv!ShownState, Press
  PROVE  Clock'
<1>1. /\ Nothing
      /\ UNCHANGED <<waitingTimer, mode, runFile, adepoState, lwdaqState, control,
                     script, commands, replies>>
  BY DEF Press, InTime, Quiet, Nothing, server, client, connection, lwdaq
<1>2. CASE PressStart
  <2>1. PICK m \in Srv!Mode :
            calls' = <<Update(m, runFile.detectors), Simple("start")>>
    BY <1>2 DEF PressStart
  <2>2. /\ Len(calls') = 2 /\ calls'[1].op = "updateRun"
        /\ calls'[2].op = "start"
    BY <2>1 DEF Update, Simple
  <2>3. adepoState = "IDLE" /\ lwdaqState = "IDLE" /\ socket = "up"
    BY <1>2, Parts DEF PressStart, Srv!ShownState, Cli!NoConnectionNoState
  <2>4. control = "Idle"
    <3>1. ~Begun
      BY <1>1, Single DEF Nothing, Begun, Sent, Told
    <3> QED
      BY <2>3, <3>1 DEF Course, Resting
  <2>5. ~waitingTimer
    BY <2>3 DEF Clock
  <2>6. Pending("start")'
    BY <2>2 DEF Pending
  <2> QED
    BY <1>1, <2>2, <2>3, <2>4, <2>5, <2>6 DEF Clock
<1>3. ASSUME ~Pending("start")',
             \A i \in 1..Len(calls') :
               /\ calls'[i].op = "updateAll" => Len(calls') = 1
               /\ calls'[i].op = "updateRun" => calls'[i].mode = runFile.mode
      PROVE  Clock'
  BY <1>1, <1>3, RestSame DEF Clock
<1>4. CASE PressStop
  <2>1. /\ Len(calls') = 2 /\ calls'[1].op = "stop"
        /\ calls'[2].op = "updateRun" /\ calls'[2].mode = runFile.mode
    BY <1>4 DEF PressStop, Update, Simple
  <2> QED
    BY <1>3, <2>1 DEF Pending
<1>5. CASE Select
  <2>1. /\ Len(calls') = 1 /\ calls'[1].op = "updateRun"
        /\ calls'[1].mode = runFile.mode
    BY <1>5 DEF Select, Update
  <2> QED
    BY <1>3, <2>1 DEF Pending
<1>6. CASE Connect
  <2>1. Len(calls') = 1 /\ calls'[1].op = "updateAll"
    BY <1>6 DEF Connect, Simple
  <2> QED
    BY <1>3, <2>1 DEF Pending
<1> QED
  BY <1>2, <1>4, <1>5, <1>6 DEF Press

LEMMA ClockRead ==
  ASSUME Chain, OneAtATime, Talk, Clock, ReadyRead PROVE Clock'
<1>1. PICK r \in Cli!Line :
             /\ Told(r) /\ commands = <<>> /\ socket = "up"
             /\ buffer' = <<>> /\ replies' = <<>>
             /\ Cli!ReadStatus(r)
  BY ReadOne
<1>2. /\ Signal /\ UNCHANGED <<calls, control>>
      /\ script' = script /\ lwdaqState' \in {lwdaqState, "IDLE", "RUN", "STOP"}
      /\ r \notin {"Idle", "Repeat_Run", "Stop"} => lwdaqState' = lwdaqState
      /\ r = "Repeat_Run" => lwdaqState' \in {"RUN", lwdaqState}
      /\ r = "Stop" => lwdaqState' \in {"STOP", lwdaqState}
  BY <1>1 DEF ReadyRead, lwdaq, Cli!ReadStatus, Cli!StateOf
<1>3. ~Nothing /\ \A q : ~Told(q)' /\ (Told(q) => q = r)
  BY <1>1, Single DEF Nothing, Told
<1>4. ~Pending("start")
  BY <1>3 DEF OneAtATime, CallsFit
<1>5. CASE lwdaqState' = lwdaqState
  <2>1. UNCHANGED <<waitingTimer, mode, runFile, adepoState>>
    BY <1>2, <1>5 DEF Signal, server
  <2>2. waitingTimer => Rest'
    BY <1>2, <1>3 DEF Clock, Rest
  <2> QED
    BY <1>2, <1>4, <2>1, <2>2, ClockKept DEF Clock
<1>6. CASE lwdaqState' # lwdaqState
  <2>1. Srv!LwdaqStateChanged /\ UNCHANGED <<mode, runFile>>
    BY <1>2, <1>6 DEF Signal, Srv!LwdaqStateChanged
  <2>2. CASE waitingTimer /\ r # "Idle"
    BY <1>1, <1>2, <1>6, <2>2 DEF Clock, Rest
  <2>3. CASE ~waitingTimer /\ r # "Idle"
    <3>1. lwdaqState' \in {"RUN", "STOP"}
      BY <1>2, <1>6, <2>3
    <3>2. waitingTimer' = waitingTimer
      BY <2>1, <3>1 DEF Srv!LwdaqStateChanged, Srv!LwdaqIdle, Srv!LwdaqRun,
         Srv!LwdaqStop, Srv!LwdaqConnecting
    <3> QED
      BY <1>2, <1>4, <2>1, <2>3, <3>2, ClockKept
  <2>4. CASE r = "Idle"
    <3>1. control = "Idle"
      BY <1>1, <2>4 DEF Talk
    <3>2. lwdaqState' = "IDLE"
      BY <1>1, <1>2, <1>6, <2>4 DEF Cli!ReadStatus, Cli!StateOf
    <3>3. /\ waitingTimer' => mode = "MONITORING"
          /\ waitingTimer' => adepoState' = "WAITING"
      BY <2>1, <3>2 DEF Srv!LwdaqStateChanged, Srv!LwdaqIdle, Srv!LwdaqRun,
         Srv!LwdaqStop, Srv!LwdaqConnecting
    <3>4. script # "init" => commands' = <<>>
      BY <1>1, <2>4, IdleEndsList DEF Handshake
    <3>5. Rest'
      BY <1>1, <1>2, <1>3, <3>1, <3>4 DEF Rest, Nothing
    <3>6. ~Pending("start")'
      BY <1>2, <1>4 DEF Pending
    <3> QED
      BY <1>2, <1>4, <2>1, <3>3, <3>5, <3>6 DEF Clock
  <2> QED
    BY <2>2, <2>3, <2>4
<1> QED
  BY <1>5, <1>6

LEMMA ClockCommand ==
  ASSUME Chain, OneAtATime, Talk, Course, Clock, Srv!ShownState, LwdaqCommand
  PROVE  Clock'
<1>1. PICK c \in Lw!Command, r \in Cli!Line :
             /\ Sent(c) /\ replies = <<>> /\ socket = "up"
             /\ commands' = <<>> /\ Told(r)'
             /\ Lw!Interpret(c, r) /\ Lw!SystemServer
  BY CommandOne
<1>2. UNCHANGED <<calls, waitingTimer, mode, runFile, adepoState, lwdaqState,
                  script, cmdNo, socket>>
  BY DEF LwdaqCommand, client, server
<1>3. /\ ~Nothing
      /\ \A d : Sent(d) => d = c
      /\ \A q : ~Told(q)
      /\ \A d : ~Sent(d)'
      /\ \A q : Told(q)' => q = r
  BY <1>1, Single DEF Nothing, Sent, Told
<1>4. ~Pending("start")
  BY <1>3 DEF OneAtATime, CallsFit
<1>5. ASSUME waitingTimer PROVE Rest'
  <2>1. control = "Idle" /\ script = "init"
        /\ lwdaqState \in {"IDLE", "CONNECTING"}
    BY <1>3, <1>5 DEF Clock, Rest, Srv!ShownState
  <2>2. CASE Handshake
    <3>1. Handshake' /\ Talk'
      BY <1>2, <2>2, TalkCommand DEF Handshake
    <3>2. Told(FirstReplies[cmdNo])' /\ cmdNo' = cmdNo
      BY <1>2, <1>3, <3>1 DEF Talk, Stage, Told
    <3>3. cmdNo \in 1..5
      BY <1>1, <2>2, Parts, Lengths DEF Cli!IndexSafe, Handshake
    <3>4. FirstReplies[cmdNo] \notin {"Repeat_Run", "Wait", "Stop"}
      BY <3>3 DEF FirstReplies
    <3>5. FirstReplies[cmdNo] = r
      BY <1>3, <3>2, Zenon DEF Told
    <3>6. First(c)
      <4>1. Sent(FirstCommands[cmdNo])
        BY <1>3, <2>2 DEF Talk, Stage
      <4> QED
        BY <1>3, <3>3, <4>1 DEF First
    <3>7. control' = "Idle"
      <4>1. \A d, q : Lw!Interpret(d, q) => d = c
        BY <1>1, Replied
      <4>2. c \notin {"repeat_run", "stop"}
        BY <3>6, Firsts
      <4> QED
        BY <1>1, <2>1, <4>1, <4>2 DEF Lw!SystemServer, Lw!ServerInfo,
           Lw!SetServerInfo, Lw!SetUploadTarget, Lw!SetUploadStepResult,
           Lw!RunTool, Lw!RunParams, Lw!RunSettings, Lw!LoadScript,
           Lw!CommandRepeatRun, Lw!CommandStop, Lw!Status, Lw!lwdaqVars,
           Lw!toolVars
    <3> QED
      BY <1>2, <1>3, <2>1, <3>4, <3>5, <3>7 DEF Rest
  <2>3. CASE ~Handshake
    <3>1. tool /\ Done
      BY <1>1, <1>3, <2>1, <2>3 DEF Talk, Course, Resting, Begun
    <3>2. c = "status"
      BY <1>1, <3>1 DEF Done, Polls
    <3>3. r = control /\ control' = control
      BY <1>1, <3>1, <3>2, LaterReply, Zenon
    <3> QED
      BY <1>2, <1>3, <2>1, <3>3 DEF Rest
  <2> QED
    BY <2>2, <2>3
<1> QED
  BY <1>2, <1>4, <1>5, ClockKept DEF Clock

(* The end of a connection, or of an attempt to make one.                  *)
LEMMA ClockLost ==
  ASSUME Clock, Cli!Discard, control' \in {control, "Idle"},
         lwdaqState' = "CONNECTING" \/ lwdaqState' = lwdaqState,
         Signal, UNCHANGED calls
  PROVE  Clock'
<1>1. /\ UNCHANGED <<waitingTimer, mode, runFile>>
      /\ adepoState' \in {adepoState, "CONNECTING"}
  BY DEF Signal, server, Srv!LwdaqStateChanged, Srv!LwdaqIdle, Srv!LwdaqRun,
         Srv!LwdaqStop, Srv!LwdaqConnecting
<1>2. waitingTimer => Rest'
  BY RestDropped DEF Clock, Rest
<1> QED
  BY <1>1, <1>2, ClockKept DEF Clock

LEMMA ClockNext ==
  ASSUME Prompt, Fresh, Chain, OneAtATime, Talk, Course, Clock,
         Srv!ShownState, [Next]_vars
  PROVE  Clock'
<1>1. CASE CallHandled
  BY <1>1, ClockCalls
<1>2. CASE WaitingTimeout
  <2>1. /\ ~waitingTimer' /\ UNCHANGED <<mode, runFile, calls, control, lwdaqState>>
    BY <1>2 DEF WaitingTimeout, Srv!WaitingTimeout, lwdaq
  <2> QED
    BY <2>1 DEF Clock, Pending
<1>3. CASE RunTimeout \/ StatusTimeout
  <2>1. UNCHANGED <<calls, waitingTimer, mode, runFile, adepoState, control,
                    lwdaqState>>
    BY <1>3 DEF RunTimeout, StatusTimeout, Cli!RunTimeout, Cli!StatusTimeout,
       Cli!StopRun, Cli!SendStop, server, lwdaq
  <2>2. waitingTimer => UNCHANGED <<script, commands, replies>>
    <3>1. waitingTimer => lwdaqState \notin {"RUN", "STOP"}
      BY DEF Clock, Srv!ShownState
    <3>2. lwdaqState \in {"CONNECTING", "IDLE", "RUN", "STOP"}
      BY Parts DEF Cli!TypeOK, Cli!LwdaqState
    <3> QED
      BY <1>3, <3>1, <3>2 DEF RunTimeout, StatusTimeout, Cli!RunTimeout,
         Cli!StatusTimeout, Cli!IsConnected
  <2> QED
    BY <2>1, <2>2, RestSame, ClockKept DEF Clock
<1>4. CASE ConnectTimeout
  <2>1. /\ Cli!Discard /\ Signal /\ UNCHANGED <<calls, control>>
        /\ lwdaqState' = "CONNECTING"
    BY <1>4 DEF ConnectTimeout, Cli!ConnectTimeout, lwdaq
  <2> QED
    BY <2>1, ClockLost
<1>5. CASE GotConnected
  <2>1. /\ script' = "init" /\ replies' = <<>>
        /\ UNCHANGED <<calls, waitingTimer, mode, runFile, adepoState, control,
                       lwdaqState>>
    BY <1>5 DEF GotConnected, Cli!GotConnected, OneAtATime, Talk, server, Nothing
  <2>2. waitingTimer => Rest'
    BY <2>1, Single DEF Clock, Rest, Told
  <2> QED
    BY <2>1, <2>2, ClockKept DEF Clock
<1>6. CASE ReadyRead
  BY <1>6, ClockRead
<1>7. CASE LwdaqCommand
  BY <1>7, ClockCommand
<1>8. CASE LwdaqStep
  <2>1. UNCHANGED <<calls, waitingTimer, mode, runFile, adepoState, lwdaqState,
                    script, commands>>
    BY <1>8 DEF LwdaqStep, server, client, Lw!QueueStep, Lw!StepEnd
  <2>2. /\ control = "Idle" => control' = "Idle" /\ (Nothing => Nothing')
        /\ ~Nothing => UNCHANGED replies
        /\ Nothing => \A r : Told(r)' => r \in Uploads
    BY <1>8, StepControl
  <2>3. Rest => Rest'
    BY <2>1, <2>2 DEF Rest, Told, Uploads
  <2> QED
    BY <2>1, <2>2, <2>3, ClockKept DEF Clock
<1>9. CASE ConnectFails
  <2>1. /\ Cli!Discard
        /\ UNCHANGED <<calls, control, lwdaqState, server, resultFile>>
    BY <1>9 DEF ConnectFails, Cli!ConnectionRefused, Cli!ConnectionFailed, lwdaq
  <2> QED
    BY <2>1, ClockLost DEF Signal
<1>10. CASE ConnectionLost \/ LwdaqRestart
  <2>1. /\ Cli!Discard /\ Signal /\ UNCHANGED calls
        /\ lwdaqState' = "CONNECTING" /\ control' \in {control, "Idle"}
    BY <1>10 DEF ConnectionLost, LwdaqRestart, Cli!GotDisconnected,
       Lw!LwdaqRestart
  <2> QED
    BY <2>1, ClockLost
<1>11. CASE ReadyReadThrows \/ ServerCrash
  <2>1. /\ calls' = <<>>
        /\ UNCHANGED <<waitingTimer, mode, runFile, adepoState, control, script,
                       commands, replies>>
    BY <1>11 DEF ReadyReadThrows, ServerCrash, Srv!CalculateThrows, Srv!Crash,
       Srv!memoryVars, client, connection, lwdaq
  <2>2. Len(calls') = 0
    BY <2>1
  <2>3. ~Pending("start")' /\ \A i \in 1..Len(calls') : FALSE
    BY <2>2 DEF Pending
  <2>4. waitingTimer => Rest'
    BY <2>1, RestSame DEF Clock
  <2> QED
    BY <2>1, <2>3, <2>4 DEF Clock
<1>12. CASE ServerRestart
  <2>1. /\ ~waitingTimer' /\ mode' = runFile.mode
        /\ UNCHANGED <<runFile, calls>> /\ ~alive
    BY <1>12 DEF ServerRestart, Srv!Restart
  <2>2. calls = <<>>
    BY <2>1 DEF OneAtATime, CallsFit
  <2>3. Len(calls') = 0
    BY <2>1, <2>2
  <2>4. ~Pending("start")' /\ \A i \in 1..Len(calls') : FALSE
    BY <2>3 DEF Pending
  <2> QED
    BY <2>1, <2>4 DEF Clock
<1>13. CASE Press
  BY <1>13, ClockPress
<1>14. CASE UNCHANGED vars
  BY <1>14, RestSame, ClockKept
     DEF Clock, vars, server, client, connection, lwdaq
<1> QED
  BY <1>1, <1>2, <1>3, <1>4, <1>5, <1>6, <1>7, <1>8, <1>9, <1>10, <1>11,
     <1>12, <1>13, <1>14 DEF Next, Step, Fault

LEMMA ClockInit == Init => Course /\ Clock
<1>1. ASSUME Init PROVE Len(calls) = 0 /\ socket # "up" /\ ~waitingTimer
                        /\ mode = runFile.mode
  BY <1>1 DEF Init, Srv!Init, Cli!Init
<1> QED
  BY <1>1 DEF Course, Clock, Pending

LEMMA ClockHolds ==
  ASSUME Prompt, Fresh
  PROVE  Spec => [](Chain /\ OneAtATime /\ Talk /\ Course /\ Clock)
<1>1. Init => Course /\ Clock
  BY ClockInit
<1>2. /\ Chain /\ OneAtATime /\ Talk /\ Course /\ Clock /\ Srv!ShownState
      /\ [Next]_vars
      => (Course /\ Clock)'
  BY CourseNext, ClockNext
<1>3. Spec => []Srv!ShownState
  BY InvariantsOfChain, PTL
<1> QED
  BY <1>1, <1>2, <1>3, TalkHolds, PTL DEF Spec

(***************************************************************************)
(* While a waiting period is running no measurement is: LWDAQ is Idle, and *)
(* no step of it is executing or queued (without a window, as long as      *)
(* nothing has failed); and an idle server does not wait.                  *)
(***************************************************************************)
THEOREM WaitsAlone ==
  ASSUME Prompt, Fresh PROVE MCSpec => []WaitingIsExclusive
<1>1. ASSUME Chain, Clock, faults = 0 => Calm
      PROVE  WaitingIsExclusive
  <2>1. waitingTimer => control = "Idle" /\ adepoState \in {"WAITING", "CONNECTING"}
    BY <1>1 DEF Clock, Rest
  <2>2. Gui \/ faults = 0 => OneEvent
    BY <1>1, SameLwdaq DEF Chain, LwP!Inv, OneEvent, Lw!OneChain, Calm
  <2>3. control = "Idle" /\ OneEvent => AtRest
    BY <1>1, IdleRests
  <2> QED
    BY <2>1, <2>2, <2>3 DEF WaitingIsExclusive
<1>2. MCInit => Init
  BY DEF MCInit
<1>3. [MCNext]_mcVars => [Next]_vars
  BY DEF MCNext, mcVars, Next
<1>4. MCSpec => Spec
  BY <1>2, <1>3, PTL DEF MCSpec, Spec
<1> QED
  BY <1>1, <1>4, CalmHolds, ClockHolds, PTL

(***************************************************************************)
(* A client that has seen Stop keeps polling until it sees something else: *)
(* readStatus() starts the status timer, whose slot sends the next status, *)
(* and no run that was started before ends the polling.                    *)
(***************************************************************************)
THEOREM StopIsWatched ==
  ASSUME Prompt, Fresh PROVE Spec => []StopIsPolled
<1>1. ASSUME Chain, Course, lwdaqState = "STOP"
      PROVE  statusTimer \/ \E r \in Lw!Control \cup {"error"} : Outstanding("status", r)
  <2>1. socket = "up"
    BY <1>1, Parts DEF Cli!NoConnectionNoState
  <2>2. \/ statusTimer \/ Sent("status")
        \/ \E r \in {"Stop", "Idle", "error"} : Told(r)
    BY <1>1, <2>1 DEF Course, Watched
  <2>3. \A x : 1 \in DOMAIN <<x>> /\ <<x>>[1] = x
    OBVIOUS
  <2>4. CASE Sent("status")
    BY <2>3, <2>4 DEF Sent, Outstanding, Lw!Control
  <2>5. CASE \E r \in {"Stop", "Idle", "error"} : Told(r)
    <3>1. PICK r \in {"Stop", "Idle", "error"} : Told(r)
      BY <2>5
    <3>2. Outstanding("status", r)
      BY <2>3, <3>1 DEF Told, Outstanding
    <3> QED
      BY <3>1, <3>2 DEF Lw!Control
  <2> QED
    BY <2>2, <2>4, <2>5
<1>2. Chain /\ Course => StopIsPolled
  BY <1>1 DEF StopIsPolled
<1> QED
  BY <1>2, ClockHolds, PTL

(***************************************************************************)
(* No run is started on top of another: the result file is removed only    *)
(* by start() and at the end of a waiting period, and LWDAQ rests then.    *)
(***************************************************************************)
LEMMA Removes ==
  ASSUME Chain, OneAtATime, Clock, [Next]_vars,
         resultFile # {}, resultFile' = {}
  PROVE  control = "Idle"
<1>1. \/ CallHandled /\ Head(calls).op = "start"
      \/ WaitingTimeout
  <2>1. ASSUME UNCHANGED resultFile PROVE FALSE
    BY <2>1
  <2>2. CASE CallHandled
    BY <2>1, <2>2 DEF CallHandled, Stop, Srv!StopDAQ, Srv!UpdateRun,
       Srv!UpdateAll
  <2>3. CASE LwdaqStep
    BY <2>3 DEF LwdaqStep, Lw!QueueStep, Lw!StepEnd, Lw!AppendResult
  <2>4. CASE \/ RunTimeout \/ StatusTimeout \/ GotConnected \/ ConnectFails
             \/ ReadyReadThrows \/ LwdaqCommand \/ ServerCrash
             \/ ServerRestart \/ Press \/ UNCHANGED vars
    BY <2>1, <2>4 DEF RunTimeout, StatusTimeout, GotConnected, ConnectFails,
       ReadyReadThrows, Srv!CalculateThrows, LwdaqCommand, Lw!SystemServer,
       ServerCrash, Srv!Crash, ServerRestart, Srv!Restart, Press, vars
  <2>5. CASE ConnectTimeout \/ ReadyRead \/ ConnectionLost \/ LwdaqRestart
    BY <2>1, <2>5 DEF ConnectTimeout, ReadyRead, ConnectionLost,
       LwdaqRestart, Signal, Srv!LwdaqStateChanged
  <2> QED
    BY <2>2, <2>3, <2>4, <2>5 DEF Next, Step, Fault
<1>2. CASE WaitingTimeout
  BY <1>2 DEF WaitingTimeout, Srv!WaitingTimeout, Clock, Rest
<1>3. CASE CallHandled /\ Head(calls).op = "start"
  <2>1. Pending("start")
    BY <1>3, CallsOne DEF CallHandled, OneAtATime
  <2> QED
    BY <2>1 DEF Clock
<1> QED
  BY <1>1, <1>2, <1>3

THEOREM RunsAlone ==
  ASSUME Prompt, Fresh PROVE MCSpec => NotRemovedUnderRun
<1>1. ASSUME Chain, OneAtATime, Clock, faults \in Nat, faults = 0 => Calm,
             [MCNext]_mcVars
      PROVE  [Gui \/ faults' = 0 => ~RemovesUnderRun]_mcVars
  <2>1. [Next]_vars /\ (faults' = 0 => faults = 0)
    BY <1>1 DEF MCNext, mcVars, Next
  <2>2. ASSUME Gui \/ faults' = 0, RemovesUnderRun PROVE FALSE
    <3>1. control = "Idle" /\ ~AtRest
      BY <1>1, <2>1, <2>2, Removes DEF RemovesUnderRun
    <3>2. OneEvent
      BY <1>1, <2>1, <2>2, SameLwdaq
         DEF Chain, LwP!Inv, OneEvent, Lw!OneChain, Calm
    <3> QED
      BY <1>1, <3>1, <3>2, IdleRests
  <2> QED
    BY <2>2
<1>2. MCInit => Init
  BY DEF MCInit
<1>3. [MCNext]_mcVars => [Next]_vars
  BY DEF MCNext, mcVars, Next
<1>4. MCSpec => Spec
  BY <1>2, <1>3, PTL DEF MCSpec, Spec
<1> QED
  BY <1>1, <1>4, CalmHolds, ClockHolds, PTL DEF MCSpec, NotRemovedUnderRun

=============================================================================
