-------------------------- MODULE AcquisifierProofs --------------------------
(***************************************************************************)
(* The Acquisifier: type correctness, and that Idle means at rest when the *)
(* window of the tool protects it from being initialised again.            *)
(***************************************************************************)
EXTENDS Acquisifier, SequenceTheorems, TLAPS

USE DEF Control, Content, Line, Command
USE DetectorsAssumption, NumStepsAssumption, GuiAssumption

(***************************************************************************)
(* OneChain is not inductive: running the tool the first time sets control *)
(* to Idle, which is right only if it was Idle already.                    *)
(***************************************************************************)
NotLoadedIsIdle == ~tool => control = "Idle"

Inv == TypeOK /\ OneChain /\ NotLoadedIsIdle

-----------------------------------------------------------------------------
LEMMA InterpretType ==
  ASSUME TypeOK, NEW c, NEW r \in Line, Interpret(c, r)
  PROVE  commands' \in Seq(Command) /\ replies' \in Seq(Line)
<1>1. commands' \in Seq(Command)
  BY HeadTailProperties DEF TypeOK, Interpret
<1>2. replies' \in Seq(Line)
  BY DEF TypeOK, Interpret
<1> QED
  BY <1>1, <1>2

LEMMA InitInv == Init => Inv
<1> SUFFICES ASSUME Init PROVE Inv
  OBVIOUS
<1>1. commands \in Seq(Command) /\ replies \in Seq(Line)
  BY EmptySeq, Zenon DEF Init
<1>2. step \in 0..NumSteps /\ queue \in Nat
  BY DEF Init
<1>3. TypeOK
  BY <1>1, <1>2, Zenon DEF Init, TypeOK
<1>4. OneChain /\ NotLoadedIsIdle
  BY DEF Init, OneChain, Chain, NotLoadedIsIdle
<1> QED
  BY <1>3, <1>4 DEF Inv

(***************************************************************************)
(* The commands.  The types of the two sequences are InterpretType; the    *)
(* rest of the state is Tool.                                              *)
(***************************************************************************)
ToolOK ==
  /\ tool \in BOOLEAN
  /\ control \in Control
  /\ step \in 0..NumSteps
  /\ loaded \in (SUBSET Detectors) \cup {NoScript}
  /\ configured \in BOOLEAN
  /\ upload \in BOOLEAN
  /\ target \in BOOLEAN
  /\ queue \in Nat
  /\ executing \in BOOLEAN
  /\ OneChain
  /\ NotLoadedIsIdle

LEMMA ToolSuffices ==
  ASSUME Inv, ToolOK', commands' \in Seq(Command), replies' \in Seq(Line),
         scriptFile' \in (SUBSET Detectors) \cup {NoScript}, resultFile' \subseteq Content
  PROVE  Inv'
  BY DEF Inv, TypeOK, ToolOK

LEMMA SystemServerInv == ASSUME Inv, SystemServer PROVE Inv'
<1> DEFINE Typed == commands' \in Seq(Command) /\ replies' \in Seq(Line)
<1>0. TypeOK /\ ToolOK
  BY DEF Inv, TypeOK, ToolOK
<1>1. CASE ServerInfo \/ SetServerInfo \/ SetUploadTarget
           \/ SetUploadStepResult
  <2>1. Typed
    BY <1>0, <1>1, InterpretType
       DEF ServerInfo, SetServerInfo, SetUploadTarget, SetUploadStepResult
  <2>2. /\ UNCHANGED <<tool, control, step, loaded, configured, queue,
                       executing>>
        /\ upload' \in BOOLEAN /\ target' \in BOOLEAN
    BY <1>0, <1>1, Zenon DEF ServerInfo, SetServerInfo, SetUploadTarget,
       SetUploadStepResult, lwdaqVars, toolVars, ToolOK
  <2>3. ToolOK'
    BY <1>0, <2>2 DEF ToolOK, OneChain, Chain, NotLoadedIsIdle
  <2> QED
    BY <1>0, <2>1, <2>3, ToolSuffices DEF SystemServer, TypeOK
<1>2. CASE RunTool
  <2>1. Typed
    BY <1>0, <1>2, InterpretType DEF RunTool
  <2>2. ToolOK'
    <3>1. CASE Gui /\ tool
      <4>1. UNCHANGED <<tool, control, step, loaded, configured, upload,
                        target, queue, executing>>
        BY <1>0, <1>2, <3>1, Zenon DEF RunTool, ToolOK
      <4> QED
        BY <1>0, <4>1 DEF ToolOK, OneChain, Chain, NotLoadedIsIdle
    <3>2. CASE ~(Gui /\ tool)
      <4>1. /\ tool' = TRUE /\ control' = "Idle" /\ step' = 0
            /\ loaded' = NoScript /\ configured' = FALSE
            /\ upload' = FALSE /\ target' = FALSE
            /\ queue' = queue /\ executing' = executing
        BY <1>2, <3>2, Zenon DEF RunTool
      <4>2. Gui => control = "Idle"
        BY <1>0, <3>2 DEF ToolOK, NotLoadedIsIdle
      <4>3. OneChain' /\ NotLoadedIsIdle'
        BY <1>0, <4>1, <4>2 DEF ToolOK, OneChain, Chain, NotLoadedIsIdle
      <4>4. 0 \in 0..NumSteps /\ "Idle" \in Control
        OBVIOUS
      <4> QED
        BY <1>0, <4>1, <4>3, <4>4, Zenon DEF ToolOK
    <3> QED
      BY <3>1, <3>2
  <2> QED
    BY <1>0, <2>1, <2>2, ToolSuffices DEF SystemServer, TypeOK
<1>3. CASE RunParams \/ RunSettings
  <2>1. Typed
    BY <1>0, <1>3, InterpretType DEF RunParams, RunSettings
  <2>2. /\ UNCHANGED <<tool, control, step, loaded, upload, target, queue,
                       executing>>
        /\ configured' \in BOOLEAN
    BY <1>0, <1>3, Zenon DEF RunParams, RunSettings, lwdaqVars, toolVars,
                             ToolOK
  <2>3. ToolOK'
    BY <1>0, <2>2 DEF ToolOK, OneChain, Chain, NotLoadedIsIdle
  <2> QED
    BY <1>0, <2>1, <2>3, ToolSuffices DEF SystemServer, TypeOK
<1>4. CASE LoadScript
  <2>1. Typed
    BY <1>0, <1>4, InterpretType DEF LoadScript
  <2>2. ToolOK'
    BY <1>0, <1>4 DEF LoadScript, lwdaqVars, toolVars, ToolOK, TypeOK,
       OneChain, Chain, NotLoadedIsIdle
  <2> QED
    BY <1>0, <2>1, <2>2, ToolSuffices DEF SystemServer, TypeOK
<1>5. CASE CommandRepeatRun
  <2>1. Typed
    BY <1>0, <1>5, InterpretType DEF CommandRepeatRun
  <2>2. ToolOK'
    BY <1>0, <1>5 DEF CommandRepeatRun, lwdaqVars, toolVars, ToolOK,
       OneChain, Chain, NotLoadedIsIdle
  <2> QED
    BY <1>0, <2>1, <2>2, ToolSuffices DEF SystemServer, TypeOK
<1>6. CASE CommandStop
  <2>1. Typed
    BY <1>0, <1>6, InterpretType DEF CommandStop
  <2>2. ToolOK'
    BY <1>0, <1>6 DEF CommandStop, ControlAfterStop, lwdaqVars, toolVars, ToolOK,
       OneChain, Chain, NotLoadedIsIdle
  <2> QED
    BY <1>0, <2>1, <2>2, ToolSuffices DEF SystemServer, TypeOK
<1>7. CASE Status
  <2>1. Typed
    BY <1>0, <1>7, InterpretType DEF Status, TypeOK
  <2>2. ToolOK'
    BY <1>0, <1>7 DEF Status, lwdaqVars, toolVars, ToolOK, OneChain, Chain,
       NotLoadedIsIdle
  <2> QED
    BY <1>0, <2>1, <2>2, ToolSuffices DEF SystemServer, TypeOK
<1> QED
  BY <1>1, <1>2, <1>3, <1>4, <1>5, <1>6, <1>7 DEF SystemServer

(***************************************************************************)
(* The event queue and the environment.                                    *)
(***************************************************************************)
LEMMA QueueStepInv == ASSUME Inv, QueueStep PROVE Inv'
<1>0. TypeOK /\ ToolOK
  BY DEF Inv, TypeOK, ToolOK
<1>1. queue \in Nat /\ queue > 0 /\ ~executing
  BY <1>0 DEF QueueStep, ToolOK
<1>2. queue - 1 \in Nat /\ step \in Nat /\ LastStep \in 1..NumSteps
  BY <1>0, <1>1 DEF ToolOK, LastStep
<1>3. UNCHANGED <<tool, loaded, configured, upload, target>>
  BY Zenon DEF QueueStep
<1>4. /\ step' \in 0..NumSteps /\ control' \in Control /\ queue' \in Nat
      /\ executing' \in BOOLEAN
  <2>1. /\ step' \in {step, 0, 1, step + 1}
        /\ step' = step + 1 => step < LastStep
        /\ queue' \in {queue, queue - 1}
    BY <1>0, <1>2 DEF QueueStep, EventStopped, BeginStep, ToolOK
  <2>2. step' \in 0..NumSteps /\ queue' \in Nat
    BY <1>0, <1>2, <2>1 DEF ToolOK
  <2>3. control' \in Control /\ executing' \in BOOLEAN
    BY <1>0 DEF QueueStep, EventStopped, BeginStep, ToolOK
  <2> QED
    BY <2>2, <2>3
<1>5. OneChain'
  BY <1>0, <1>1 DEF QueueStep, EventStopped, BeginStep, ToolOK, OneChain, Chain
<1>6. NotLoadedIsIdle'
  BY <1>0, <1>1, <1>3 DEF QueueStep, EventStopped, ToolOK, OneChain, Chain,
                          NotLoadedIsIdle
<1>7. ToolOK'
  BY <1>0, <1>3, <1>4, <1>5, <1>6, Zenon DEF ToolOK
<1> QED
  BY <1>0, <1>7, ToolSuffices DEF QueueStep, TypeOK

LEMMA StepEndInv ==
  ASSUME Inv, NEW ok \in BOOLEAN, StepEnd(ok) PROVE Inv'
<1>0. TypeOK /\ ToolOK
  BY DEF Inv, TypeOK, ToolOK
<1>1. ToolOK'
  <2>1. UNCHANGED <<tool, step, loaded, configured, upload, target>>
    BY Zenon DEF StepEnd
  <2>2. /\ executing /\ executing' = FALSE
        /\ \/ control = "Repeat_Run" /\ control' = control
              /\ queue' = queue + 1
           \/ control' = "Idle" /\ queue' = queue
        /\ queue' \in Nat
    BY <1>0 DEF StepEnd, ToolOK
  <2>3. OneChain'
    <3>1. Gui => queue = 0
      BY <1>0, <2>2 DEF ToolOK, OneChain, Chain
    <3>2. Gui => queue' = IF control' = "Idle" THEN 0 ELSE 1
      BY <2>2, <3>1
    <3> QED
      BY <2>2, <3>2, Zenon DEF OneChain, Chain
  <2>4. NotLoadedIsIdle'
    BY <1>0, <2>1, <2>2 DEF ToolOK, NotLoadedIsIdle
  <2>5. control' \in Control /\ executing' \in BOOLEAN
    BY <1>0, <2>2 DEF StepEnd, ToolOK
  <2> QED
    BY <1>0, <2>1, <2>2, <2>3, <2>4, <2>5, Zenon DEF ToolOK
<1>2. replies' \in Seq(Line)
  <2>1. CASE upload /\ target
    <3>1. PICK r \in {"step", "step1", "error"} : replies' = Append(replies, r)
      BY <2>1 DEF StepEnd, Upload
    <3> QED
      BY <1>0, <3>1 DEF TypeOK
  <2>2. CASE ~(upload /\ target)
    BY <1>0, <2>2 DEF StepEnd, Upload, TypeOK
  <2> QED
    BY <2>1, <2>2
<1>3. resultFile' \subseteq Content
  <2>1. CASE resultFile' = resultFile
    BY <1>0, <2>1 DEF TypeOK
  <2>2. CASE /\ loaded # NoScript
             /\ \E d \in IF ok THEN loaded ELSE {"error"} :
                  resultFile' = resultFile \cup {d}
    <3>1. PICK d \in IF ok THEN loaded ELSE {"error"} :
                resultFile' = resultFile \cup {d}
      BY <2>2
    <3>2. d \in Content
      BY <1>0, <2>2, <3>1 DEF TypeOK
    <3> QED
      BY <1>0, <3>1, <3>2 DEF TypeOK
  <2> QED
    BY <2>1, <2>2, Zenon DEF StepEnd, AppendResult
<1> QED
  BY <1>0, <1>1, <1>2, <1>3, ToolSuffices DEF StepEnd, TypeOK

LEMMA MaySendType ==
  ASSUME TypeOK, MaySend PROVE commands' \in Seq(Command)
<1>1. commands \in Seq(Command)
  BY DEF TypeOK
<1> QED
  BY <1>1 DEF MaySend

(* The environment changes nothing of the tool but the upload target.      *)
LEMMA TargetOnly ==
  ASSUME Inv, target' \in BOOLEAN,
         UNCHANGED <<tool, control, step, loaded, configured, upload, queue,
                     executing>>
  PROVE  ToolOK'
  BY DEF Inv, TypeOK, ToolOK, OneChain, Chain, NotLoadedIsIdle

LEMMA EnvironmentInv == ASSUME Inv, Environment PROVE Inv'
<1>0. TypeOK /\ ToolOK
  BY DEF Inv, TypeOK, ToolOK
<1>1. CASE Answer
  <2>1. PICK n \in 0..Len(replies) :
              replies' = SubSeq(replies, n + 1, Len(replies))
    BY <1>1 DEF Answer
  <2>2. replies' \in Seq(Line)
    BY <1>0, <2>1, SubSeqProperties DEF TypeOK
  <2>3. ToolOK'
    BY <1>0, <1>1, TargetOnly DEF Answer, lwdaqVars, toolVars, ToolOK
  <2> QED
    BY <1>0, <1>1, <2>2, <2>3, MaySendType, ToolSuffices DEF Answer, TypeOK
<1>2. CASE StartRun
  <2>1. ToolOK'
    BY <1>0, <1>2, TargetOnly DEF StartRun, lwdaqVars, toolVars, ToolOK
  <2>2. /\ scriptFile' \in (SUBSET Detectors) \cup {NoScript}
        /\ resultFile' \subseteq Content
        /\ replies' \in Seq(Line)
    BY <1>0, <1>2 DEF StartRun, TypeOK
  <2> QED
    BY <1>0, <1>2, <2>1, <2>2, MaySendType, ToolSuffices DEF StartRun
<1>3. CASE Accept
  <2>1. ToolOK'
    BY <1>0, <1>3, TargetOnly DEF Accept, ToolOK
  <2> QED
    BY <1>0, <1>3, <2>1, MaySendType, ToolSuffices DEF Accept, TypeOK
<1>4. CASE Lose
  <2>1. commands' \in Seq(Command) /\ replies' \in Seq(Line)
    BY <1>4, EmptySeq, Zenon DEF Lose
  <2>2. ToolOK'
    BY <1>0, <1>4, TargetOnly DEF Lose, ToolOK
  <2> QED
    BY <1>0, <1>4, <2>1, <2>2, ToolSuffices DEF Lose, TypeOK
<1>5. CASE Restart
  <2>1. commands' \in Seq(Command) /\ replies' \in Seq(Line)
    BY <1>5, EmptySeq, Zenon DEF Restart
  <2>2. OneChain' /\ NotLoadedIsIdle'
    BY <1>5 DEF Restart, LwdaqRestart, OneChain, Chain, NotLoadedIsIdle
  <2>3. 0 \in 0..NumSteps /\ 0 \in Nat /\ "Idle" \in Control
    OBVIOUS
  <2>4. ToolOK'
    BY <1>5, <2>2, <2>3, Zenon DEF Restart, LwdaqRestart, ToolOK
  <2> QED
    BY <1>0, <1>5, <2>1, <2>4, ToolSuffices DEF Restart, LwdaqRestart, TypeOK
<1> QED
  BY <1>1, <1>2, <1>3, <1>4, <1>5 DEF Environment

LEMMA NextInv == ASSUME Inv, [Next]_vars PROVE Inv'
<1>1. CASE Next
  BY <1>1, SystemServerInv, QueueStepInv, StepEndInv, EnvironmentInv
     DEF Next
<1>2. CASE UNCHANGED vars
  BY <1>2 DEF vars, lwdaqVars, toolVars, Inv, TypeOK, OneChain, Chain,
              NotLoadedIsIdle
<1> QED
  BY <1>1, <1>2

LEMMA SpecInv == Spec => []Inv
<1> QED
  BY InitInv, NextInv, PTL DEF Spec

-----------------------------------------------------------------------------
(* Every variable keeps its type, for every set of detectors and every     *)
(* length of a script.                                                     *)
THEOREM TypeCorrect == Spec => []TypeOK
<1>1. Inv => TypeOK
  BY DEF Inv
<1> QED
  BY SpecInv, <1>1, PTL

(* Idle means at rest: when the window of the tool protects it, there is   *)
(* no queued event and no step in progress while Acquisifier_info(control) *)
(* is Idle, and exactly one otherwise.                                     *)
THEOREM IdleIsAtRest == Spec => []OneChain
<1>1. Inv => OneChain
  BY DEF Inv
<1> QED
  BY SpecInv, <1>1, PTL

(***************************************************************************)
(* While the Acquisifier is Idle nothing is added to the result file, and  *)
(* no script is loaded under a step that is being executed.  It is the     *)
(* single chain that makes both true: what can disturb them are the end of *)
(* a step (not Idle) and the commands that replace the script (Idle).      *)
(***************************************************************************)
THEOREM IdleChangesNothing == Spec => IdleIsQuiet
<1> DEFINE Quiet == Gui => /\ control = "Idle" => resultFile' \subseteq resultFile
                           /\ executing /\ executing' => loaded' = loaded
<1>1. ASSUME Inv, [Next]_vars PROVE [Quiet]_vars
  <2>1. Gui /\ control = "Idle" => ~executing
    BY <1>1 DEF Inv, TypeOK, OneChain, Chain
  <2>2. Gui /\ ~tool => ~executing
    BY <1>1, <2>1 DEF Inv, NotLoadedIsIdle
  <2>3. CASE SystemServer
    <3>1. CASE RunTool \/ LoadScript
      BY <2>1, <2>2, <2>3, <3>1 DEF RunTool, LoadScript, SystemServer,
                                    lwdaqVars, toolVars
    <3>2. CASE ~(RunTool \/ LoadScript)
      BY <2>3, <3>2 DEF SystemServer, ServerInfo, SetServerInfo,
         SetUploadTarget, SetUploadStepResult, RunParams, RunSettings,
         CommandRepeatRun, CommandStop, Status, lwdaqVars, toolVars
    <3> QED
      BY <3>1, <3>2
  <2>4. CASE \E ok \in BOOLEAN : StepEnd(ok)
    BY <2>1, <2>4 DEF StepEnd
  <2>5. CASE QueueStep
    BY <2>5 DEF QueueStep
  <2>6. CASE Environment
    BY <2>6 DEF Environment, Answer, StartRun, Accept, Lose, Restart,
                LwdaqRestart, lwdaqVars, toolVars
  <2> QED
    BY <1>1, <2>3, <2>4, <2>5, <2>6 DEF Next
<1> QED
  BY SpecInv, <1>1, PTL DEF Spec, IdleIsQuiet
=============================================================================
