-------------------------- MODULE LwdaqClientProofs --------------------------
(***************************************************************************)
(* LWDAQ_Client: type correctness, the indices of its lists, and that it   *)
(* reconnects, whatever LWDAQ answers and however many lines are under     *)
(* way.                                                                    *)
(***************************************************************************)
EXTENDS LwdaqClient, SequenceTheorems, TLAPS

USE DEF LwdaqState, ScriptName, timerVars, clientVars

(***************************************************************************)
(* The invariant is the conjunction of the properties: a stop, the only    *)
(* change to the short stop script, needs the state RUN, for which         *)
(* NoConnectionNoState gives a connection.                                 *)
(***************************************************************************)
Inv == TypeOK /\ Reconnects /\ IndexSafe /\ NoConnectionNoState

-----------------------------------------------------------------------------
(* The lengths of the three scripts, and their commands.                   *)
LEMMA LengthValues ==
  Length("init") = 6 /\ Length("run") = 5 /\ Length("stop") = 2
  BY DEF Length

LEMMA ScriptCommands ==
  ASSUME NEW s \in ScriptName, NEW p \in BOOLEAN, NEW no \in 0..Length(s)-1
  PROVE  Cmd(s, p, no) \in Command
<1>1. CASE s = "init"
  BY <1>1 DEF Cmd, Script, InitScript, Length, Command
<1>2. CASE s = "run"
  BY <1>2 DEF Cmd, Script, RunScript, Length, Command
<1>3. CASE s = "stop"
  BY <1>3 DEF Cmd, Script, StopScript, Length, Command
<1> QED
  BY <1>1, <1>2, <1>3

(* Writing keeps the type of the commands under way.                       *)
LEMMA WriteType ==
  ASSUME commands \in Seq(Command), NEW c \in Command, Write(c)
  PROVE  commands' \in Seq(Command)
  BY DEF Write

(* What a slot that reads a line leaves.                                   *)
LEMMA SplitType ==
  ASSUME NEW b \in Seq(Line), NEW r \in Seq(Line), NEW n \in 1..Len(r)
  PROVE  LET unread == b \o SubSeq(r, 1, n)
         IN  /\ unread \in Seq(Line) /\ unread # <<>>
             /\ Head(unread) \in Line /\ Tail(unread) \in Seq(Line)
             /\ SubSeq(r, n + 1, Len(r)) \in Seq(Line)
<1> DEFINE unread == b \o SubSeq(r, 1, n)
<1>1. SubSeq(r, 1, n) \in Seq(Line) /\ Len(SubSeq(r, 1, n)) = n
  BY SubSeqProperties
<1>2. unread \in Seq(Line) /\ Len(unread) = Len(b) + n
  BY <1>1, ConcatProperties
<1>3. unread # <<>>
  BY <1>2, EmptySeq
<1>4. Head(unread) \in Line /\ Tail(unread) \in Seq(Line)
  BY <1>2, <1>3, HeadTailProperties
<1>5. SubSeq(r, n + 1, Len(r)) \in Seq(Line)
  BY SubSeqProperties
<1> QED
  BY <1>2, <1>3, <1>4, <1>5

-----------------------------------------------------------------------------
LEMMA InitInv == Init => Inv
<1> SUFFICES ASSUME Init PROVE Inv
  OBVIOUS
<1>1. <<>> \in Seq(Line) /\ <<>> \in Seq(Command)
  BY EmptySeq
<1>2. Length(script) = 6
  BY LengthValues DEF Init
<1>3. TypeOK
  <2>1. buffer \in Seq(Line) /\ commands \in Seq(Command) /\ replies \in Seq(Line)
    BY <1>1, Zenon DEF Init
  <2>2. cmdNo \in 0..Length(script)
    BY <1>2 DEF Init
  <2> QED
    BY <2>1, <2>2, Zenon DEF Init, TypeOK
<1>4. Reconnects /\ IndexSafe /\ NoConnectionNoState
  BY <1>2 DEF Init, Reconnects, IndexSafe, NoConnectionNoState
<1> QED
  BY <1>3, <1>4 DEF Inv

(***************************************************************************)
(* One step per slot.                                                      *)
(***************************************************************************)
LEMMA ConnectTimeoutInv == ASSUME Inv, ConnectTimeout PROVE Inv'
<1>1. <<>> \in Seq(Line) /\ <<>> \in Seq(Command)
  BY EmptySeq
<1>2. TypeOK'
  <2>1. Length(script') = 6 /\ cmdNo' = 0 /\ script' \in ScriptName
    BY LengthValues DEF ConnectTimeout, InitCommands, NewScript
  <2>2. /\ connectTimer' \in BOOLEAN /\ patched' \in BOOLEAN
        /\ runTimer' \in BOOLEAN /\ statusTimer' \in BOOLEAN
    BY DEF Inv, TypeOK, ConnectTimeout, InitCommands, NewScript
  <2> QED
    BY <1>1, <2>1, <2>2 DEF TypeOK, ConnectTimeout, Discard
<1>3. Reconnects' /\ IndexSafe' /\ NoConnectionNoState'
  BY LengthValues DEF Inv, TypeOK, Reconnects, IndexSafe,
     NoConnectionNoState, ConnectTimeout, InitCommands, NewScript,
     Discard
<1> QED
  BY <1>2, <1>3 DEF Inv

LEMMA GotConnectedInv == ASSUME Inv, GotConnected PROVE Inv'
<1>1. Length(script) \in Nat /\ cmdNo \in 0..Length(script)-1
  BY LengthValues DEF Inv, TypeOK, IndexSafe, GotConnected
<1>2. Cmd(script, patched, cmdNo) \in Command
  BY <1>1, ScriptCommands DEF Inv, TypeOK
<1>3. TypeOK'
  BY <1>1, <1>2 DEF Inv, TypeOK, GotConnected
<1>4. Reconnects' /\ IndexSafe' /\ NoConnectionNoState'
  BY <1>1 DEF Inv, TypeOK, Reconnects, IndexSafe, NoConnectionNoState,
              GotConnected
<1> QED
  BY <1>3, <1>4 DEF Inv

(* The connection cannot be made, or is lost.                              *)
LEMMA DownInv ==
  ASSUME Inv, ConnectionRefused \/ ConnectionFailed \/ GotDisconnected
  PROVE  Inv'
<1>1. <<>> \in Seq(Line) /\ <<>> \in Seq(Command)
  BY EmptySeq
<1>2. CASE ConnectionRefused
  BY <1>1, <1>2 DEF ConnectionRefused, Discard, Inv, TypeOK, Reconnects,
                    IndexSafe, NoConnectionNoState
<1>3. CASE ConnectionFailed
  BY <1>1, <1>3 DEF ConnectionFailed, Discard, Inv, TypeOK, Reconnects,
                    IndexSafe, NoConnectionNoState
<1>4. CASE GotDisconnected
  BY <1>1, <1>4 DEF GotDisconnected, Discard, Inv, TypeOK, Reconnects,
                    IndexSafe, NoConnectionNoState
<1> QED
  BY <1>2, <1>3, <1>4

LEMMA ReadStatusInv ==
  ASSUME Inv, socket = "up", NEW line \in Line, ReadStatus(line),
         buffer' \in Seq(Line), replies' \in Seq(Line)
  PROVE  Inv'
<1>1. Length(script) \in Nat
  BY LengthValues DEF Inv, TypeOK
<1>2. patched' \in BOOLEAN
  BY DEF Inv, TypeOK, ReadStatus
<1>3. lwdaqState' \in LwdaqState /\ statusTimer' \in BOOLEAN
  BY DEF Inv, TypeOK, ReadStatus, StateOf, IsState
<1>4. /\ commands' \in Seq(Command)
      /\ cmdNo' \in 1..Length(script)
  <2>1. CASE IsError(line)
    BY <1>1, <2>1, WriteType
       DEF Inv, TypeOK, IndexSafe, ReadStatus, Command
  <2>2. CASE /\ ~IsError(line)
             /\ Matches(line, Ret(script, patched', cmdNo - 1))
             /\ cmdNo < Length(script)
    <3>1. cmdNo \in 0..Length(script)-1
      BY <1>1, <2>2 DEF Inv, TypeOK
    <3>2. Cmd(script, patched', cmdNo) \in Command
      BY <1>2, <3>1, ScriptCommands DEF Inv, TypeOK
    <3> QED
      BY <1>1, <2>2, <3>1, <3>2, WriteType DEF Inv, TypeOK, ReadStatus
  <2>3. CASE /\ ~IsError(line)
             /\ ~(/\ Matches(line, Ret(script, patched', cmdNo - 1))
                  /\ cmdNo < Length(script))
    BY <1>1, <2>3 DEF Inv, TypeOK, IndexSafe, ReadStatus
  <2> QED
    BY <2>1, <2>2, <2>3
<1> QED
  BY <1>1, <1>2, <1>3, <1>4 DEF Inv, TypeOK, Reconnects, IndexSafe,
     NoConnectionNoState, ReadStatus

LEMMA ReadyReadInv ==
  ASSUME Inv, NEW n \in 1..Len(replies), ReadyRead(n) PROVE Inv'
<1> DEFINE unread == buffer \o SubSeq(replies, 1, n)
<1>1. /\ Head(unread) \in Line /\ Tail(unread) \in Seq(Line)
      /\ SubSeq(replies, n + 1, Len(replies)) \in Seq(Line)
  BY SplitType DEF Inv, TypeOK
<1>2. buffer' \in Seq(Line) /\ replies' \in Seq(Line)
  BY <1>1 DEF ReadyRead
<1> QED
  BY <1>1, <1>2, ReadStatusInv DEF ReadyRead

LEMMA StartRunInv == ASSUME Inv, StartRun PROVE Inv'
<1>1. commands' \in Seq(Command)
  BY WriteType DEF Inv, TypeOK, StartRun, StartScript, Command
<1>2. Length(script') = 5 /\ cmdNo' = 1
  BY LengthValues DEF StartRun, StartScript, NewScript
<1>3. TypeOK'
  <2>1. cmdNo' \in 0..Length(script')
    BY <1>2
  <2> QED
    BY <1>1, <2>1, Zenon DEF Inv, TypeOK, StartRun, StartScript,
                                  NewScript
<1>4. Reconnects' /\ IndexSafe' /\ NoConnectionNoState'
  BY <1>2 DEF Inv, TypeOK, Reconnects, IndexSafe, NoConnectionNoState,
              StartRun, StartScript, NewScript
<1> QED
  BY <1>3, <1>4 DEF Inv

LEMMA StopRunInv == ASSUME Inv, StopRun PROVE Inv'
<1>1. CASE lwdaqState = "RUN"
  <2>1. socket = "up"
    BY <1>1 DEF Inv, NoConnectionNoState, TypeOK
  <2>2. commands' \in Seq(Command)
    BY <1>1, WriteType DEF Inv, TypeOK, StopRun, SendStop, StartScript,
                              Command
  <2>3. Length(script') = 2 /\ cmdNo' = 1
    BY <1>1, LengthValues DEF StopRun, SendStop, StartScript, NewScript
  <2>4. TypeOK'
    <3>1. cmdNo' \in 0..Length(script')
      BY <2>3
    <3> QED
      BY <1>1, <2>2, <3>1, Zenon DEF Inv, TypeOK, StopRun, SendStop,
                                        StartScript, NewScript
  <2>5. Reconnects' /\ IndexSafe' /\ NoConnectionNoState'
    BY <1>1, <2>1, <2>3
       DEF Inv, TypeOK, Reconnects, IndexSafe, NoConnectionNoState, StopRun,
           SendStop, StartScript, NewScript
  <2> QED
    BY <2>4, <2>5 DEF Inv
<1>2. CASE lwdaqState # "RUN"
  BY <1>2 DEF StopRun, vars, Inv, TypeOK, Reconnects, IndexSafe,
              NoConnectionNoState
<1> QED
  BY <1>1, <1>2

LEMMA RunTimeoutInv == ASSUME Inv, RunTimeout PROVE Inv'
<1>1. CASE lwdaqState = "RUN" /\ StopRun
  BY <1>1, StopRunInv
<1>2. CASE lwdaqState # "RUN"
  <2>1. TypeOK'
    BY <1>2 DEF RunTimeout, Inv, TypeOK
  <2>2. Reconnects' /\ IndexSafe' /\ NoConnectionNoState'
    BY <1>2 DEF RunTimeout, Inv, TypeOK, Reconnects, IndexSafe,
                NoConnectionNoState
  <2> QED
    BY <2>1, <2>2 DEF Inv
<1> QED
  BY <1>1, <1>2 DEF RunTimeout

LEMMA StatusTimeoutInv == ASSUME Inv, StatusTimeout PROVE Inv'
<1>1. commands' \in Seq(Command)
  BY WriteType DEF Inv, TypeOK, StatusTimeout, Command
<1> QED
  BY <1>1 DEF StatusTimeout, Inv, TypeOK, Reconnects, IndexSafe,
              NoConnectionNoState

LEMMA RestartInv == ASSUME Inv, Restart PROVE Inv'
<1>1. <<>> \in Seq(Line) /\ <<>> \in Seq(Command)
  BY EmptySeq
<1>2. Length(script') = 6 /\ cmdNo' = 0
  BY LengthValues DEF Restart, InitCommands, NewScript
<1>3. TypeOK'
  <2>1. cmdNo' \in 0..Length(script')
    BY <1>2
  <2> QED
    BY <1>1, <2>1, Zenon DEF Restart, InitCommands, NewScript, Discard, TypeOK
<1>4. Reconnects' /\ IndexSafe' /\ NoConnectionNoState'
  BY <1>2 DEF Restart, Discard, Reconnects, IndexSafe, NoConnectionNoState
<1> QED
  BY <1>3, <1>4 DEF Inv

LEMMA LwdaqInv == ASSUME Inv, Lwdaq PROVE Inv'
<1>1. commands' \in Seq(Command)
  BY HeadTailProperties DEF Inv, TypeOK, Lwdaq
<1>2. replies' \in Seq(Line)
  BY DEF Inv, TypeOK, Lwdaq
<1> QED
  BY <1>1, <1>2 DEF Lwdaq, Inv, TypeOK, Reconnects, IndexSafe,
                    NoConnectionNoState

LEMMA NextInv == Inv /\ [Next]_vars => Inv'
<1> SUFFICES ASSUME Inv, [Next]_vars PROVE Inv'
  OBVIOUS
<1>1. CASE Receive
  BY <1>1, ReadyReadInv DEF Receive
<1>2. CASE UNCHANGED vars
  BY <1>2 DEF vars, Inv, TypeOK, Reconnects, IndexSafe, NoConnectionNoState
<1> QED
  BY <1>1, <1>2, ConnectTimeoutInv, GotConnectedInv, DownInv, StartRunInv,
     StopRunInv, RunTimeoutInv, StatusTimeoutInv, RestartInv, LwdaqInv
     DEF Next

LEMMA InvHolds == Spec => []Inv
  BY InitInv, NextInv, PTL DEF Spec

-----------------------------------------------------------------------------
(***************************************************************************)
(* Every variable of LWDAQ_Client keeps its type.                          *)
(***************************************************************************)
THEOREM TypeCorrect == Spec => []TypeOK
  BY InvHolds, PTL DEF Inv

(***************************************************************************)
(* The reconnection timer never interrupts a connection, and runs whenever *)
(* there is none.                                                          *)
(***************************************************************************)
THEOREM NeverGivesUp == Spec => []Reconnects
  BY InvHolds, PTL DEF Inv

(***************************************************************************)
(* cmd[cmdNo] and ret[cmdNo - 1] are always inside the lists.              *)
(***************************************************************************)
THEOREM IndicesInRange == Spec => []IndexSafe
  BY InvHolds, PTL DEF Inv

(***************************************************************************)
(* Nothing of an old connection survives it.                               *)
(***************************************************************************)
THEOREM ConnectionLeavesNothing == Spec => []NoConnectionNoState
  BY InvHolds, PTL DEF Inv
=============================================================================
