-------------------------- MODULE AdepoServerProofs --------------------------
(***************************************************************************)
(* Server: its type correctness, what it shows its clients, and that it    *)
(* keeps its promise about results.                                        *)
(***************************************************************************)
EXTENDS AdepoServer, TLAPS

USE DEF LwdaqState, AdepoState, Mode, Content

-----------------------------------------------------------------------------
(* Type correctness is inductive.                                          *)
LEMMA InitTypeOK == Init => TypeOK
  BY DEF Init, TypeOK

(* The actions that are one call of a client.                              *)
LEMMA CallTypeOK == ASSUME TypeOK, Call PROVE TypeOK'
<1>1. CASE StartDAQ
  BY <1>1 DEF TypeOK, Call, StartDAQ, RunDAQ, RunAborted
<1>2. CASE StopDAQ
  BY <1>2 DEF TypeOK, Call, StopDAQ
<1>3. ASSUME NEW m \in Mode, NEW ds \in SUBSET Detectors,
             UpdateRun(m, ds)
      PROVE  TypeOK'
  BY <1>3 DEF TypeOK, Call, UpdateRun
<1>4. CASE UpdateAll
  BY <1>3, <1>4 DEF TypeOK, UpdateAll
<1> QED
  BY <1>1, <1>2, <1>3, <1>4 DEF Call

(* The reaction to a change of the state of LWDAQ_Client.                  *)
LEMMA LwdaqStateChangedTypeOK ==
  ASSUME TypeOK, LwdaqStateChanged PROVE TypeOK'
<1>1. CASE LwdaqIdle
  <2>1. /\ data' \subseteq Detectors
        /\ output' \subseteq Detectors
        /\ needToCalculateResults' \in BOOLEAN
    BY <1>1 DEF TypeOK, LwdaqIdle, CalculateCoordinates, Rejected, Calculated
  <2> QED
    BY <1>1, <2>1 DEF TypeOK, LwdaqIdle, LwdaqStateChanged
<1>2. CASE LwdaqRun
  BY <1>2 DEF TypeOK, LwdaqRun, LwdaqStateChanged
<1>3. CASE LwdaqStop
  BY <1>3 DEF TypeOK, LwdaqStop, LwdaqStateChanged
<1>4. CASE LwdaqConnecting
  BY <1>4 DEF TypeOK, LwdaqConnecting, LwdaqStateChanged
<1> QED
  BY <1>1, <1>2, <1>3, <1>4 DEF LwdaqStateChanged

LEMMA NextTypeOK == TypeOK /\ [Next]_vars => TypeOK'
<1> SUFFICES ASSUME TypeOK, [Next]_vars PROVE TypeOK'
  OBVIOUS
<1>1. CASE Call
  BY <1>1, CallTypeOK
<1>2. CASE WaitingTimeout /\ UNCHANGED lwdaqState
  BY <1>2 DEF TypeOK, WaitingTimeout, RunDAQ, RunAborted
<1>3. CASE LwdaqStateChanged
  BY <1>3, LwdaqStateChangedTypeOK
<1>4. CASE CalculateThrows /\ UNCHANGED lwdaqState
  BY <1>4 DEF TypeOK, CalculateThrows, memoryVars
<1>5. CASE Crash /\ UNCHANGED lwdaqState
  BY <1>5 DEF TypeOK, Crash, memoryVars
<1>6. CASE Restart /\ lwdaqState' = "CONNECTING"
  BY <1>6 DEF TypeOK, Restart
<1>7. CASE Measure
  BY <1>7 DEF TypeOK, Measure, serverVars, memoryVars
<1>8. CASE UNCHANGED vars
  BY <1>8 DEF TypeOK, vars, serverVars, memoryVars
<1> QED
  BY <1>1, <1>2, <1>3, <1>4, <1>5, <1>6, <1>7, <1>8 DEF Next

(***************************************************************************)
(* Every variable of Server keeps its type.                                *)
(***************************************************************************)
THEOREM TypeCorrect == Spec => []TypeOK
  BY InitTypeOK, NextTypeOK, PTL DEF Spec

-----------------------------------------------------------------------------
(***************************************************************************)
(* What is shown.  ShownState needs the types to know that there is no     *)
(* fifth state of LWDAQ.                                                   *)
(***************************************************************************)
Shown == TypeOK /\ ShownState

LEMMA InitShown == Init => Shown
  BY InitTypeOK DEF Init, Shown, ShownState

LEMMA NextShown == Shown /\ [Next]_vars => Shown'
<1> SUFFICES ASSUME Shown, [Next]_vars PROVE ShownState'
  BY NextTypeOK DEF Shown
<1> USE DEF Shown, ShownState
<1>1. CASE alive /\ Call
  <2>1. CASE StartDAQ
    BY <1>1, <2>1 DEF Call, StartDAQ, RunDAQ, RunAborted
  <2>2. CASE StopDAQ
    BY <1>1, <2>2 DEF Call, StopDAQ, TypeOK
  <2>3. ASSUME NEW m \in Mode, NEW ds \in SUBSET Detectors,
             UpdateRun(m, ds)
        PROVE  ShownState'
    BY <1>1, <2>3 DEF Call, UpdateRun
  <2>4. CASE UpdateAll
    BY <1>1, <2>4 DEF Call, UpdateAll, UpdateRun
  <2> QED
    BY <1>1, <2>1, <2>2, <2>3, <2>4 DEF Call
<1>2. CASE WaitingTimeout /\ UNCHANGED lwdaqState
  BY <1>2 DEF WaitingTimeout, RunDAQ, RunAborted
<1>3. CASE LwdaqStateChanged
  BY <1>3 DEF LwdaqStateChanged, LwdaqIdle, LwdaqRun, LwdaqStop,
              LwdaqConnecting, TypeOK
<1>4. CASE CalculateThrows /\ UNCHANGED lwdaqState
  BY <1>4 DEF CalculateThrows, memoryVars
<1>5. CASE Crash /\ UNCHANGED lwdaqState
  BY <1>5 DEF Crash, memoryVars
<1>6. CASE Restart /\ lwdaqState' = "CONNECTING"
  BY <1>6 DEF Restart
<1>7. CASE Measure
  BY <1>7 DEF Measure, serverVars, memoryVars
<1>8. CASE UNCHANGED vars
  BY <1>8 DEF vars, serverVars, memoryVars
<1> QED
  BY <1>1, <1>2, <1>3, <1>4, <1>5, <1>6, <1>7, <1>8 DEF Next

(***************************************************************************)
(* The clients are always shown a state that agrees with the one of LWDAQ. *)
(***************************************************************************)
THEOREM ShownStateAgrees == Spec => []ShownState
  BY InitShown, NextShown, PTL DEF Spec, Shown

-----------------------------------------------------------------------------
(***************************************************************************)
(* The promise: every action of Server is a step of DaqRun or a stutter.   *)
(* Type correctness is all the invariant that it takes.                    *)
(***************************************************************************)
LEMMA LwdaqStateChangedPromise ==
  ASSUME TypeOK, LwdaqStateChanged PROVE [Promise!Next]_(Promise!vars)
<1> USE DEF LwdaqStateChanged, Promise!vars, Promise!Next
<1>1. CASE LwdaqIdle /\ needToCalculateResults
  <2>1. /\ needToCalculateResults' = FALSE
        /\ UNCHANGED <<detectors, resultFile>>
        /\ Rejected \/ Calculated
    BY <1>1 DEF LwdaqIdle, CalculateCoordinates
  <2>2. CASE Rejected
    <3>1. PICK read \in SUBSET (resultFile \cap detectors) :
                data' = data \cup read
      BY <2>2 DEF Rejected
    <3>2. output' = output
      BY <2>2 DEF Rejected
    <3>3. Promise!GiveUp
      BY <1>1, <2>1, <3>1, <3>2 DEF Promise!GiveUp
    <3> QED
      BY <3>3
  <2>3. CASE Calculated
    <3>1. /\ resultFile # {} /\ data \cup resultFile \subseteq detectors
          /\ output' = data \cup resultFile /\ data' = {}
      BY <2>3 DEF Calculated
    <3>2. Promise!Publish
      BY <1>1, <2>1, <3>1 DEF Promise!Publish
    <3> QED
      BY <3>2
  <2> QED
    BY <2>1, <2>2, <2>3
<1>2. CASE LwdaqIdle /\ ~needToCalculateResults
  BY <1>2 DEF LwdaqIdle
<1>3. CASE LwdaqRun
  BY <1>3 DEF LwdaqRun
<1>4. CASE LwdaqStop
  BY <1>4 DEF LwdaqStop
<1>5. CASE LwdaqConnecting
  BY <1>5 DEF LwdaqConnecting, Promise!Cancel
<1> QED
  BY <1>1, <1>2, <1>3, <1>4, <1>5

LEMMA CallPromise ==
  ASSUME TypeOK, Call PROVE [Promise!Next]_(Promise!vars)
<1> USE DEF Promise!vars, Promise!Next
<1>1. CASE StartDAQ
  BY <1>1 DEF StartDAQ, RunDAQ, RunAborted, Promise!Start, Promise!StartOnTop
<1>2. CASE StopDAQ
  BY <1>2 DEF StopDAQ, Promise!Cancel
<1>3. ASSUME NEW m \in Mode, NEW ds \in SUBSET Detectors, UpdateRun(m, ds)
      PROVE  [Promise!Next]_(Promise!vars)
  BY <1>3 DEF UpdateRun, Promise!Select
<1>4. CASE UpdateAll
  BY <1>3, <1>4 DEF UpdateAll, TypeOK
<1> QED
  BY <1>1, <1>2, <1>3, <1>4 DEF Call

LEMMA NextPromise ==
  TypeOK /\ [Next]_vars => [Promise!Next]_(Promise!vars)
<1> SUFFICES ASSUME TypeOK, [Next]_vars PROVE [Promise!Next]_(Promise!vars)
  OBVIOUS
<1> USE DEF Promise!vars, Promise!Next
<1>1. CASE Call
  BY <1>1, CallPromise
<1>2. CASE WaitingTimeout /\ UNCHANGED lwdaqState
  BY <1>2 DEF WaitingTimeout, RunDAQ, RunAborted, Promise!Start,
              Promise!StartOnTop
<1>3. CASE LwdaqStateChanged
  BY <1>3, LwdaqStateChangedPromise
<1>4. CASE CalculateThrows /\ UNCHANGED lwdaqState
  BY <1>4 DEF CalculateThrows, memoryVars
<1>5. CASE Crash /\ UNCHANGED lwdaqState
  BY <1>5 DEF Crash, memoryVars
<1>6. CASE Restart /\ lwdaqState' = "CONNECTING"
  BY <1>6 DEF Restart, Promise!Restart, TypeOK
<1>7. CASE Measure
  <2>1. PICK c \in Content : resultFile' = resultFile \cup {c}
    BY <1>7 DEF Measure
  <2>2. Promise!Measure
    BY <1>7, <2>1 DEF Measure, serverVars, memoryVars, Promise!Measure
  <2> QED
    BY <2>2
<1>8. CASE UNCHANGED vars
  BY <1>8 DEF vars, serverVars, memoryVars
<1> QED
  BY <1>1, <1>2, <1>3, <1>4, <1>5, <1>6, <1>7, <1>8 DEF Next

(***************************************************************************)
(* Server implements DaqRun: results are published at most once for a      *)
(* start, never for a run that was stopped or cut off, and they are what   *)
(* was measured since that start, of selected detectors only, and what a   *)
(* calculation that was given up had left.                                 *)
(***************************************************************************)
THEOREM PromiseKept == Spec => ResultsPromise
<1>1. Init => Promise!Init
  BY DEF Init, Promise!Init
<1>2. TypeOK /\ [Next]_vars => [Promise!Next]_(Promise!vars)
  BY NextPromise
<1> QED
  BY <1>1, <1>2, TypeCorrect, PTL DEF Spec, ResultsPromise, Promise!Spec

-----------------------------------------------------------------------------
(***************************************************************************)
(* Leftovers.  As long as no step fails nothing is left: a calculation     *)
(* finds no file or uses all of it, whatever else goes wrong.              *)
(***************************************************************************)
Clean == data = {} /\ "error" \notin resultFile

LEMMA NextClean == ~StepErrors /\ Clean /\ [Next]_vars => Clean'
<1> SUFFICES ASSUME ~StepErrors, Clean, [Next]_vars PROVE Clean'
  OBVIOUS
<1> USE DEF Clean
<1>1. CASE Call
  BY <1>1 DEF Call, StartDAQ, RunDAQ, RunAborted, StopDAQ, UpdateRun,
              UpdateAll
<1>2. CASE WaitingTimeout
  BY <1>2 DEF WaitingTimeout, RunDAQ, RunAborted
<1>3. CASE LwdaqStateChanged
  <2>1. CASE LwdaqIdle
    BY <1>3, <2>1 DEF LwdaqStateChanged, LwdaqIdle, CalculateCoordinates,
                      Rejected, Calculated
  <2>2. CASE LwdaqRun \/ LwdaqStop \/ LwdaqConnecting
    BY <1>3, <2>2 DEF LwdaqStateChanged, LwdaqRun, LwdaqStop, LwdaqConnecting
  <2> QED
    BY <1>3, <2>1, <2>2 DEF LwdaqStateChanged
<1>4. CASE CalculateThrows \/ Crash
  BY <1>4 DEF CalculateThrows, Crash, memoryVars
<1>5. CASE Restart
  BY <1>5 DEF Restart
<1>6. CASE Measure
  <2>1. PICK d \in Detectors : resultFile' = resultFile \cup {d}
    BY <1>6 DEF Measure
  <2>2. d # "error"
    BY DetectorsAssumption
  <2> QED
    BY <1>6, <2>1, <2>2 DEF Measure, serverVars, memoryVars
<1>7. CASE UNCHANGED vars
  BY <1>7 DEF vars, serverVars, memoryVars
<1> QED
  BY <1>1, <1>2, <1>3, <1>4, <1>5, <1>6, <1>7 DEF Next

(***************************************************************************)
(* If no acquisition step fails, server.cpp:240 is right: no spots are     *)
(* kept in memory between two calculations.                                *)
(***************************************************************************)
THEOREM NoErrorsNoLeftovers ==
  ASSUME ~StepErrors PROVE Spec => []AcquisitionsEmptied
<1>1. Init => Clean
  BY DEF Init, Clean
<1>2. Clean /\ [Next]_vars => Clean'
  BY NextClean
<1>3. Clean => AcquisitionsEmptied
  BY DEF Clean, AcquisitionsEmptied
<1> QED
  BY <1>1, <1>2, <1>3, PTL DEF Spec
=============================================================================
