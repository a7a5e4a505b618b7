---------------------------- MODULE MCDaqSystem ----------------------------
(* DaqSystem with a bounded number of buttons pressed and of failures.     *)
EXTENDS DaqSystem

CONSTANTS
  d1, d2, noFile,
  MaxPresses,  (* bound: buttons pressed                                   *)
  MaxEvents,   (* bound: buttons pressed and failures together             *)
  MaxFaults,   (* bound: failures                                          *)
  MaxPending   (* bound: commands, and lines, under way                    *)

VARIABLES
  presses, faults,
  stopped          (* history: the last start or stop handled was a stop   *)

MCDetectors == {d1, d2}
OneDetector == {d1}
NoDetector == {}
MCNoScript == {noFile}

mcVars == <<vars, presses, faults, stopped>>

MCInit == Init /\ presses = 0 /\ faults = 0 /\ stopped = FALSE

Handles(op) == calls # <<>> /\ Head(calls).op = op /\ calls' = Tail(calls)

MCNext ==
  /\ \/ Step /\ UNCHANGED <<presses, faults>>
     \/ /\ presses < MaxPresses /\ presses + faults < MaxEvents /\ Press
        /\ presses' = presses + 1 /\ UNCHANGED faults
     \/ /\ faults < MaxFaults /\ presses + faults < MaxEvents /\ Fault
        /\ faults' = faults + 1 /\ UNCHANGED presses
  /\ stopped' = (Handles("stop") \/ (stopped /\ ~Handles("start")))
  /\ Len(commands') <= MaxPending
  /\ Len(replies') <= MaxPending

MCSpec == MCInit /\ [][MCNext]_mcVars

(* Both event loops serve every event, and the restart script runs.  The   *)
(* polling of the status does not keep an acquisition from ending: SF.     *)
MCFairSpec ==
  /\ MCSpec
  /\ WF_vars(CallHandled) /\ WF_vars(WaitingTimeout)
  /\ WF_vars(RunTimeout) /\ WF_vars(StatusTimeout)
  /\ WF_vars(ConnectTimeout) /\ WF_vars(GotConnected)
  /\ WF_vars(ReadyRead) /\ WF_vars(ReadyReadThrows)
  /\ WF_vars(LwdaqCommand) /\ SF_vars(LwdaqStep)
  /\ WF_vars(ServerRestart)

-----------------------------------------------------------------------------
(***************************************************************************)
(* While a waiting period is running no measurement is, that is, no step   *)
(* of LWDAQ is executing and none is queued; and an idle server does not   *)
(* wait.  (When LWDAQ has no window, a new connection resets the           *)
(* Acquisifier while its events stay queued: after a lost connection it    *)
(* says Idle and still measures.  Without a window this and the two        *)
(* properties below are about behaviours in which nothing has failed.)     *)
(***************************************************************************)
WaitingIsExclusive ==
  waitingTimer =>
    /\ adepoState \in {"WAITING", "CONNECTING"}
    /\ control = "Idle"
    /\ Gui \/ faults = 0 => AtRest

(***************************************************************************)
(* Results are calculated from complete files, and a run is never started  *)
(* on top of another.                                                      *)
(***************************************************************************)
CalculatedAtRest   == [][Gui \/ faults' = 0 => ~CalculatesTooEarly]_mcVars
NotRemovedUnderRun == [][Gui \/ faults' = 0 => ~RemovesUnderRun]_mcVars

-----------------------------------------------------------------------------
(* What comments of the code say, and the code does not do.                *)

(***************************************************************************)
(* client.cpp:44: the stop buttons stop the acquisition.  After a stop the *)
(* server does not wait for another run to start.                          *)
(***************************************************************************)
StopStops == stopped => adepoState # "WAITING"

(***************************************************************************)
(* lwdaq_client.cpp:83: the init script gets the initial status.  With     *)
(* LWDAQ at rest, a connection does not stay for ever at its init list.    *)
(***************************************************************************)
InitialStatus ==
  []<>~(/\ alive /\ socket = "up" /\ script = "init"
        /\ lwdaqState = "CONNECTING" /\ AtRest)

(***************************************************************************)
(* lwdaq_client.cpp:65: "redirect output to incoming socket".  When the    *)
(* init list has come to its end, the steps that LWDAQ executes write      *)
(* their results to the connection.                                        *)
(***************************************************************************)
OutputIsRedirected ==
  [][executing /\ ~executing' /\ socket = "up" /\ lwdaqState # "CONNECTING" =>
       replies' # replies]_mcVars
=============================================================================
