------------------------------- MODULE Bridge -------------------------------
(***************************************************************************)
(* The websocket bridge between adepo-server and its graphical clients:    *)
(* calls go up and callbacks go down, each callback to every client.  A    *)
(* callback that changes a widget makes the widget call the server again.  *)
(*                                                                         *)
(* adepoState changes here in any way; why it does is in AdepoServer.  The *)
(* run has one setting of each kind of widget: instant (airpad, precision) *)
(* whose signal comes at once, and time (acquisition and waiting time) in  *)
(* a spin box that signals half a second after its last change.            *)
(***************************************************************************)
EXTENDS Naturals, Sequences

CONSTANT Guis   (* the clients                                             *)

VARIABLES
  adepoState,   (* adepoState of the server                                *)
  run,          (* run of the server                                       *)
  runFile,      (* run_file.json                                           *)
  clients,      (* clients of SocketServer                                 *)
  link,         (* the state of webSocket; the reconnectTimer is active    *)
                (* while it is closed                                      *)
  handlers,     (* how often onTextMessageReceived is connected            *)
  handled,      (* how many of these slots have handled the first callback *)
  gui,          (* the state of each client                                *)
  up,           (* calls under way from each client                        *)
  down          (* callbacks under way to each client                      *)

serverVars == <<adepoState, run, runFile, clients>>
vars == <<serverVars, link, handlers, handled, gui, up, down>>

AdepoState == {"CONNECTING", "IDLE", "RUN", "STOP", "WAITING"}
Run == [mode : {"CLOSURE", "MONITORING"}, instant : BOOLEAN, time : 0 .. 1]
DefaultRun == [mode |-> "CLOSURE", instant |-> FALSE, time |-> 0]

Gui == [shown : AdepoState,      (* adepoState of the client               *)
        canStart : BOOLEAN,      (* the start buttons are enabled          *)
        filled : BOOLEAN,        (* the configuration was read             *)
        held : Run,              (* run of the client                      *)
        time : 0 .. 1,           (* the value of the spin box              *)
        spinTimer : BOOLEAN]     (* the timer of the spin box is active    *)

ChangedState(s) == [op |-> "changedState", state |-> s]
ChangedRun(r) == [op |-> "changedRun", run |-> r]
ChangedConfiguration == [op |-> "changedConfiguration"]
Update(r) == [op |-> "updateRun", run |-> r]
Simple(op) == [op |-> op]

Callback ==
  {ChangedState(s) : s \in AdepoState} \cup {ChangedRun(r) : r \in Run}
    \cup {ChangedConfiguration}
Call ==
  {Update(r) : r \in Run} \cup {Simple(op) : op \in {"start", "stop", "updateAll"}}

TypeOK ==
  /\ adepoState \in AdepoState
  /\ run \in Run /\ runFile \in Run
  /\ clients \subseteq Guis
  /\ link \in [Guis -> {"closed", "opening", "open"}]
  /\ handlers \in [Guis -> Nat]
  /\ handled \in [Guis -> Nat]
  /\ gui \in [Guis -> Gui]
  /\ up \in [Guis -> Seq(Call)]
  /\ down \in [Guis -> Seq(Callback)]

(* The server has started, the clients are starting.  The spin boxes do    *)
(* not show the default of the run (client.ui).                            *)
Init ==
  /\ adepoState = "CONNECTING"
  /\ run \in Run /\ runFile = run
  /\ clients = {}
  /\ link = [g \in Guis |-> "opening"]
  /\ handlers = [g \in Guis |-> 0]
  /\ handled = [g \in Guis |-> 0]
  /\ gui = [g \in Guis |->
       [shown |-> "CONNECTING", canStart |-> FALSE, filled |-> FALSE,
        held |-> DefaultRun, time |-> 1, spinTimer |-> FALSE]]
  /\ up = [g \in Guis |-> <<>>]
  /\ down = [g \in Guis |-> <<>>]

-----------------------------------------------------------------------------
(* The callbacks of a client in state s.                                   *)

ShowState(s, state) ==
  [s EXCEPT !.shown = state, !.canStart = (state = "IDLE" /\ s.filled)]

ShowRun(s, r) ==
  [s EXCEPT !.held = r,
            !.time = r.time,
            !.spinTimer = s.spinTimer \/ s.time # r.time]

(* changedConfiguration() shows the run again, with its detectors.         *)
After(s, m) ==
  IF m.op = "changedState" THEN ShowState(s, m.state)
  ELSE IF m.op = "changedRun" THEN ShowRun(s, m.run)
  ELSE ShowRun([s EXCEPT !.filled = TRUE], s.held)

(* Mutant of Echo: the widget signals when it is set, changed or not.      *)
EchoAlways(s, m) == IF m.op = "changedRun" THEN <<Update(m.run)>> ELSE <<>>

(* What the widgets that change make the client send.                      *)
Echo(s, m) ==
  IF m.op = "changedRun" /\ m.run.instant # s.held.instant
  THEN <<Update(m.run)>>
  ELSE <<>>

(* sendJson() of a client: lost unless the socket is connected.            *)
Send(g, calls) ==
  up' = IF link[g] = "open" THEN [up EXCEPT ![g] = @ \o calls] ELSE up

(* One of the connected slots handles the callback.                        *)
Receive(g) ==
  /\ link[g] = "open"
  /\ down[g] # <<>>
  /\ gui' = [gui EXCEPT ![g] = After(@, Head(down[g]))]
  /\ Send(g, Echo(gui[g], Head(down[g])))
  /\ IF handled[g] + 1 < handlers[g]
     THEN /\ handled' = [handled EXCEPT ![g] = @ + 1]
          /\ UNCHANGED down
     ELSE /\ handled' = [handled EXCEPT ![g] = 0]
          /\ down' = [down EXCEPT ![g] = Tail(@)]
  /\ UNCHANGED <<serverVars, link, handlers>>

(* Between two callbacks a client serves its other events.                 *)
Free(g) == handled[g] = 0

-----------------------------------------------------------------------------
(* The connection.                                                         *)

(* SocketServer::onNewConnection().                                        *)
NewConnection(g) ==
  /\ link[g] = "opening"
  /\ g \notin clients
  /\ clients' = clients \cup {g}
  /\ UNCHANGED <<adepoState, run, runFile, link, handlers, handled, gui, up, down>>

OnConnected(g) ==
  /\ link[g] = "opening" /\ g \in clients
  /\ link' = [link EXCEPT ![g] = "open"]
  /\ handlers' = [handlers EXCEPT ![g] = @ + 1]
  /\ up' = [up EXCEPT ![g] = Append(@, Simple("updateAll"))]
  /\ UNCHANGED <<serverVars, handled, gui, down>>

(* A connection that is refused is reported as disconnected too.           *)
ConnectFails(g) ==
  /\ link[g] = "opening" /\ g \notin clients
  /\ link' = [link EXCEPT ![g] = "closed"]
  /\ gui' = [gui EXCEPT ![g] = ShowState(@, "CONNECTING")]
  /\ UNCHANGED <<serverVars, handlers, handled, up, down>>

(* The first of the calls under way still arrive.                          *)
SocketDisconnected(g) ==
  /\ link[g] = "open" /\ Free(g)
  /\ link' = [link EXCEPT ![g] = "closed"]
  /\ gui' = [gui EXCEPT ![g] = ShowState(@, "CONNECTING")]
  /\ down' = [down EXCEPT ![g] = <<>>]
  /\ \E n \in 0 .. Len(up[g]) : up' = [up EXCEPT ![g] = SubSeq(@, 1, n)]
  /\ clients' = clients \ {g}
  /\ UNCHANGED <<adepoState, run, runFile, handlers, handled>>

Reconnect(g) ==
  /\ link[g] = "closed"
  /\ link' = [link EXCEPT ![g] = "opening"]
  /\ UNCHANGED <<serverVars, handlers, handled, gui, up, down>>

-----------------------------------------------------------------------------
(* The user of client g.                                                   *)

StartIn(g, m) ==
  /\ gui[g].canStart
  /\ gui' = [gui EXCEPT ![g].held.mode = m]
  /\ Send(g, <<Update([gui[g].held EXCEPT !.mode = m]), Simple("start")>>)
  /\ UNCHANGED <<serverVars, link, handlers, handled, down>>

Stop(g) ==
  /\ gui[g].shown \in {"RUN", "WAITING"}
  /\ Send(g, <<Simple("stop"), Update(gui[g].held)>>)
  /\ UNCHANGED <<serverVars, link, handlers, handled, gui, down>>

(* changedFormat(), which is always enabled, and changedAirpad().          *)
ChangedInstant(g) ==
  LET r == [gui[g].held EXCEPT !.instant = ~@] IN
    /\ gui' = [gui EXCEPT ![g].held = r]
    /\ Send(g, <<Update(r)>>)
    /\ UNCHANGED <<serverVars, link, handlers, handled, down>>

(* Mutant of SpinBox: it has no maximum.                                   *)
SpinBoxUnlimited(g) ==
  /\ gui[g].shown \in {"CONNECTING", "IDLE"}
  /\ gui' = [gui EXCEPT ![g].time = @ + 1, ![g].spinTimer = TRUE]
  /\ UNCHANGED <<serverVars, link, handlers, handled, up, down>>

SpinBox(g) ==
  /\ gui[g].shown \in {"CONNECTING", "IDLE"}
  /\ gui' = [gui EXCEPT ![g].time = 1 - @, ![g].spinTimer = TRUE]
  /\ UNCHANGED <<serverVars, link, handlers, handled, up, down>>

(* Mutant of SpinTimeout: the server is not told.                          *)
SpinTimeoutUntold(g) ==
  /\ gui[g].spinTimer /\ Free(g)
  /\ gui' = [gui EXCEPT ![g].held.time = gui[g].time, ![g].spinTimer = FALSE]
  /\ UNCHANGED <<serverVars, link, handlers, handled, up, down>>

(* Mutant of SpinTimeout: the timer is not single shot.                    *)
SpinTimeoutRepeats(g) ==
  LET r == [gui[g].held EXCEPT !.time = gui[g].time] IN
    /\ gui[g].spinTimer /\ Free(g)
    /\ gui' = [gui EXCEPT ![g].held = r]
    /\ Send(g, <<Update(r)>>)
    /\ UNCHANGED <<serverVars, link, handlers, handled, down>>

(* changedAcquisitionTimeValue(), the slot of delayedValueChanged.         *)
SpinTimeout(g) ==
  LET r == [gui[g].held EXCEPT !.time = gui[g].time] IN
    /\ gui[g].spinTimer /\ Free(g)
    /\ gui' = [gui EXCEPT ![g].held = r, ![g].spinTimer = FALSE]
    /\ Send(g, <<Update(r)>>)
    /\ UNCHANGED <<serverVars, link, handlers, handled, down>>

-----------------------------------------------------------------------------
(* The server.  Each callback goes to every client.                        *)

Broadcast(callbacks) ==
  down' = [g \in Guis |-> IF g \in clients THEN down[g] \o callbacks ELSE down[g]]

(* Mutant of UpdateRun: the run is not written.                            *)
UpdateRunUnsaved(r) ==
  /\ run' = r
  /\ UNCHANGED <<adepoState, runFile>>
  /\ Broadcast(<<ChangedRun(r)>>)

UpdateRun(r) ==
  /\ run' = r
  /\ runFile' = r
  /\ UNCHANGED adepoState
  /\ Broadcast(<<ChangedRun(r)>>)

(* The callbacks of the other files are left out.                          *)
UpdateAll ==
  /\ runFile' = run
  /\ UNCHANGED <<adepoState, run>>
  /\ Broadcast(<<ChangedRun(run), ChangedConfiguration, ChangedState(adepoState)>>)

(* Mutant of StopDAQ: the clients are not told.                            *)
StopDAQUntold ==
  /\ run' = [run EXCEPT !.mode = "CLOSURE"]
  /\ adepoState' = IF adepoState = "WAITING" THEN "IDLE" ELSE adepoState
  /\ UNCHANGED <<runFile, down>>

(* LWDAQ is idle when the state is Idle or Waiting (ShownState).           *)
StopDAQ ==
  /\ run' = [run EXCEPT !.mode = "CLOSURE"]
  /\ adepoState' = IF adepoState = "WAITING" THEN "IDLE" ELSE adepoState
  /\ UNCHANGED runFile
  /\ Broadcast(<<ChangedState(adepoState')>>)

(* startDAQ() changes the state by way of LWDAQ only.                      *)
Started == UNCHANGED <<adepoState, run, runFile, down>>

ProcessMessage(g) ==
  /\ up[g] # <<>>
  /\ LET call == Head(up[g]) IN
       \/ call.op = "updateRun" /\ UpdateRun(call.run)
       \/ call.op = "updateAll" /\ UpdateAll
       \/ call.op = "start" /\ Started
       \/ call.op = "stop" /\ StopDAQ
  /\ up' = [up EXCEPT ![g] = Tail(@)]
  /\ UNCHANGED <<clients, link, handlers, handled, gui>>

LwdaqStateChanged ==
  /\ adepoState' \in AdepoState \ {adepoState}
  /\ Broadcast(<<ChangedState(adepoState')>>)
  /\ UNCHANGED <<run, runFile, clients, link, handlers, handled, gui, up>>

(* The process ends, the connections with it, and is started again.  What  *)
(* a client is handling then it has handled before or after; what it sends *)
(* is lost.                                                                *)
ServerRestart ==
  /\ \A g \in Guis : Free(g)
  /\ adepoState' = "CONNECTING"
  /\ run' = runFile
  /\ clients' = {}
  /\ link' = [g \in Guis |-> "closed"]
  /\ gui' = [g \in Guis |-> ShowState(gui[g], "CONNECTING")]
  /\ up' = [g \in Guis |-> <<>>]
  /\ down' = [g \in Guis |-> <<>>]
  /\ UNCHANGED <<runFile, handlers, handled>>

-----------------------------------------------------------------------------
Press(g) ==
  /\ Free(g)
  /\ \/ \E m \in {"CLOSURE", "MONITORING"} : StartIn(g, m)
     \/ Stop(g) \/ ChangedInstant(g) \/ SpinBox(g)

Fault == ServerRestart \/ \E g \in Guis : ConnectFails(g) \/ SocketDisconnected(g)

Step ==
  \E g \in Guis :
    \/ Receive(g) \/ ProcessMessage(g) \/ SpinTimeout(g)
    \/ NewConnection(g) \/ OnConnected(g) \/ Reconnect(g)

Next == Step \/ Fault \/ LwdaqStateChanged \/ \E g \in Guis : Press(g)

Spec == Init /\ [][Next]_vars

-----------------------------------------------------------------------------
IsState(m) == m.op = "changedState"
HasAsked(g) == \A i \in DOMAIN up[g] : up[g][i] # Simple("updateAll")

(***************************************************************************)
(* A connected client shows, or is about to show, the state of the server, *)
(* unless it has yet to ask: no change of state is lost or overtaken by    *)
(* an older one, whatever connects and disconnects in between.             *)
(***************************************************************************)
StateInSync ==
  \A g \in Guis : link[g] = "open" /\ HasAsked(g) =>
    \/ /\ gui[g].shown = adepoState
       /\ \A i \in DOMAIN down[g] : ~IsState(down[g][i])
    \/ \E i \in DOMAIN down[g] :
         /\ down[g][i] = ChangedState(adepoState)
         /\ \A j \in DOMAIN down[g] : IsState(down[g][j]) => j <= i

(* Nothing is under way, no timer is running but the reconnectTimer.       *)
Quiet ==
  \A g \in Guis : up[g] = <<>> /\ down[g] = <<>> /\ ~gui[g].spinTimer
                    /\ link[g] # "opening"

(***************************************************************************)
(* Once no message is under way every connected client has the run of the  *)
(* server and shows it in its widgets, whatever was pressed in the others  *)
(* meanwhile.  Only the mode may differ: stop() of the server resets it    *)
(* without telling, and the updateRun that follows may be lost.            *)
(***************************************************************************)
QuietClientsAgree ==
  Quiet => \A g \in Guis : link[g] = "open" =>
    /\ \/ gui[g].held = run
       \/ run.mode = "CLOSURE" /\ gui[g].held = [run EXCEPT !.mode = "MONITORING"]
    /\ gui[g].time = run.time
    /\ gui[g].canStart = (adepoState = "IDLE")

(***************************************************************************)
(* The slot that onConnected() connects once more with every connection    *)
(* does no harm: handling a callback again changes and sends nothing.      *)
(***************************************************************************)
HandledAgain ==
  \A g \in Guis : ~Free(g) =>
    /\ After(gui[g], Head(down[g])) = gui[g]
    /\ Echo(gui[g], Head(down[g])) = <<>>
=============================================================================
