------------------------------ MODULE MCBridge ------------------------------
(***************************************************************************)
(* Bridge with two clients, either starting, with nothing else happening,  *)
(* or connected, with a bounded number of things users do, connections     *)
(* that break, restarts, and changes of the state of the server.           *)
(***************************************************************************)
EXTENDS Bridge

CONSTANTS
  g1, g2,
  MaxEvents,   (* bound: things users do, failures, and changes of state   *)
  MaxUp,       (* bound, unless calm: calls under way from a client        *)
  MaxDown      (* bound, unless calm: callbacks under way to a client      *)

VARIABLES
  events,      (* how many more of them may happen                         *)
  rippling,    (* history: something a user did is not settled yet         *)
  calm,        (* history: users acted one after the other, and no         *)
               (* connection changed meanwhile                             *)
  want         (* history: the run the users have asked for                *)

MCGuis == {g1, g2}
mcVars == <<vars, events, rippling, calm, want>>

(* All clients are connected and have heard of everything.                 *)
AtRest ==
  /\ adepoState \in {"IDLE", "WAITING"}
  /\ run = [DefaultRun EXCEPT !.time = 1] /\ runFile = run
  /\ clients = Guis
  /\ link = [g \in Guis |-> "open"]
  /\ handlers = [g \in Guis |-> 1]
  /\ handled = [g \in Guis |-> 0]
  /\ gui = [g \in Guis |->
       [shown |-> adepoState, canStart |-> adepoState = "IDLE", filled |-> TRUE,
        held |-> run, time |-> run.time, spinTimer |-> FALSE]]
  /\ up = [g \in Guis |-> <<>>]
  /\ down = [g \in Guis |-> <<>>]

MCInit ==
  /\ \/ AtRest /\ events = MaxEvents
     \/ Init /\ events = 0
  /\ rippling = FALSE /\ calm = TRUE
  /\ want = run

(* What the user of a connected client has asked for.                      *)
Wanted(g) == [gui'[g].held EXCEPT !.time = gui'[g].time]

Pressed(g) ==
  /\ Press(g)
  /\ rippling' = TRUE
  /\ calm' = (calm /\ Quiet)
  /\ want' = IF link[g] = "open" THEN Wanted(g) ELSE want

Settling ==
  /\ rippling' = (rippling /\ ~Quiet')
  /\ calm' = (calm /\ (rippling => clients' = clients /\ link' = link))
  /\ UNCHANGED want

MCNext ==
  /\ \/ Step /\ Settling /\ UNCHANGED events
     \/ /\ events > 0 /\ events' = events - 1
        /\ \/ (Fault \/ LwdaqStateChanged) /\ Settling
           \/ \E g \in Guis : Pressed(g)
  /\ calm' \/ \A g \in Guis : Len(up'[g]) <= MaxUp /\ Len(down'[g]) <= MaxDown

MCSpec == MCInit /\ [][MCNext]_mcVars

(* The event loops serve every message and timer; connections are made.    *)
MCFairSpec ==
  /\ MCSpec
  /\ \A g \in Guis :
       /\ WF_vars(Receive(g)) /\ WF_vars(ProcessMessage(g))
       /\ WF_vars(SpinTimeout(g)) /\ WF_vars(Reconnect(g))
       /\ WF_vars(NewConnection(g)) /\ WF_vars(OnConnected(g))

-----------------------------------------------------------------------------
(***************************************************************************)
(* When users act one after the other, what was asked for last is what the *)
(* server has: no echo of a widget and no run of another client undoes it. *)
(***************************************************************************)
LastChoiceWins == calm /\ Quiet => run = want

(***************************************************************************)
(* The clients and the server then come to rest, all connected: the        *)
(* updateRun that a callback causes is not answered for ever.              *)
(***************************************************************************)
Settles == <>[](calm => Quiet /\ \A g \in Guis : link[g] = "open")
=============================================================================
